-------------------------- MODULE RendezvousProofs --------------------------
(***************************************************************************)
(* Proofs about two browsers that find each other over the signalling      *)
(* server, for any number of faults, late messages and remembered          *)
(* incarnations: types, that links and messages name attempts that were    *)
(* begun, and that what a placement remembers of its peer is what the peer *)
(* has been.                                                               *)
(***************************************************************************)
EXTENDS Rendezvous, TLAPS

(***************************************************************************)
(* The values of the code's structures, in which all numbers of attempts   *)
(* and connections lie below n.                                            *)
(***************************************************************************)
Number(n) == 0 .. n - 1

LinkState == {"none", "new", "open", "failed"}

LinkType(n) ==
    [attempt : Number(n), pc : Number(n), offer : BOOLEAN, answer : BOOLEAN, remote : Number(n),
     cands : SUBSET Number(n), pending : SUBSET Number(n), state : LinkState]

EarlyType(n) == [attempt : Number(n), cands : SUBSET Number(n)]

Signal(n) == [type : {"offer", "answer", "ice"}, attempt : Number(n), pc : Number(n)]

TransportType(n) == [link : LinkType(n), early : EarlyType(n), out : Seq(Signal(n))]

Message(n) == Signal(n) \cup [type : {"hello"}, inc : Incarnation]

WireType(n) == [Placement -> [Incarnation -> Seq(Message(n))]]

ChildType(n) == [inc : Incarnation \cup {0}, stage : Stage, fence : Number(n)]

Shape ==
    /\ nextPc \in Nat \ {0}
    /\ rtc \in [Placement -> TransportType(nextPc)]
    /\ failed \in [Placement -> SUBSET Number(nextPc)]
    /\ inc \in [Placement -> Incarnation]
    /\ socket \in [Placement -> BOOLEAN]
    /\ known \in [Placement -> BOOLEAN]
    /\ gossip \in [Placement -> BOOLEAN]
    /\ seen \in [Placement -> Seq(Incarnation)]
    /\ \A p \in Placement : Len(seen[p]) <= Remembered
    /\ child \in [Placement -> SUBSET ChildType(nextPc)]
    /\ wire \in WireType(nextPc)
    /\ used \in 0 .. MaxFaults

\* An incarnation is counted by a fault, and only those up to the current one
\* have sent anything.
IncarnationsOK ==
    \A p \in Placement :
        /\ inc[p] <= used + 1
        /\ \A i \in Incarnation : i > inc[Other(p)] => wire[p][i] = <<>>
        /\ \A c \in child[p] : c.inc <= inc[Other(p)]

RendezvousInv == Shape /\ IncarnationsOK /\ TrackerFollows

\* There are two placements, each the other of the other.
LEMMA Placements ==
    \A p \in Placement : /\ Other(p) \in Placement /\ Other(p) # p /\ Other(Other(p)) = p
                         /\ \A q \in Placement : q = p \/ q = Other(p)
BY PlacementAssumption DEF Placement, Other

(***************************************************************************)
(* Types grow with the numbers.                                            *)
(***************************************************************************)

\* One connection more, or none.
Grows(n, m) == n \in Nat \ {0} /\ m \in {n, n + 1}

\* The numbers in use are never taken back.
LEMMA NumbersGrow ==
    ASSUME NEW n, NEW m, Grows(n, m)
    PROVE  m \in Nat \ {0} /\ Number(n) \subseteq Number(m)
BY DEF Grows, Number

\* What was typed stays typed when a connection is made.
LEMMA TypesGrow ==
    ASSUME NEW n, NEW m, Grows(n, m)
    PROVE  /\ LinkType(n) \subseteq LinkType(m) /\ EarlyType(n) \subseteq EarlyType(m)
           /\ Signal(n) \subseteq Signal(m) /\ Message(n) \subseteq Message(m)
           /\ TransportType(n) \subseteq TransportType(m)
           /\ ChildType(n) \subseteq ChildType(m) /\ WireType(n) \subseteq WireType(m)
<1>1. Number(n) \subseteq Number(m)
    BY NumbersGrow
<1>2. LinkType(n) \subseteq LinkType(m)
    BY <1>1 DEF LinkType
<1>3. EarlyType(n) \subseteq EarlyType(m)
    BY <1>1 DEF EarlyType
<1>4. Signal(n) \subseteq Signal(m)
    BY <1>1 DEF Signal
<1>5. Message(n) \subseteq Message(m)
    BY <1>4 DEF Message
<1>6. \A S, T : S \subseteq T => Seq(S) \subseteq Seq(T)
    OBVIOUS
<1>7. TransportType(n) \subseteq TransportType(m)
    BY <1>2, <1>3, <1>4, <1>6 DEF TransportType
<1>8. ChildType(n) \subseteq ChildType(m)
    BY <1>1 DEF ChildType
<1>9. WireType(n) \subseteq WireType(m)
    <2>1. Seq(Message(n)) \subseteq Seq(Message(m))
        BY <1>5, <1>6
    <2> QED BY <2>1 DEF WireType
<1> QED BY <1>2, <1>3, <1>4, <1>5, <1>7, <1>8, <1>9

(***************************************************************************)
(* The driver.  Each handler returns a transport of the numbers in use, or *)
(* one whose link is the next connection.                                  *)
(***************************************************************************)
Made(d) ==
    \/ d \in TransportType(nextPc)
    \/ d \in TransportType(nextPc + 1) /\ d.link.pc = nextPc

\* The values a transport starts from.
LEMMA FreshFacts ==
    ASSUME NEW n \in Nat \ {0}
    PROVE  0 \in Number(n) /\ NoLink \in LinkType(n) /\ NoEarly \in EarlyType(n)
           /\ FreshTransport \in TransportType(n)
<1>1. 0 \in Number(n)
    BY DEF Number
<1>2. NoLink \in LinkType(n)
    BY <1>1 DEF NoLink, LinkType, LinkState
<1>3. NoEarly \in EarlyType(n)
    BY <1>1 DEF NoEarly, EarlyType
<1>4. \A S : <<>> \in Seq(S)
    OBVIOUS
<1> QED BY <1>1, <1>2, <1>3, <1>4 DEF FreshTransport, TransportType

\* A transport is what its three fields are.
LEMMA Fields ==
    ASSUME NEW n, NEW d \in TransportType(n)
    PROVE  /\ d.link \in LinkType(n) /\ d.early \in EarlyType(n) /\ d.out \in Seq(Signal(n))
           /\ d = [link |-> d.link, early |-> d.early, out |-> d.out]
           /\ \A l \in LinkType(n) : [d EXCEPT !.link = l] \in TransportType(n)
           /\ \A e \in EarlyType(n) : [d EXCEPT !.early = e] \in TransportType(n)
           /\ \A o \in Seq(Signal(n)) : [d EXCEPT !.out = o] \in TransportType(n)
BY DEF TransportType

\* A retired link leaves the transport without one.
LEMMA RetireTyped ==
    ASSUME NEW n \in Nat \ {0}, NEW d \in TransportType(n)
    PROVE  RetireLink(d) \in TransportType(n) /\ RetireLink(d).link = NoLink
BY FreshFacts, Fields DEF RetireLink, TransportType

\* ensure_link makes the link of the numbers it is given.
LEMMA EnsureTyped ==
    ASSUME NEW n \in Nat \ {0}, NEW d \in TransportType(n), NEW attempt \in Number(n),
           NEW pc \in Number(n)
    PROVE  EnsureLink(d, attempt, pc) \in TransportType(n) /\ EnsureLink(d, attempt, pc).link.pc = pc
<1> DEFINE l == [NoLink EXCEPT !.attempt = attempt, !.pc = pc, !.state = "new"]
<1>1. NoLink \in LinkType(n)
    BY FreshFacts
<1>2. l \in LinkType(n) /\ l.pc = pc
    BY <1>1 DEF LinkType, LinkState
<1> HIDE DEF l
<1>3. EnsureLink(d, attempt, pc) = [d EXCEPT !.link = l]
    BY DEF EnsureLink, l
<1>4. [d EXCEPT !.link = l] \in TransportType(n) /\ [d EXCEPT !.link = l].link = l
    BY <1>2, Fields DEF TransportType
<1> QED BY <1>2, <1>3, <1>4

\* Signals that the driver wants published.
LEMMA OutTyped ==
    ASSUME NEW n, NEW d \in TransportType(n), NEW s \in Signal(n)
    PROVE  /\ [d EXCEPT !.out = Append(@, s)] \in TransportType(n)
           /\ [d EXCEPT !.out = Append(@, s)].link = d.link
<1>1. Append(d.out, s) \in Seq(Signal(n))
    BY Fields
<1> QED BY <1>1, Fields DEF TransportType

\* A description and the candidate that follows it.
LEMMA PublishedTyped ==
    ASSUME NEW n, NEW d \in TransportType(n), NEW s \in Signal(n)
    PROVE  Published(d, s) \in TransportType(n) /\ Published(d, s).link = d.link
<1> DEFINE ice == Ice(s.attempt, s.pc)
<1>1. ice \in Signal(n)
    BY DEF Ice, Signal
<1> HIDE DEF ice
<1>2. <<s, ice>> \in Seq(Signal(n)) /\ d.out \in Seq(Signal(n))
    BY <1>1, Fields
<1>3. d.out \o <<s, ice>> \in Seq(Signal(n))
    BY <1>2
<1>4. Published(d, s) = [d EXCEPT !.out = d.out \o <<s, ice>>]
    BY DEF Published, ice
<1> QED BY <1>3, <1>4, Fields DEF TransportType

\* Descriptions of numbers in use are signals of those.
LEMMA SignalsTyped ==
    ASSUME NEW n, NEW attempt \in Number(n), NEW pc \in Number(n)
    PROVE  Offer(attempt) \in Signal(n) /\ Answer(attempt, pc) \in Signal(n)
BY DEF Offer, Answer, Signal

\* handle_dial makes the next connection, or none.
LEMMA DialMade ==
    ASSUME nextPc \in Nat \ {0}, NEW p \in Placement, NEW d \in TransportType(nextPc)
    PROVE  Made(HandleDial(p, d))
<1> DEFINE n == nextPc + 1
           made == EnsureLink(d, nextPc, nextPc)
           offered == [made EXCEPT !.link.offer = TRUE]
<1>1. n \in Nat \ {0} /\ nextPc \in Number(n) /\ d \in TransportType(n)
    BY TypesGrow DEF Grows, Number
<1>2. made \in TransportType(n) /\ made.link.pc = nextPc
    BY <1>1, EnsureTyped
<1> HIDE DEF made, n
<1>3. offered \in TransportType(n) /\ offered.link.pc = nextPc
    <2>1. made.link \in LinkType(n)
        BY <1>2, Fields
    <2>2. [made.link EXCEPT !.offer = TRUE] \in LinkType(n)
          /\ [made.link EXCEPT !.offer = TRUE].pc = made.link.pc
        BY <2>1 DEF LinkType
    <2> QED BY <1>2, <2>2, Fields DEF TransportType
<1>4. Published(offered, Offer(nextPc)) \in TransportType(n)
      /\ Published(offered, Offer(nextPc)).link = offered.link
    BY <1>1, <1>3, SignalsTyped, PublishedTyped
<1>5. [d EXCEPT !.out = Append(@, Offer(d.link.attempt))] \in TransportType(nextPc)
    <2>1. d.link.attempt \in Number(nextPc)
        BY Fields DEF LinkType
    <2> QED BY <2>1, SignalsTyped, OutTyped
<1> QED BY <1>3, <1>4, <1>5 DEF HandleDial, Made, made, n

\* handle_offer makes the next connection unless it has one of this attempt.
LEMMA OfferMade ==
    ASSUME nextPc \in Nat \ {0}, NEW p \in Placement, NEW d \in TransportType(nextPc),
           NEW m \in Signal(nextPc)
    PROVE  Made(HandleOffer(p, d, m))
<1> DEFINE kept == IF HasLink(d) /\ d.link.attempt # m.attempt THEN RetireLink(d) ELSE d
           made == IF HasLink(kept) THEN kept ELSE EnsureLink(kept, m.attempt, nextPc)
           ready == AdoptEarlyIce(made, m.attempt)
           flushed == FlushAfterRemoteDesc(ready, m.pc)
           answered == [flushed EXCEPT !.link.answer = TRUE]
           again == [ready EXCEPT !.out = Append(@, Answer(m.attempt, ready.link.pc))]
           first == Published(answered, Answer(m.attempt, made.link.pc))
<1>1. kept \in TransportType(nextPc)
    BY RetireTyped
<1>2. PICK n \in {nextPc, nextPc + 1} :
          /\ made \in TransportType(n)
          /\ n = nextPc \/ made.link.pc = nextPc
    <2>1. kept \in TransportType(nextPc + 1) /\ nextPc + 1 \in Nat \ {0}
          /\ nextPc \in Number(nextPc + 1) /\ m.attempt \in Number(nextPc + 1)
        BY <1>1, TypesGrow DEF Grows, Number, Signal
    <2> HIDE DEF kept
    <2>2. EnsureLink(kept, m.attempt, nextPc) \in TransportType(nextPc + 1)
          /\ EnsureLink(kept, m.attempt, nextPc).link.pc = nextPc
        BY <2>1, EnsureTyped
    <2> QED BY <1>1, <2>2
<1> HIDE DEF kept, made
<1>3. n \in Nat \ {0} /\ m \in Signal(n) /\ m.attempt \in Number(n) /\ m.pc \in Number(n)
    <2>1. n \in Nat \ {0} /\ Grows(nextPc, n)
        BY <1>2 DEF Grows
    <2>2. m \in Signal(n)
        BY <2>1, TypesGrow
    <2> QED BY <2>1, <2>2 DEF Signal
<1>4. ready \in TransportType(n) /\ ready.link.pc = made.link.pc
    <2> DEFINE more == IF made.early.attempt = m.attempt THEN made.early.cands ELSE {}
               l == [made.link EXCEPT !.pending = @ \cup more]
    <2>1. made.link \in LinkType(n) /\ made.early \in EarlyType(n)
        BY <1>2, Fields
    <2>2. more \subseteq Number(n)
        BY <2>1 DEF EarlyType
    <2> HIDE DEF more
    <2>3. l \in LinkType(n) /\ l.pc = made.link.pc
        BY <2>1, <2>2 DEF LinkType
    <2> HIDE DEF l
    <2>4. ready = [made EXCEPT !.early = NoEarly, !.link = l]
        BY <1>2 DEF AdoptEarlyIce, more, l, TransportType
    <2> HIDE DEF ready
    <2> QED BY <1>2, <1>3, <2>3, <2>4, FreshFacts DEF TransportType
<1> HIDE DEF ready
<1>5. flushed \in TransportType(n) /\ flushed.link.pc = ready.link.pc
    <2> DEFINE l == [ready.link EXCEPT !.remote = m.pc, !.cands = @ \cup ready.link.pending,
                                       !.pending = {}]
    <2>1. ready.link \in LinkType(n)
        BY <1>4, Fields
    <2>2. l \in LinkType(n) /\ l.pc = ready.link.pc
        BY <1>3, <2>1 DEF LinkType
    <2> HIDE DEF l
    <2>3. flushed = [ready EXCEPT !.link = l]
        BY <1>4 DEF FlushAfterRemoteDesc, l, TransportType
    <2> QED BY <1>4, <2>2, <2>3, Fields DEF TransportType
<1> HIDE DEF flushed
<1>6. answered \in TransportType(n) /\ answered.link.pc = flushed.link.pc
    <2>1. flushed.link \in LinkType(n)
        BY <1>5, Fields
    <2>2. [flushed.link EXCEPT !.answer = TRUE] \in LinkType(n)
          /\ [flushed.link EXCEPT !.answer = TRUE].pc = flushed.link.pc
        BY <2>1 DEF LinkType
    <2> QED BY <1>5, <2>2, Fields DEF TransportType
<1> HIDE DEF answered
<1>7. ready.link.pc \in Number(n) /\ made.link.pc \in Number(n)
    BY <1>4, Fields DEF LinkType
<1>8. again \in TransportType(n) /\ again.link = ready.link
    BY <1>3, <1>4, <1>7, SignalsTyped, OutTyped
<1>9. first \in TransportType(n) /\ first.link = answered.link
    BY <1>3, <1>6, <1>7, SignalsTyped, PublishedTyped
<1> HIDE DEF again, first
<1>10. Made(again) /\ Made(first)
    BY <1>2, <1>4, <1>5, <1>6, <1>8, <1>9 DEF Made
<1>11. HandleOffer(p, d, m) \in {d, again, first}
    BY DEF HandleOffer, kept, made, ready, flushed, answered, again, first
<1> QED BY <1>10, <1>11 DEF Made

\* handle_answer makes no connection.
LEMMA AnswerMade ==
    ASSUME nextPc \in Nat \ {0}, NEW p \in Placement, NEW d \in TransportType(nextPc),
           NEW m \in Signal(nextPc)
    PROVE  Made(HandleAnswer(p, d, m))
<1> DEFINE l == [d.link EXCEPT !.remote = m.pc, !.cands = @ \cup d.link.pending, !.pending = {}]
<1>1. d.link \in LinkType(nextPc) /\ m.pc \in Number(nextPc)
    BY Fields DEF Signal
<1>2. l \in LinkType(nextPc)
    BY <1>1 DEF LinkType
<1> HIDE DEF l
<1>3. FlushAfterRemoteDesc(d, m.pc) = [d EXCEPT !.link = l]
    BY DEF FlushAfterRemoteDesc, l, TransportType
<1> QED BY <1>2, <1>3, Fields DEF HandleAnswer, Made

\* Neither does a candidate.
LEMMA IceMade ==
    ASSUME nextPc \in Nat \ {0}, NEW d \in TransportType(nextPc), NEW m \in Signal(nextPc)
    PROVE  Made(HandleIce(d, m))
<1>1. /\ d.link \in LinkType(nextPc) /\ d.early \in EarlyType(nextPc)
      /\ m.pc \in Number(nextPc) /\ m.attempt \in Number(nextPc)
    BY Fields DEF Signal
<1>2. BufferEarlyIce(d, m) \in TransportType(nextPc)
    <2> DEFINE e == [attempt |-> m.attempt,
                     cands |-> {m.pc} \cup IF d.early.attempt = m.attempt THEN d.early.cands ELSE {}]
    <2>1. e \in EarlyType(nextPc)
        BY <1>1 DEF EarlyType
    <2> HIDE DEF e
    <2>2. BufferEarlyIce(d, m) = [d EXCEPT !.early = e]
        BY DEF BufferEarlyIce, e
    <2> QED BY <2>1, <2>2, Fields
<1>3. /\ [d.link EXCEPT !.cands = @ \cup {m.pc}] \in LinkType(nextPc)
      /\ [d.link EXCEPT !.pending = @ \cup {m.pc}] \in LinkType(nextPc)
    BY <1>1 DEF LinkType
<1>4. /\ [d EXCEPT !.link.cands = @ \cup {m.pc}] \in TransportType(nextPc)
      /\ [d EXCEPT !.link.pending = @ \cup {m.pc}] \in TransportType(nextPc)
    BY <1>3, Fields
<1> QED BY <1>2, <1>4 DEF HandleIce, Made

\* The driver handles any signal, the loss of its peer's incarnation and the
\* failure of its link.
LEMMA DriverMade ==
    ASSUME nextPc \in Nat \ {0}, NEW p \in Placement, NEW d \in TransportType(nextPc)
    PROVE  /\ Made(d) /\ Made(HandleDial(p, d)) /\ Made(HandleReincarnated(p, d))
           /\ \A m \in Signal(nextPc) : Made(HandleSignal(p, d, m))
           /\ \A attempt : Made(HandleTerminal(p, d, attempt))
<1>1. Made(d)
    BY DEF Made
<1>2. RetireLink(d) \in TransportType(nextPc)
    BY RetireTyped
<1>3. Made(HandleDial(p, d)) /\ Made(HandleDial(p, RetireLink(d)))
    BY <1>2, DialMade
<1>4. ASSUME NEW m \in Signal(nextPc) PROVE Made(HandleSignal(p, d, m))
    <2>1. m.type \in {"offer", "answer", "ice"}
        BY DEF Signal
    <2>2. CASE m.type = "offer"
        BY <2>2, OfferMade DEF HandleSignal
    <2>3. CASE m.type = "answer"
        BY <2>3, AnswerMade DEF HandleSignal
    <2>4. CASE m.type = "ice"
        BY <2>4, IceMade DEF HandleSignal
    <2> QED BY <2>1, <2>2, <2>3, <2>4
<1>5. Made(HandleReincarnated(p, d)) /\ \A attempt : Made(HandleTerminal(p, d, attempt))
    BY <1>1, <1>3 DEF HandleReincarnated, HandleTerminal
<1> QED BY <1>1, <1>3, <1>4, <1>5

(***************************************************************************)
(* The wire.                                                               *)
(***************************************************************************)

\* Only incarnations up to the current one have sent anything.
FromThePast(w) == \A q \in Placement, i \in Incarnation : i > inc[Other(q)] => w[q][i] = <<>>

\* What a placement publishes joins what its incarnation has sent.
LEMMA FanoutTyped ==
    ASSUME Shape, NEW n, NEW w \in WireType(n), FromThePast(w), NEW p \in Placement,
           NEW ms \in Seq(Message(n))
    PROVE  Fanout(w, p, ms) \in WireType(n) /\ FromThePast(Fanout(w, p, ms))
<1> DEFINE q == Other(p)
           new == [w EXCEPT ![q][inc[p]] = @ \o ms]
<1>1. q \in Placement /\ Other(q) = p /\ inc[p] \in Incarnation /\ inc[p] \in Nat
    BY Placements, RendezvousAssumption DEF Shape, Incarnation
<1> HIDE DEF q
<1>2. w[q][inc[p]] \o ms \in Seq(Message(n))
    BY <1>1 DEF WireType
<1>3. /\ new \in WireType(n)
      /\ \A r \in Placement, i \in Incarnation : (r = q /\ i = inc[p]) \/ new[r][i] = w[r][i]
    BY <1>1, <1>2 DEF WireType
<1> HIDE DEF new
<1>4. FromThePast(new)
    <2> SUFFICES ASSUME NEW r \in Placement, NEW i \in Incarnation, i > inc[Other(r)]
                 PROVE  new[r][i] = <<>>
        BY DEF FromThePast
    <2>1. ~(r = q /\ i = inc[p])
        BY <1>1
    <2> QED BY <1>3, <2>1 DEF FromThePast
<1>5. Fanout(w, p, ms) \in {w, new}
    BY DEF Fanout, new, q
<1> QED BY <1>3, <1>4, <1>5

\* What the driver publishes can be put on the wire.
LEMMA SignalsAreMessages ==
    ASSUME NEW n, NEW s \in Seq(Signal(n))
    PROVE  s \in Seq(Message(n))
BY DEF Message

\* The steps that hand the driver's signals to the session keep the types.
LEMMA PublishTyped ==
    ASSUME Shape, NEW p \in Placement, NEW d, Made(d), NEW w \in WireType(nextPc), FromThePast(w),
           Publish(p, d, w)
    PROVE  /\ Grows(nextPc, nextPc')
           /\ rtc' \in [Placement -> TransportType(nextPc')]
           /\ wire' \in WireType(nextPc') /\ FromThePast(wire')
<1> DEFINE n == nextPc'
           quiet == [d EXCEPT !.out = <<>>]
<1>1. /\ n = IF d.link.pc = nextPc THEN nextPc + 1 ELSE nextPc
      /\ rtc' = [rtc EXCEPT ![p] = IF socket[p] THEN quiet ELSE d]
      /\ wire' = IF socket[p] THEN Fanout(w, p, d.out) ELSE w
    BY DEF Publish
<1>2. Grows(nextPc, n) /\ n \in Nat \ {0}
    BY <1>1 DEF Shape, Grows
<1>3. d \in TransportType(n)
    <2>1. CASE d \in TransportType(nextPc)
        BY <1>2, <2>1, TypesGrow
    <2>2. CASE d \in TransportType(nextPc + 1) /\ d.link.pc = nextPc
        BY <1>1, <2>2
    <2> QED BY <2>1, <2>2 DEF Made
<1>4. rtc \in [Placement -> TransportType(n)] /\ w \in WireType(n)
    BY <1>2, TypesGrow DEF Shape
<1> HIDE DEF n
<1>5. quiet \in TransportType(n)
    <2>1. <<>> \in Seq(Signal(n))
        OBVIOUS
    <2> QED BY <1>3, <2>1, Fields
<1>6. Fanout(w, p, d.out) \in WireType(n) /\ FromThePast(Fanout(w, p, d.out))
    <2>1. d.out \in Seq(Message(n))
        BY <1>3, Fields, SignalsAreMessages
    <2> QED BY <1>4, <2>1, FanoutTyped
<1> HIDE DEF quiet
<1>7. rtc' \in [Placement -> TransportType(n)]
    BY <1>1, <1>3, <1>4, <1>5
<1> QED BY <1>1, <1>2, <1>4, <1>6, <1>7 DEF n

\* What holds after a step that keeps the incarnations.
LEMMA Keeps ==
    ASSUME RendezvousInv, Grows(nextPc, nextPc'),
           rtc' \in [Placement -> TransportType(nextPc')],
           wire' \in WireType(nextPc'), FromThePast(wire'),
           failed' \in [Placement -> SUBSET Number(nextPc)],
           UNCHANGED inc, used' \in {used, used + 1}, used' <= MaxFaults,
           socket' \in [Placement -> BOOLEAN],
           gossip' \in [Placement -> BOOLEAN], known' \in [Placement -> BOOLEAN],
           seen' \in [Placement -> Seq(Incarnation)],
           \A p \in Placement : Len(seen'[p]) <= Remembered,
           child' \in [Placement -> SUBSET ChildType(nextPc)],
           \A p \in Placement : \A c \in child'[p] : c.inc <= inc[Other(p)],
           TrackerFollows'
    PROVE  RendezvousInv'
<1>1. nextPc' \in Nat \ {0}
    BY NumbersGrow
<1>2. failed' \in [Placement -> SUBSET Number(nextPc')]
    BY NumbersGrow
<1>3. child' \in [Placement -> SUBSET ChildType(nextPc')]
    BY TypesGrow
<1>4. used \in 0 .. MaxFaults /\ used' \in 0 .. MaxFaults /\ used' >= used
    BY RendezvousAssumption DEF RendezvousInv, Shape
<1>5. Shape'
    BY <1>1, <1>2, <1>3, <1>4 DEF RendezvousInv, Shape, WireType
<1>6. ASSUME NEW p \in Placement PROVE inc'[p] <= used' + 1
    <2>1. inc[p] <= used + 1 /\ inc[p] \in Nat
        BY RendezvousAssumption DEF RendezvousInv, Shape, IncarnationsOK, Incarnation
    <2> QED BY <1>4, <2>1
<1>7. IncarnationsOK'
    BY <1>6 DEF IncarnationsOK, FromThePast
<1> QED BY <1>5, <1>7 DEF RendezvousInv

\* What holds after a step that keeps tracker, joined and incarnations and adds
\* no task to a placement without one.
LEMMA KeepsTracker ==
    ASSUME RendezvousInv, Grows(nextPc, nextPc'),
           rtc' \in [Placement -> TransportType(nextPc')],
           wire' \in WireType(nextPc'), FromThePast(wire'),
           failed' \in [Placement -> SUBSET Number(nextPc)],
           UNCHANGED <<inc, known, seen>>, used' \in {used, used + 1}, used' <= MaxFaults,
           socket' \in [Placement -> BOOLEAN], gossip' \in [Placement -> BOOLEAN],
           child' \in [Placement -> SUBSET ChildType(nextPc)],
           \A p \in Placement : \A c \in child'[p] : \E e \in child[p] : c.inc = e.inc
    PROVE  RendezvousInv'
<1>1. \A p \in Placement : \A c \in child'[p] : c.inc <= inc[Other(p)]
    BY DEF RendezvousInv, IncarnationsOK
<1>2. TrackerFollows'
    BY DEF RendezvousInv, TrackerFollows
<1>3. /\ known' \in [Placement -> BOOLEAN] /\ seen' \in [Placement -> Seq(Incarnation)]
      /\ \A p \in Placement : Len(seen'[p]) <= Remembered
    BY DEF RendezvousInv, Shape
<1> QED BY <1>1, <1>2, <1>3, Keeps

\* What the invariant says of the message a placement takes next.
LEMMA NextMessage ==
    ASSUME RendezvousInv, NEW p \in Placement, NEW i \in Incarnation, wire[p][i] # <<>>
    PROVE  /\ Head(wire[p][i]) \in Message(nextPc) /\ i <= inc[Other(p)]
           /\ [wire EXCEPT ![p][i] = Tail(@)] \in WireType(nextPc)
           /\ FromThePast([wire EXCEPT ![p][i] = Tail(@)])
<1> DEFINE rest == [wire EXCEPT ![p][i] = Tail(@)]
<1>1. wire[p][i] \in Seq(Message(nextPc)) /\ wire \in WireType(nextPc) /\ FromThePast(wire)
    BY DEF RendezvousInv, Shape, IncarnationsOK, WireType, FromThePast
<1>2. Head(wire[p][i]) \in Message(nextPc) /\ Tail(wire[p][i]) \in Seq(Message(nextPc))
    BY <1>1
<1>3. i <= inc[Other(p)]
    <2>1. inc[Other(p)] \in Nat /\ i \in Nat
        BY Placements, RendezvousAssumption DEF RendezvousInv, Shape, Incarnation
    <2> QED BY <1>1, <2>1 DEF FromThePast
<1>4. /\ rest \in WireType(nextPc)
      /\ \A q \in Placement, j \in Incarnation : (q = p /\ j = i) \/ rest[q][j] = wire[q][j]
    BY <1>1, <1>2 DEF WireType
<1> HIDE DEF rest
<1>5. FromThePast(rest)
    <2> SUFFICES ASSUME NEW q \in Placement, NEW j \in Incarnation, j > inc[Other(q)]
                 PROVE  rest[q][j] = <<>>
        BY DEF FromThePast
    <2>1. ~(q = p /\ j = i)
        <3>1. inc[Other(p)] \in Nat /\ i \in Nat
            BY Placements, RendezvousAssumption DEF RendezvousInv, Shape, Incarnation
        <3> QED BY <1>3, <3>1
    <2> QED BY <1>1, <1>4, <2>1 DEF FromThePast
<1> QED BY <1>2, <1>3, <1>4, <1>5 DEF rest

(***************************************************************************)
(* The invariant is kept.                                                  *)
(***************************************************************************)

\* The placements start in the invariant.
LEMMA InitRendezvous == Init => RendezvousInv
<1> SUFFICES ASSUME Init PROVE RendezvousInv
    OBVIOUS
<1>1. Len(<<>>) = 0 /\ \A S : <<>> \in Seq(S)
    OBVIOUS
<1>2. NoTraffic \in [Incarnation -> Seq(Message(1))] /\ \A i \in Incarnation : NoTraffic[i] = <<>>
    BY <1>1 DEF NoTraffic
<1>3. FreshTransport \in TransportType(1) /\ 1 \in Incarnation /\ Len(<<>>) <= Remembered
    BY <1>1, FreshFacts, RendezvousAssumption DEF Incarnation
<1>4. Shape
    <2>1. wire \in WireType(1)
        BY <1>2 DEF Init, WireType
    <2>2. seen \in [Placement -> Seq(Incarnation)] /\ \A p \in Placement : seen[p] = <<>>
        BY <1>1 DEF Init
    <2> QED BY <1>3, <2>1, <2>2, RendezvousAssumption DEF Init, Shape
<1>5. IncarnationsOK
    BY <1>2 DEF Init, IncarnationsOK
<1>6. TrackerFollows
    <2>1. ToSet(<<>>) = {} /\ IsInjective(<<>>)
        BY DEF ToSet, IsInjective
    <2> QED BY <2>1 DEF Init, TrackerFollows
<1> QED BY <1>4, <1>5, <1>6 DEF RendezvousInv

\* The invariant's parts, as a step that changes some of them cites them.
LEMMA Parts ==
    ASSUME RendezvousInv
    PROVE  /\ Shape /\ Grows(nextPc, nextPc) /\ FromThePast(wire) /\ used <= MaxFaults
           /\ used \in {used, used + 1} /\ TrackerFollows
           /\ \A p \in Placement : \A c \in child[p] : c.inc <= inc[Other(p)]
<1>1. used \in 0 .. MaxFaults
    BY DEF RendezvousInv, Shape
<1> QED BY <1>1, RendezvousAssumption DEF RendezvousInv, Shape, Grows, IncarnationsOK, FromThePast

\* A session that connects keeps the invariant.
LEMMA ConnectKeeps == ASSUME RendezvousInv, NEW p \in Placement, Connect(p) PROVE RendezvousInv'
<1>1. /\ socket' = [socket EXCEPT ![p] = TRUE]
      /\ wire' = Fanout(wire, p, <<Hello(inc[p])>> \o rtc[p].out)
      /\ rtc' = [rtc EXCEPT ![p].out = <<>>]
      /\ UNCHANGED <<failed, nextPc, inc, known, seen, child, gossip, used>>
    BY DEF Connect
<1>2. <<Hello(inc[p])>> \o rtc[p].out \in Seq(Message(nextPc))
    <2>1. Hello(inc[p]) \in Message(nextPc)
        BY DEF RendezvousInv, Shape, Hello, Message
    <2>2. <<Hello(inc[p])>> \in Seq(Message(nextPc))
        BY <2>1
    <2>3. rtc[p].out \in Seq(Message(nextPc))
        BY Fields, SignalsAreMessages DEF RendezvousInv, Shape
    <2> QED BY <2>2, <2>3
<1>3. wire' \in WireType(nextPc) /\ FromThePast(wire')
    <2>1. Shape /\ wire \in WireType(nextPc) /\ FromThePast(wire)
        BY Parts DEF Shape
    <2> QED BY <1>1, <1>2, <2>1, FanoutTyped
<1>4. rtc' \in [Placement -> TransportType(nextPc)]
    <2>1. <<>> \in Seq(Signal(nextPc)) /\ rtc \in [Placement -> TransportType(nextPc)]
        BY DEF RendezvousInv, Shape
    <2>2. [rtc[p] EXCEPT !.out = <<>>] \in TransportType(nextPc)
        BY <2>1, Fields
    <2> QED BY <1>1, <2>1, <2>2
<1> QED BY <1>1, <1>3, <1>4, Parts, KeepsTracker DEF Shape

\* So does a Hello that is repeated.
LEMMA ReHelloKeeps == ASSUME RendezvousInv, NEW p \in Placement, ReHello(p) PROVE RendezvousInv'
<1>1. /\ wire' = Fanout(wire, p, <<Hello(inc[p])>>)
      /\ UNCHANGED <<rtc, failed, nextPc, inc, socket, known, seen, child, gossip, used>>
    BY DEF ReHello
<1>2. <<Hello(inc[p])>> \in Seq(Message(nextPc))
    <2>1. Hello(inc[p]) \in Message(nextPc)
        BY DEF RendezvousInv, Shape, Hello, Message
    <2> QED BY <2>1
<1>3. wire' \in WireType(nextPc) /\ FromThePast(wire')
    <2>1. Shape /\ wire \in WireType(nextPc) /\ FromThePast(wire)
        BY Parts DEF Shape
    <2> QED BY <1>1, <1>2, <2>1, FanoutTyped
<1> QED BY <1>1, <1>3, Parts, KeepsTracker DEF Shape

\* A placement that lost its socket hears nothing that was sent to it.
LEMMA SilentTyped ==
    ASSUME RendezvousInv, NEW p \in Placement
    PROVE  /\ [wire EXCEPT ![p] = NoTraffic] \in WireType(nextPc)
           /\ FromThePast([wire EXCEPT ![p] = NoTraffic])
<1>1. <<>> \in Seq(Message(nextPc))
    OBVIOUS
<1>2. NoTraffic \in [Incarnation -> Seq(Message(nextPc))] /\ \A i \in Incarnation : NoTraffic[i] = <<>>
    BY <1>1 DEF NoTraffic
<1>3. wire \in WireType(nextPc) /\ FromThePast(wire)
    BY Parts DEF Shape
<1> QED BY <1>2, <1>3 DEF WireType, FromThePast

\* So does a socket that closes.
LEMMA DropKeeps == ASSUME RendezvousInv, NEW p \in Placement, Drop(p) PROVE RendezvousInv'
<1>1. /\ used < MaxFaults /\ used' = used + 1
      /\ socket' = [socket EXCEPT ![p] = FALSE]
      /\ wire' = [wire EXCEPT ![p] = NoTraffic]
      /\ child' = [child EXCEPT ![p] = {}]
      /\ UNCHANGED <<rtc, failed, nextPc, inc, known, seen, gossip>>
    BY DEF Drop
<1>2. used' <= MaxFaults /\ used' \in {used, used + 1}
    BY <1>1, RendezvousAssumption DEF RendezvousInv, Shape
<1>3. child' \in [Placement -> SUBSET ChildType(nextPc)]
      /\ \A q \in Placement : child'[q] \subseteq child[q]
    BY <1>1 DEF RendezvousInv, Shape
<1>4. wire' \in WireType(nextPc) /\ FromThePast(wire')
    BY <1>1, SilentTyped
<1> QED BY <1>1, <1>2, <1>3, <1>4, Parts, KeepsTracker DEF Shape

\* So does a placement that is reopened: its incarnation is the next, and it
\* remembers nothing.
LEMMA RestartKeeps == ASSUME RendezvousInv, NEW p \in Placement, Restart(p) PROVE RendezvousInv'
<1> DEFINE q == Other(p)
<1>1. /\ used < MaxFaults /\ used' = used + 1
      /\ inc' = [inc EXCEPT ![p] = @ + 1]
      /\ rtc' = [rtc EXCEPT ![p] = FreshTransport]
      /\ failed' = [failed EXCEPT ![p] = {}]
      /\ socket' = [socket EXCEPT ![p] = FALSE]
      /\ known' = [known EXCEPT ![p] = FALSE]
      /\ seen' = [seen EXCEPT ![p] = <<>>]
      /\ child' = [child EXCEPT ![p] = {}]
      /\ gossip' = [gossip EXCEPT ![p] = FALSE]
      /\ nextPc' = nextPc
    BY DEF Restart
<1>2. PICK n \in 0 .. MaxLate :
          wire' = [wire EXCEPT ![p] = NoTraffic,
                               ![q][inc[p]] = SubSeq(@, 1, IF n < Len(@) THEN n ELSE Len(@))]
    BY DEF Restart
<1>3. /\ q \in Placement /\ q # p /\ Other(q) = p /\ inc[p] \in Incarnation
      /\ used \in Nat /\ used' \in 0 .. MaxFaults
    BY <1>1, Placements, RendezvousAssumption DEF RendezvousInv, Shape
<1>4. /\ inc' \in [Placement -> Incarnation] /\ inc'[p] = inc[p] + 1 /\ inc[p] <= used + 1
      /\ \A r \in Placement : inc[r] \in Nat /\ inc'[r] \in Nat /\ inc[r] <= inc'[r]
    <2>1. inc \in [Placement -> Incarnation] /\ inc[p] <= used + 1
        BY DEF RendezvousInv, Shape, IncarnationsOK
    <2>2. inc[p] + 1 \in Incarnation
        BY <1>1, <1>3, <2>1, RendezvousAssumption DEF Incarnation
    <2> QED BY <1>1, <2>1, <2>2, RendezvousAssumption DEF Incarnation
<1>5. wire' \in WireType(nextPc) /\ FromThePast(wire')
    <2> DEFINE w == [wire EXCEPT ![p] = NoTraffic]
               k == IF n < Len(wire[q][inc[p]]) THEN n ELSE Len(wire[q][inc[p]])
               part == SubSeq(wire[q][inc[p]], 1, k)
    <2>1. w \in WireType(nextPc) /\ FromThePast(w)
        BY SilentTyped
    <2>2. wire[q][inc[p]] \in Seq(Message(nextPc)) /\ w[q] = wire[q] /\ wire \in WireType(nextPc)
        BY <1>3 DEF RendezvousInv, Shape, WireType
    <2>3. part \in Seq(Message(nextPc))
        BY <1>2, <2>2, RendezvousAssumption
    <2>4. wire' = [w EXCEPT ![q][inc[p]] = part]
        BY <1>2, <1>3, <2>2 DEF WireType
    <2> HIDE DEF w, part, q
    <2>5. /\ wire' \in WireType(nextPc)
          /\ \A r \in Placement, i \in Incarnation : (r = q /\ i = inc[p]) \/ wire'[r][i] = w[r][i]
        BY <1>3, <2>1, <2>3, <2>4 DEF WireType
    <2>6. ASSUME NEW r \in Placement, NEW i \in Incarnation, i > inc[Other(r)]
          PROVE  wire'[r][i] = <<>>
        <3>1. ~(r = q /\ i = inc[p])
            BY <1>3, <1>4, <2>6
        <3> QED BY <2>1, <2>5, <2>6, <3>1 DEF FromThePast
    <2> QED BY <2>5, <2>6 DEF FromThePast
<1> HIDE DEF q
<1>6. Shape'
    <2>1. rtc' \in [Placement -> TransportType(nextPc)]
        BY <1>1, FreshFacts DEF RendezvousInv, Shape
    <2>2. seen' \in [Placement -> Seq(Incarnation)] /\ \A r \in Placement : Len(seen'[r]) <= Remembered
        <3>1. <<>> \in Seq(Incarnation) /\ Len(<<>>) = 0
            OBVIOUS
        <3>2. \A r \in Placement : seen'[r] = IF r = p THEN <<>> ELSE seen[r]
            BY <1>1 DEF RendezvousInv, Shape
        <3> QED BY <1>1, <3>1, <3>2, RendezvousAssumption DEF RendezvousInv, Shape
    <2>3. /\ socket' \in [Placement -> BOOLEAN] /\ known' \in [Placement -> BOOLEAN]
          /\ gossip' \in [Placement -> BOOLEAN]
          /\ failed' \in [Placement -> SUBSET Number(nextPc)]
          /\ child' \in [Placement -> SUBSET ChildType(nextPc)]
        BY <1>1 DEF RendezvousInv, Shape
    <2>4. nextPc \in Nat \ {0}
        BY DEF RendezvousInv, Shape
    <2> QED BY <1>1, <1>3, <1>4, <1>5, <2>1, <2>2, <2>3, <2>4 DEF Shape
<1>7. IncarnationsOK'
    <2>1. ASSUME NEW r \in Placement PROVE inc'[r] <= used' + 1
        <3>1. inc[r] <= used + 1 /\ inc[r] \in Nat
            BY <1>4 DEF RendezvousInv, IncarnationsOK
        <3>2. inc'[r] \in {inc[r], inc[p] + 1}
            BY <1>1, <1>4 DEF RendezvousInv, Shape
        <3> QED BY <1>1, <1>3, <1>4, <3>1, <3>2
    <2>2. ASSUME NEW r \in Placement, NEW i \in Incarnation, i > inc'[Other(r)]
          PROVE  wire'[r][i] = <<>>
        <3>1. Other(r) \in Placement /\ i \in Nat
            BY Placements, RendezvousAssumption DEF Incarnation
        <3>2. i > inc[Other(r)]
            BY <1>4, <2>2, <3>1
        <3> QED BY <1>5, <3>2 DEF FromThePast
    <2>3. ASSUME NEW r \in Placement, NEW c \in child'[r] PROVE c.inc <= inc'[Other(r)]
        <3>1. c \in child[r] /\ Other(r) \in Placement
            BY <1>1, <2>3, Placements DEF RendezvousInv, Shape
        <3>2. c.inc <= inc[Other(r)] /\ c.inc \in Nat
            BY <3>1, RendezvousAssumption
               DEF RendezvousInv, Shape, IncarnationsOK, ChildType, Incarnation
        <3> QED BY <1>4, <3>1, <3>2
    <2> QED BY <2>1, <2>2, <2>3 DEF IncarnationsOK
<1>8. TrackerFollows'
    <2> SUFFICES ASSUME NEW r \in Placement
                 PROVE  /\ known'[r] <=> seen'[r] # <<>>
                        /\ IsInjective(seen'[r])
                        /\ \A i \in ToSet(seen'[r]) : i <= inc'[Other(r)]
                        /\ child'[r] # {} => known'[r]
        BY DEF TrackerFollows
    <2>1. CASE r = p
        <3>1. seen'[r] = <<>> /\ known'[r] = FALSE /\ child'[r] = {}
            BY <1>1, <2>1 DEF RendezvousInv, Shape
        <3>2. ToSet(<<>>) = {} /\ IsInjective(<<>>)
            BY DEF ToSet, IsInjective
        <3> QED BY <3>1, <3>2
    <2>2. CASE r # p
        <3>1. seen'[r] = seen[r] /\ known'[r] = known[r] /\ child'[r] = child[r]
            BY <1>1, <2>2 DEF RendezvousInv, Shape
        <3>2. ASSUME NEW i \in ToSet(seen[r]) PROVE i <= inc'[Other(r)]
            <4>1. i \in Nat /\ i <= inc[Other(r)] /\ Other(r) \in Placement
                <5>1. seen[r] \in Seq(Incarnation)
                    BY DEF RendezvousInv, Shape
                <5>2. i \in Incarnation
                    BY <5>1, <3>2 DEF ToSet
                <5> QED BY <3>2, <5>2, Placements, RendezvousAssumption
                        DEF RendezvousInv, TrackerFollows, Incarnation
            <4> QED BY <1>4, <4>1
        <3> QED BY <3>1, <3>2 DEF RendezvousInv, TrackerFollows
    <2> QED BY <2>1, <2>2
<1> QED BY <1>6, <1>7, <1>8 DEF RendezvousInv

\* RtcIncarnationTracker remembers what it observes, once, and forgets the
\* oldest when it is full.
LEMMA ObserveFacts ==
    ASSUME NEW s \in Seq(Incarnation), Len(s) <= Remembered, IsInjective(s),
           NEW i \in Incarnation, NEW k, i <= k, \A j \in ToSet(s) : j <= k
    PROVE  /\ Observe(s, i) \in Seq(Incarnation) /\ Len(Observe(s, i)) <= Remembered
           /\ Observe(s, i) # <<>> /\ IsInjective(Observe(s, i))
           /\ \A j \in ToSet(Observe(s, i)) : j <= k
<1>1. CASE i \in ToSet(s)
    <2>1. s # <<>>
        BY <1>1 DEF ToSet
    <2> QED BY <1>1, <2>1 DEF Observe
<1>2. ASSUME NEW t \in Seq(Incarnation), Len(t) < Remembered, IsInjective(t),
             \A j \in 1 .. Len(t) : t[j] \in ToSet(s), i \notin ToSet(s)
      PROVE  /\ Append(t, i) \in Seq(Incarnation) /\ Len(Append(t, i)) <= Remembered
             /\ Append(t, i) # <<>> /\ IsInjective(Append(t, i))
             /\ \A j \in ToSet(Append(t, i)) : j <= k
    <2> DEFINE u == Append(t, i)
    <2>1. /\ u \in Seq(Incarnation) /\ Len(u) = Len(t) + 1 /\ u[Len(t) + 1] = i
          /\ \A j \in 1 .. Len(t) : u[j] = t[j]
          /\ DOMAIN t = 1 .. Len(t) /\ DOMAIN u = 1 .. Len(t) + 1 /\ Len(t) \in Nat
        OBVIOUS
    <2> HIDE DEF u
    <2>2. \A j \in 1 .. Len(t) + 1 : j \in 1 .. Len(t) \/ j = Len(t) + 1
        BY <2>1
    <2>3. IsInjective(u)
        <3> SUFFICES ASSUME NEW a \in 1 .. Len(t) + 1, NEW b \in 1 .. Len(t) + 1, u[a] = u[b]
                     PROVE  a = b
            BY <2>1 DEF IsInjective
        <3>1. CASE a \in 1 .. Len(t) /\ b \in 1 .. Len(t)
            BY <1>2, <2>1, <3>1 DEF IsInjective
        <3>2. CASE a = Len(t) + 1 \/ b = Len(t) + 1
            BY <1>2, <2>1, <2>2, <3>2
        <3> QED BY <2>2, <3>1, <3>2
    <2>4. ASSUME NEW j \in ToSet(u) PROVE j <= k
        <3>1. PICK a \in 1 .. Len(t) + 1 : j = u[a]
            BY <2>1, <2>4 DEF ToSet
        <3> QED BY <1>2, <2>1, <2>2, <3>1
    <2>5. Len(u) <= Remembered /\ u # <<>>
        BY <1>2, <2>1, RendezvousAssumption
    <2> QED BY <2>1, <2>3, <2>4, <2>5 DEF u
<1>3. CASE i \notin ToSet(s) /\ Len(s) = Remembered
    <2>1. s # <<>>
        BY <1>3, RendezvousAssumption
    <2>2. /\ Tail(s) \in Seq(Incarnation) /\ Len(Tail(s)) = Len(s) - 1
          /\ \A j \in 1 .. Len(s) - 1 : Tail(s)[j] = s[j + 1] /\ j + 1 \in 1 .. Len(s)
          /\ DOMAIN s = 1 .. Len(s) /\ DOMAIN Tail(s) = 1 .. Len(s) - 1
        BY <2>1
    <2>3. IsInjective(Tail(s))
        <3> SUFFICES ASSUME NEW a \in 1 .. Len(s) - 1, NEW b \in 1 .. Len(s) - 1,
                            Tail(s)[a] = Tail(s)[b]
                     PROVE  a = b
            BY <2>2 DEF IsInjective
        <3>1. a + 1 = b + 1
            BY <2>2 DEF IsInjective
        <3> QED BY <3>1
    <2>4. \A j \in 1 .. Len(Tail(s)) : Tail(s)[j] \in ToSet(s)
        BY <2>2 DEF ToSet
    <2>5. Len(Tail(s)) < Remembered
        BY <1>3, <2>2, RendezvousAssumption
    <2> QED BY <1>2, <1>3, <2>2, <2>3, <2>4, <2>5 DEF Observe
<1>4. CASE i \notin ToSet(s) /\ Len(s) # Remembered
    <2>1. \A j \in 1 .. Len(s) : s[j] \in ToSet(s)
        BY DEF ToSet
    <2>2. Len(s) < Remembered
        BY <1>4, RendezvousAssumption
    <2> QED BY <1>2, <1>4, <2>1, <2>2 DEF Observe
<1> QED BY <1>1, <1>3, <1>4

\* The tracker observes the sender of a Hello, who is then joined.
LEMMA HelloObserved ==
    ASSUME RendezvousInv, NEW p \in Placement, NEW i \in Incarnation, wire[p][i] # <<>>,
           seen' = [seen EXCEPT ![p] = Observe(@, i)],
           known' = [known EXCEPT ![p] = TRUE], UNCHANGED inc,
           \A q \in Placement : q = p \/ child'[q] = child[q]
    PROVE  /\ seen' \in [Placement -> Seq(Incarnation)]
           /\ \A q \in Placement : Len(seen'[q]) <= Remembered
           /\ TrackerFollows'
<1> DEFINE next == Observe(seen[p], i)
<1>1. /\ next \in Seq(Incarnation) /\ Len(next) <= Remembered /\ next # <<>>
      /\ IsInjective(next) /\ \A j \in ToSet(next) : j <= inc[Other(p)]
    <2>1. seen[p] \in Seq(Incarnation) /\ Len(seen[p]) <= Remembered
        BY DEF RendezvousInv, Shape
    <2>2. IsInjective(seen[p]) /\ \A j \in ToSet(seen[p]) : j <= inc[Other(p)]
        BY DEF RendezvousInv, TrackerFollows
    <2>3. i <= inc[Other(p)]
        BY NextMessage
    <2> QED BY <2>1, <2>2, <2>3, ObserveFacts
<1> HIDE DEF next
<1>2. \A q \in Placement : /\ seen'[q] = IF q = p THEN next ELSE seen[q]
                           /\ known'[q] = IF q = p THEN TRUE ELSE known[q]
    BY DEF RendezvousInv, Shape, next
<1>3. seen' \in [Placement -> Seq(Incarnation)]
    BY <1>1 DEF RendezvousInv, Shape, next
<1>4. \A q \in Placement : Len(seen'[q]) <= Remembered
    BY <1>1, <1>2 DEF RendezvousInv, Shape
<1>5. TrackerFollows'
    <2> SUFFICES ASSUME NEW q \in Placement
                 PROVE  /\ known'[q] <=> seen'[q] # <<>>
                        /\ IsInjective(seen'[q])
                        /\ \A j \in ToSet(seen'[q]) : j <= inc[Other(q)]
                        /\ child'[q] # {} => known'[q]
        BY DEF TrackerFollows
    <2>1. CASE q = p
        BY <1>1, <1>2, <2>1
    <2>2. CASE q # p
        BY <1>2, <2>2 DEF RendezvousInv, TrackerFollows
    <2> QED BY <2>1, <2>2
<1> QED BY <1>3, <1>4, <1>5

\* A Hello keeps the invariant, of whichever incarnation it is.
LEMMA RecvHelloKeeps ==
    ASSUME RendezvousInv, NEW p \in Placement, NEW i \in Incarnation, RecvHello(p, i)
    PROVE  RendezvousInv'
<1> DEFINE rest == [wire EXCEPT ![p][i] = Tail(@)]
           greeted == Fanout(rest, p, <<Hello(inc[p])>>)
<1>1. /\ wire[p][i] # <<>>
      /\ seen' = [seen EXCEPT ![p] = Observe(@, i)]
      /\ IF known[p] THEN RefreshPeer(p, i, rest) ELSE DiscoverPeer(p, rest)
      /\ UNCHANGED <<failed, inc, socket, gossip, used>>
    BY DEF RecvHello
<1>2. rest \in WireType(nextPc) /\ FromThePast(rest) /\ i <= inc[Other(p)]
    BY <1>1, NextMessage
<1> HIDE DEF rest
<1>3. greeted \in WireType(nextPc) /\ FromThePast(greeted)
    <2>1. Hello(inc[p]) \in Message(nextPc)
        BY DEF RendezvousInv, Shape, Hello, Message
    <2>2. <<Hello(inc[p])>> \in Seq(Message(nextPc))
        BY <2>1
    <2> QED BY <1>2, <2>2, Parts, FanoutTyped
<1> HIDE DEF greeted
<1>4. /\ nextPc \in Nat \ {0} /\ rtc \in [Placement -> TransportType(nextPc)]
      /\ known \in [Placement -> BOOLEAN] /\ child \in [Placement -> SUBSET ChildType(nextPc)]
      /\ 0 \in Number(nextPc)
    BY FreshFacts DEF RendezvousInv, Shape
<1>5. Made(rtc[p]) /\ Made(HandleDial(p, rtc[p]))
    BY <1>4, DriverMade
<1>6. /\ known' = [known EXCEPT ![p] = TRUE] /\ known' \in [Placement -> BOOLEAN]
      /\ \/ UNCHANGED child
         \/ child' = [child EXCEPT ![p] = @ \cup {AgainChild(i)}]
         \/ child' = [child EXCEPT ![p] = @ \cup {FirstChild}]
    BY <1>1, <1>4 DEF RefreshPeer, DiscoverPeer
<1>7. /\ child' \in [Placement -> SUBSET ChildType(nextPc)]
      /\ \A q \in Placement : q = p \/ child'[q] = child[q]
      /\ \A q \in Placement : \A c \in child'[q] : c.inc <= inc[Other(q)]
    <2>1. /\ AgainChild(i) \in ChildType(nextPc) /\ AgainChild(i).inc = i
          /\ FirstChild \in ChildType(nextPc) /\ FirstChild.inc = 0
        BY <1>4 DEF AgainChild, FirstChild, ChildType, Stage
    <2>2. 0 <= inc[Other(p)]
        BY Placements, RendezvousAssumption DEF RendezvousInv, Shape, Incarnation
    <2>3. child' \in [Placement -> SUBSET ChildType(nextPc)]
        BY <1>4, <1>6, <2>1
    <2>4. ASSUME NEW q \in Placement, NEW c \in child'[q] PROVE c.inc <= inc[Other(q)]
        <3>1. \/ child'[q] = child[q]
              \/ q = p /\ child'[q] = child[q] \cup {AgainChild(i)}
              \/ q = p /\ child'[q] = child[q] \cup {FirstChild}
            <4>1. CASE UNCHANGED child
                BY <4>1
            <4>2. CASE child' = [child EXCEPT ![p] = @ \cup {AgainChild(i)}]
                BY <1>4, <4>2
            <4>3. CASE child' = [child EXCEPT ![p] = @ \cup {FirstChild}]
                BY <1>4, <4>3
            <4> QED BY <1>6, <4>1, <4>2, <4>3
        <3>2. CASE child'[q] = child[q]
            BY <3>2, Parts
        <3>3. CASE q = p /\ child'[q] = child[q] \cup {AgainChild(i)}
            <4>1. c \in child[q] \/ c = AgainChild(i)
                BY <3>3
            <4> QED BY <1>2, <2>1, <3>3, <4>1, Parts
        <3>4. CASE q = p /\ child'[q] = child[q] \cup {FirstChild}
            <4>1. c \in child[q] \/ c = FirstChild
                BY <3>4
            <4> QED BY <2>1, <2>2, <3>4, <4>1, Parts
        <3> QED BY <3>1, <3>2, <3>3, <3>4
    <2>5. \A q \in Placement : q = p \/ child'[q] = child[q]
        BY <1>4, <1>6
    <2> QED BY <2>3, <2>4, <2>5
<1>8. /\ Grows(nextPc, nextPc') /\ rtc' \in [Placement -> TransportType(nextPc')]
      /\ wire' \in WireType(nextPc') /\ FromThePast(wire')
    <2>1. CASE UNCHANGED <<rtc, nextPc>> /\ wire' = rest
        BY <1>1, <1>2, <1>4, <2>1, Parts
    <2>2. CASE \E d \in {rtc[p], HandleDial(p, rtc[p])}, w \in {rest, greeted} : Publish(p, d, w)
        BY <1>2, <1>3, <1>5, <2>2, Parts, PublishTyped
    <2> QED BY <1>1, <2>1, <2>2 DEF RefreshPeer, DiscoverPeer, greeted
<1>9. /\ seen' \in [Placement -> Seq(Incarnation)] /\ TrackerFollows'
      /\ \A q \in Placement : Len(seen'[q]) <= Remembered
    BY <1>1, <1>6, <1>7, HelloObserved
<1>10. /\ failed' \in [Placement -> SUBSET Number(nextPc)] /\ socket' \in [Placement -> BOOLEAN]
       /\ gossip' \in [Placement -> BOOLEAN] /\ UNCHANGED inc
       /\ used' \in {used, used + 1} /\ used' <= MaxFaults
    BY <1>1, Parts DEF Shape
<1> QED BY <1>6, <1>7, <1>8, <1>9, <1>10, Keeps

\* So does a handshake message, however late.
LEMMA RecvSignalKeeps ==
    ASSUME RendezvousInv, NEW p \in Placement, NEW i \in Incarnation, RecvSignal(p, i)
    PROVE  RendezvousInv'
<1> DEFINE rest == [wire EXCEPT ![p][i] = Tail(@)]
           m == Head(wire[p][i])
<1>1. /\ wire[p][i] # <<>> /\ m.type # "hello"
      /\ Publish(p, HandleSignal(p, rtc[p], m), rest)
      /\ UNCHANGED <<failed, inc, socket, known, seen, child, gossip, used>>
    BY DEF RecvSignal
<1>2. rest \in WireType(nextPc) /\ FromThePast(rest) /\ m \in Message(nextPc)
    BY <1>1, NextMessage
<1> HIDE DEF rest, m
<1>3. m \in Signal(nextPc)
    BY <1>1, <1>2 DEF Message
<1>4. Made(HandleSignal(p, rtc[p], m))
    BY <1>3, DriverMade DEF RendezvousInv, Shape
<1>5. /\ Grows(nextPc, nextPc') /\ rtc' \in [Placement -> TransportType(nextPc')]
      /\ wire' \in WireType(nextPc') /\ FromThePast(wire')
    BY <1>1, <1>2, <1>4, Parts, PublishTyped
<1> QED BY <1>1, <1>5, Parts, KeepsTracker DEF Shape

\* So does the report of a failed link.
LEMMA TerminalKeeps ==
    ASSUME RendezvousInv, NEW p \in Placement, NEW attempt, Terminal(p, attempt)
    PROVE  RendezvousInv'
<1>1. /\ failed' = [failed EXCEPT ![p] = @ \ {attempt}]
      /\ Publish(p, HandleTerminal(p, rtc[p], attempt), wire)
      /\ UNCHANGED <<inc, socket, known, seen, child, gossip, used>>
    BY DEF Terminal
<1>2. Made(HandleTerminal(p, rtc[p], attempt))
    BY DriverMade DEF RendezvousInv, Shape
<1>3. /\ Grows(nextPc, nextPc') /\ rtc' \in [Placement -> TransportType(nextPc')]
      /\ wire' \in WireType(nextPc') /\ FromThePast(wire')
    <2>1. wire \in WireType(nextPc)
        BY DEF RendezvousInv, Shape
    <2> QED BY <1>1, <1>2, <2>1, Parts, PublishTyped
<1>4. failed' \in [Placement -> SUBSET Number(nextPc)]
    BY <1>1 DEF RendezvousInv, Shape
<1> QED BY <1>1, <1>3, <1>4, Parts, KeepsTracker DEF Shape

\* So does the command of a task that rejoins.
LEMMA ReincarnateKeeps ==
    ASSUME RendezvousInv, NEW p \in Placement, NEW c, Reincarnate(p, c)
    PROVE  RendezvousInv'
<1> DEFINE waiting == [c EXCEPT !.stage = "wait", !.fence = rtc[p].link.attempt]
<1>1. /\ c \in child[p]
      /\ child' = [child EXCEPT ![p] = (@ \ {c}) \cup {waiting}]
      /\ Publish(p, HandleReincarnated(p, rtc[p]), wire)
      /\ UNCHANGED <<failed, inc, socket, known, seen, gossip, used>>
    BY DEF Reincarnate
<1>2. Made(HandleReincarnated(p, rtc[p]))
    BY DriverMade DEF RendezvousInv, Shape
<1>3. /\ Grows(nextPc, nextPc') /\ rtc' \in [Placement -> TransportType(nextPc')]
      /\ wire' \in WireType(nextPc') /\ FromThePast(wire')
    <2>1. wire \in WireType(nextPc)
        BY DEF RendezvousInv, Shape
    <2> QED BY <1>1, <1>2, <2>1, Parts, PublishTyped
<1>4. waiting \in ChildType(nextPc) /\ waiting.inc = c.inc
    <2>1. c \in ChildType(nextPc)
        BY <1>1 DEF RendezvousInv, Shape
    <2>2. rtc[p].link \in LinkType(nextPc)
        BY Fields DEF RendezvousInv, Shape
    <2>3. rtc[p].link.attempt \in Number(nextPc)
        BY <2>2 DEF LinkType
    <2> QED BY <2>1, <2>3 DEF ChildType, Stage
<1> HIDE DEF waiting
<1>5. /\ child' \in [Placement -> SUBSET ChildType(nextPc)]
      /\ \A q \in Placement : \A e \in child'[q] : \E f \in child[q] : e.inc = f.inc
    BY <1>1, <1>4 DEF RendezvousInv, Shape
<1> QED BY <1>1, <1>3, <1>5, Parts, KeepsTracker DEF Shape

\* So does a task that joins gossip.
LEMMA JoinGossipKeeps ==
    ASSUME RendezvousInv, NEW p \in Placement, NEW c, JoinGossip(p, c)
    PROVE  RendezvousInv'
<1>1. /\ gossip' = [gossip EXCEPT ![p] = TRUE]
      /\ child' = [child EXCEPT ![p] = @ \ {c}]
      /\ UNCHANGED <<rtc, failed, nextPc, inc, socket, known, seen, wire, used>>
    BY DEF JoinGossip
<1>2. /\ child' \in [Placement -> SUBSET ChildType(nextPc)]
      /\ \A q \in Placement : child'[q] \subseteq child[q]
      /\ gossip' \in [Placement -> BOOLEAN]
    BY <1>1 DEF RendezvousInv, Shape
<1> QED BY <1>1, <1>2, Parts, KeepsTracker DEF Shape

\* The state of a link changes.
LEMMA LinkStateTyped ==
    ASSUME Shape, NEW p \in Placement, NEW state \in LinkState
    PROVE  [rtc EXCEPT ![p].link.state = state] \in [Placement -> TransportType(nextPc)]
<1>1. rtc \in [Placement -> TransportType(nextPc)] /\ rtc[p].link \in LinkType(nextPc)
    BY Fields DEF Shape
<1>2. [rtc[p].link EXCEPT !.state = state] \in LinkType(nextPc)
    BY <1>1 DEF LinkType
<1>3. [rtc[p] EXCEPT !.link.state = state] \in TransportType(nextPc)
    BY <1>1, <1>2, Fields
<1> QED BY <1>1, <1>3

\* A link fails, by whatever fault.
LEMMA FailKeeps ==
    ASSUME RendezvousInv, NEW p \in Placement, FailLink(p), used' \in {used, used + 1},
           used' <= MaxFaults, UNCHANGED <<inc, socket, known, seen, child, gossip, wire>>
    PROVE  RendezvousInv'
<1>1. /\ rtc' = [rtc EXCEPT ![p].link.state = "failed"]
      /\ failed' = [failed EXCEPT ![p] = @ \cup {rtc[p].link.attempt}]
      /\ UNCHANGED nextPc
    BY DEF FailLink
<1>2. rtc' \in [Placement -> TransportType(nextPc)]
    BY <1>1, LinkStateTyped DEF RendezvousInv, LinkState
<1>3. failed' \in [Placement -> SUBSET Number(nextPc)]
    <2>1. rtc[p].link \in LinkType(nextPc)
        BY Fields DEF RendezvousInv, Shape
    <2>2. rtc[p].link.attempt \in Number(nextPc)
        BY <2>1 DEF LinkType
    <2> QED BY <1>1, <2>2 DEF RendezvousInv, Shape
<1> QED BY <1>1, <1>2, <1>3, Parts, KeepsTracker DEF Shape

\* So does a data channel that opens.
LEMMA OpenKeeps == ASSUME RendezvousInv, NEW p \in Placement, Open(p) PROVE RendezvousInv'
<1>1. /\ rtc' = [rtc EXCEPT ![p].link.state = "open"]
      /\ UNCHANGED <<failed, nextPc, inc, socket, known, seen, child, gossip, wire, used>>
    BY DEF Open, OpenLink, rvars
<1>2. rtc' \in [Placement -> TransportType(nextPc)]
    BY <1>1, LinkStateTyped DEF RendezvousInv, LinkState
<1> QED BY <1>1, <1>2, Parts, KeepsTracker DEF Shape

\* So does a connection the browser gives up.
LEMMA GiveUpKeeps == ASSUME RendezvousInv, NEW p \in Placement, GiveUp(p) PROVE RendezvousInv'
BY Parts, FailKeeps DEF GiveUp, rvars

\* So does one that breaks.
LEMMA BreakKeeps == ASSUME RendezvousInv, NEW p \in Placement, Break(p) PROVE RendezvousInv'
<1>1. /\ FailLink(p) /\ used < MaxFaults /\ used' = used + 1
      /\ UNCHANGED <<inc, socket, known, seen, child, gossip, wire>>
    BY DEF Break
<1>2. used' <= MaxFaults
    BY <1>1, RendezvousAssumption DEF RendezvousInv, Shape
<1> QED BY <1>1, <1>2, FailKeeps

\* Every step keeps the invariant.
LEMMA NextRendezvous == RendezvousInv /\ [Next]_vars => RendezvousInv'
<1> SUFFICES ASSUME RendezvousInv, [Next]_vars PROVE RendezvousInv'
    OBVIOUS
<1>1. CASE UNCHANGED vars
    <2>1. /\ rtc' \in [Placement -> TransportType(nextPc)] /\ wire' \in WireType(nextPc)
          /\ UNCHANGED <<failed, nextPc, inc, socket, known, seen, child, gossip, wire, used>>
        BY <1>1 DEF vars, RendezvousInv, Shape
    <2> QED BY <2>1, Parts, KeepsTracker DEF Shape
<1>2. CASE Next
    <2>1. PICK p \in Placement :
              \/ Connect(p) \/ ReHello(p) \/ Drop(p) \/ Restart(p)
              \/ \E i \in Incarnation : RecvHello(p, i) \/ RecvSignal(p, i)
              \/ \E attempt \in failed[p] : Terminal(p, attempt)
              \/ \E c \in child[p] : Reincarnate(p, c) \/ JoinGossip(p, c)
              \/ Open(p) \/ GiveUp(p) \/ Break(p)
        BY <1>2 DEF Next
    <2>2. CASE Connect(p) \/ ReHello(p) \/ Drop(p) \/ Restart(p)
        BY <2>2, ConnectKeeps, ReHelloKeeps, DropKeeps, RestartKeeps
    <2>3. CASE \E i \in Incarnation : RecvHello(p, i) \/ RecvSignal(p, i)
        BY <2>3, RecvHelloKeeps, RecvSignalKeeps
    <2>4. CASE \E attempt \in failed[p] : Terminal(p, attempt)
        BY <2>4, TerminalKeeps
    <2>5. CASE \E c \in child[p] : Reincarnate(p, c) \/ JoinGossip(p, c)
        BY <2>5, ReincarnateKeeps, JoinGossipKeeps
    <2>6. CASE Open(p) \/ GiveUp(p) \/ Break(p)
        BY <2>6, OpenKeeps, GiveUpKeeps, BreakKeeps
    <2> QED BY <2>1, <2>2, <2>3, <2>4, <2>5, <2>6
<1> QED BY <1>1, <1>2

(***************************************************************************)
(* One connection.  An answerer that has its peer's description has its    *)
(* answer cached, so that no further offer of the attempt touches the link *)
(* again; with that, an open link changes neither its number nor whom it   *)
(* describes.                                                              *)
(***************************************************************************)
Answered(p, l) == p # Lower /\ l.remote # 0 => l.answer

\* What a handler may make of a link: one that is open was, and is the same.
LinkMoves(p, l, m) ==
    /\ Answered(p, l) => Answered(p, m)
    /\ m.state = "open" =>
          /\ l.state = "open" /\ m.pc = l.pc
          /\ Answered(p, l) /\ l.remote # 0 => m.remote = l.remote
          /\ l.cands \subseteq m.cands

\* A link that stays, and one that a retired or an opened attempt leaves.
LEMMA FreshMoves ==
    ASSUME NEW n \in Nat \ {0}, NEW p \in Placement, NEW l \in LinkType(n), NEW m \in LinkType(n)
    PROVE  /\ LinkMoves(p, l, l)
           /\ m.remote = 0 /\ m.state # "open" => LinkMoves(p, l, m)
BY DEF LinkMoves, Answered

\* What ensure_link leaves.
LEMMA EnsuredLinks ==
    ASSUME NEW n \in Nat \ {0}, NEW d \in TransportType(n), NEW attempt \in Number(n),
           NEW pc \in Number(n)
    PROVE  /\ EnsureLink(d, attempt, pc) \in TransportType(n)
           /\ EnsureLink(d, attempt, pc).link.remote = 0
           /\ EnsureLink(d, attempt, pc).link.state = "new"
<1>1. EnsureLink(d, attempt, pc) \in TransportType(n)
    BY EnsureTyped
<1>2. EnsureLink(d, attempt, pc).link = [NoLink EXCEPT !.attempt = attempt, !.pc = pc, !.state = "new"]
    BY DEF EnsureLink, TransportType
<1> QED BY <1>1, <1>2 DEF NoLink

\* handle_dial touches no link that is there.
LEMMA DialMoves ==
    ASSUME nextPc \in Nat \ {0}, NEW p \in Placement, NEW d \in TransportType(nextPc)
    PROVE  LinkMoves(p, d.link, HandleDial(p, d).link)
<1> DEFINE n == nextPc + 1
           made == EnsureLink(d, nextPc, nextPc)
           offered == [made EXCEPT !.link.offer = TRUE]
           again == [d EXCEPT !.out = Append(@, Offer(d.link.attempt))]
<1>1. n \in Nat \ {0} /\ nextPc \in Number(n) /\ d \in TransportType(n)
    BY TypesGrow DEF Grows, Number
<1>2. made \in TransportType(n) /\ made.link.remote = 0 /\ made.link.state = "new"
    BY <1>1, EnsuredLinks
<1> HIDE DEF made, n
<1>3. offered \in TransportType(n) /\ offered.link.remote = 0 /\ offered.link.state = "new"
    <2>1. made.link \in LinkType(n)
        BY <1>2, Fields
    <2>2. /\ [made.link EXCEPT !.offer = TRUE] \in LinkType(n)
          /\ [made.link EXCEPT !.offer = TRUE].remote = made.link.remote
          /\ [made.link EXCEPT !.offer = TRUE].state = made.link.state
        BY <2>1 DEF LinkType
    <2> QED BY <1>2, <2>2, Fields DEF TransportType
<1> HIDE DEF offered
<1>4. Published(offered, Offer(nextPc)).link = offered.link
    BY <1>1, <1>3, SignalsTyped, PublishedTyped
<1>5. LinkMoves(p, d.link, offered.link) /\ LinkMoves(p, d.link, d.link)
    BY <1>1, <1>3, Fields, FreshMoves
<1>6. again.link = d.link
    BY DEF TransportType
<1> HIDE DEF again
<1>7. HandleDial(p, d) \in {d, again, Published(offered, Offer(nextPc))}
    BY DEF HandleDial, again, offered, made
<1> QED BY <1>4, <1>5, <1>6, <1>7

\* handle_offer answers a link that has its answer from the cache and replaces one
\* of another attempt.
LEMMA OfferMoves ==
    ASSUME nextPc \in Nat \ {0}, NEW p \in Placement, NEW d \in TransportType(nextPc),
           NEW m \in Signal(nextPc)
    PROVE  LinkMoves(p, d.link, HandleOffer(p, d, m).link)
<1> DEFINE n == nextPc + 1
           kept == IF HasLink(d) /\ d.link.attempt # m.attempt THEN RetireLink(d) ELSE d
           made == IF HasLink(kept) THEN kept ELSE EnsureLink(kept, m.attempt, nextPc)
           ready == AdoptEarlyIce(made, m.attempt)
           flushed == FlushAfterRemoteDesc(ready, m.pc)
           answered == [flushed EXCEPT !.link.answer = TRUE]
           again == [ready EXCEPT !.out = Append(@, Answer(m.attempt, ready.link.pc))]
           first == Published(answered, Answer(m.attempt, made.link.pc))
<1>1. /\ n \in Nat \ {0} /\ nextPc \in Number(n) /\ d \in TransportType(n) /\ m \in Signal(n)
      /\ m.attempt \in Number(n) /\ m.pc \in Number(n)
    BY TypesGrow DEF Grows, Number, Signal
<1> HIDE DEF n
<1>2. /\ made \in TransportType(n)
      /\ made.link = d.link \/ (made.link.remote = 0 /\ made.link.state = "new")
    <2>1. kept \in TransportType(n) /\ (kept = d \/ ~HasLink(kept))
        BY <1>1, RetireTyped DEF HasLink, NoLink
    <2> HIDE DEF kept
    <2>k. kept \in TransportType(n)
        BY <2>1
    <2>2. /\ EnsureLink(kept, m.attempt, nextPc) \in TransportType(n)
          /\ EnsureLink(kept, m.attempt, nextPc).link.remote = 0
          /\ EnsureLink(kept, m.attempt, nextPc).link.state = "new"
        BY <1>1, <2>k, EnsuredLinks
    <2>3. CASE HasLink(kept)
        <3>1. made = d
            BY <2>1, <2>3
        <3> HIDE DEF made
        <3> QED BY <1>1, <3>1
    <2>4. CASE ~HasLink(kept)
        <3>1. made = EnsureLink(kept, m.attempt, nextPc)
            BY <2>4
        <3> HIDE DEF made
        <3> QED BY <2>2, <3>1
    <2> QED BY <2>3, <2>4
<1> HIDE DEF kept, made
<1>3. /\ ready \in TransportType(n)
      /\ ready.link.remote = made.link.remote /\ ready.link.state = made.link.state
      /\ ready.link.pc = made.link.pc /\ ready.link.cands = made.link.cands
      /\ ready.link.answer = made.link.answer
    <2> DEFINE more == IF made.early.attempt = m.attempt THEN made.early.cands ELSE {}
               l == [made.link EXCEPT !.pending = @ \cup more]
    <2>1. made.link \in LinkType(n) /\ made.early \in EarlyType(n)
        BY <1>2, Fields
    <2>2. more \subseteq Number(n)
        BY <2>1 DEF EarlyType
    <2> HIDE DEF more
    <2>3. /\ l \in LinkType(n) /\ l.pc = made.link.pc /\ l.remote = made.link.remote
          /\ l.state = made.link.state /\ l.cands = made.link.cands /\ l.answer = made.link.answer
        BY <2>1, <2>2 DEF LinkType
    <2> HIDE DEF l
    <2>4. ready = [made EXCEPT !.early = NoEarly, !.link = l]
        BY <1>2 DEF AdoptEarlyIce, more, l, TransportType
    <2> HIDE DEF ready
    <2> QED BY <1>1, <1>2, <2>3, <2>4, FreshFacts DEF TransportType
<1> HIDE DEF ready
<1>4. /\ answered \in TransportType(n) /\ answered.link.answer
      /\ answered.link.state = ready.link.state /\ answered.link.pc = ready.link.pc
      /\ ready.link.cands \subseteq answered.link.cands
    <2> DEFINE l == [ready.link EXCEPT !.remote = m.pc, !.cands = @ \cup ready.link.pending,
                                       !.pending = {}]
               k == [l EXCEPT !.answer = TRUE]
    <2>1. ready.link \in LinkType(n)
        BY <1>3, Fields
    <2>2. /\ l \in LinkType(n) /\ l.pc = ready.link.pc /\ l.state = ready.link.state
          /\ ready.link.cands \subseteq l.cands
        BY <1>1, <2>1 DEF LinkType
    <2>3. flushed = [ready EXCEPT !.link = l]
        BY <1>3 DEF FlushAfterRemoteDesc, l, TransportType
    <2> HIDE DEF l, flushed
    <2>4. k \in LinkType(n) /\ k.pc = l.pc /\ k.state = l.state /\ k.cands = l.cands /\ k.answer
        BY <2>2 DEF LinkType
    <2>5. flushed \in TransportType(n) /\ flushed.link = l
        BY <1>3, <2>2, <2>3, Fields DEF TransportType
    <2>6. answered = [flushed EXCEPT !.link = k]
        BY <2>5 DEF k, TransportType
    <2> HIDE DEF k, answered
    <2> QED BY <2>2, <2>4, <2>5, <2>6, Fields DEF TransportType
<1> HIDE DEF answered, flushed
<1>5. LinkMoves(p, d.link, ready.link)
    BY <1>2, <1>3 DEF LinkMoves, Answered
<1>6. ~ready.link.answer /\ p # Lower => LinkMoves(p, d.link, answered.link)
    <2> SUFFICES ASSUME ~ready.link.answer, p # Lower PROVE LinkMoves(p, d.link, answered.link)
        OBVIOUS
    <2>1. CASE made.link = d.link
        BY <1>3, <1>4, <2>1 DEF LinkMoves, Answered
    <2>2. CASE made.link.state = "new"
        BY <1>3, <1>4, <2>2 DEF LinkMoves, Answered
    <2> QED BY <1>2, <2>1, <2>2
<1>7. again.link = ready.link
    BY <1>3 DEF TransportType
<1>8. first.link = answered.link
    <2>1. made.link.pc \in Number(n)
        BY <1>2, Fields DEF LinkType
    <2> QED BY <1>1, <1>4, <2>1, SignalsTyped, PublishedTyped
<1>9. LinkMoves(p, d.link, d.link)
    BY <1>1, Fields, FreshMoves
<1> HIDE DEF again, first
<1>10. HandleOffer(p, d, m) = IF p = Lower THEN d ELSE IF ready.link.answer THEN again ELSE first
    BY DEF HandleOffer, LocalIsOfferer, kept, made, ready, flushed, answered, again, first
<1> QED BY <1>5, <1>6, <1>7, <1>8, <1>9, <1>10

\* An answer counts once; a candidate replaces nothing.
LEMMA AnswerMoves ==
    ASSUME nextPc \in Nat \ {0}, NEW p \in Placement, NEW d \in TransportType(nextPc),
           NEW m \in Signal(nextPc)
    PROVE  /\ LinkMoves(p, d.link, HandleAnswer(p, d, m).link)
           /\ LinkMoves(p, d.link, HandleIce(d, m).link)
<1>1. /\ d.link \in LinkType(nextPc) /\ m.pc \in Number(nextPc) /\ LinkMoves(p, d.link, d.link)
    BY Fields, FreshMoves DEF Signal
<1>2. LinkMoves(p, d.link, HandleAnswer(p, d, m).link)
    <2> DEFINE l == [d.link EXCEPT !.remote = m.pc, !.cands = @ \cup d.link.pending, !.pending = {}]
    <2>1. l.pc = d.link.pc /\ l.state = d.link.state /\ d.link.cands \subseteq l.cands
        BY <1>1 DEF LinkType
    <2> HIDE DEF l
    <2>2. FlushAfterRemoteDesc(d, m.pc) = [d EXCEPT !.link = l] /\ [d EXCEPT !.link = l].link = l
        BY DEF FlushAfterRemoteDesc, l, TransportType
    <2>3. p = Lower /\ d.link.remote = 0 => LinkMoves(p, d.link, l)
        BY <2>1 DEF LinkMoves, Answered
    <2> QED BY <1>1, <2>2, <2>3 DEF HandleAnswer, LocalIsOfferer
<1>3. LinkMoves(p, d.link, HandleIce(d, m).link)
    <2> DEFINE k == [d.link EXCEPT !.cands = @ \cup {m.pc}]
               l == [d.link EXCEPT !.pending = @ \cup {m.pc}]
    <2>1. LinkMoves(p, d.link, k) /\ LinkMoves(p, d.link, l)
        BY <1>1 DEF LinkMoves, Answered, LinkType
    <2>2. /\ [d EXCEPT !.link.cands = @ \cup {m.pc}].link = k
          /\ [d EXCEPT !.link.pending = @ \cup {m.pc}].link = l
          /\ BufferEarlyIce(d, m).link = d.link
        BY DEF BufferEarlyIce, TransportType
    <2> HIDE DEF k, l
    <2> QED BY <1>1, <2>1, <2>2 DEF HandleIce
<1> QED BY <1>2, <1>3

\* No handler of the driver makes an open link, or another one of an open link.
LEMMA DriverMoves ==
    ASSUME nextPc \in Nat \ {0}, NEW p \in Placement, NEW d \in TransportType(nextPc)
    PROVE  /\ LinkMoves(p, d.link, d.link) /\ LinkMoves(p, d.link, HandleDial(p, d).link)
           /\ LinkMoves(p, d.link, HandleReincarnated(p, d).link)
           /\ \A m \in Signal(nextPc) : LinkMoves(p, d.link, HandleSignal(p, d, m).link)
           /\ \A attempt : LinkMoves(p, d.link, HandleTerminal(p, d, attempt).link)
<1>1. LinkMoves(p, d.link, d.link) /\ LinkMoves(p, d.link, HandleDial(p, d).link)
    BY DialMoves, Fields, FreshMoves
<1>2. LinkMoves(p, d.link, HandleDial(p, RetireLink(d)).link)
    <2>1. RetireLink(d) \in TransportType(nextPc) /\ RetireLink(d).link.remote = 0
          /\ RetireLink(d).link.state = "none"
        BY RetireTyped DEF NoLink
    <2>2. LinkMoves(p, RetireLink(d).link, HandleDial(p, RetireLink(d)).link)
        BY <2>1, DialMoves
    <2> QED BY <2>1, <2>2 DEF LinkMoves, Answered
<1>3. ASSUME NEW m \in Signal(nextPc) PROVE LinkMoves(p, d.link, HandleSignal(p, d, m).link)
    <2>1. m.type \in {"offer", "answer", "ice"}
        BY DEF Signal
    <2> QED BY <2>1, OfferMoves, AnswerMoves DEF HandleSignal
<1> QED BY <1>1, <1>2, <1>3 DEF HandleReincarnated, HandleTerminal

\* Open links match, by what answerers keep.
MatchInv == OpenLinksMatch /\ \A p \in Placement : Answered(p, rtc[p].link)

\* A step that moves one link as a handler does keeps the match.
LEMMA MovesKeepMatch ==
    ASSUME MatchInv, NEW p \in Placement,
           LinkMoves(p, rtc[p].link, rtc'[p].link), rtc'[Other(p)].link = rtc[Other(p)].link
    PROVE  MatchInv'
<1> DEFINE q == Other(p)
           a == rtc[p].link
           b == rtc[q].link
           c == rtc'[p].link
<1>1. q \in Placement /\ Other(q) = p /\ \A r \in Placement : r = p \/ r = q
    BY Placements
<1>2. \A r \in Placement : Answered(r, rtc'[r].link)
    BY <1>1 DEF MatchInv, LinkMoves
<1>3. ASSUME \A r \in Placement : IsConnected(r)' PROVE \A r \in Placement : Matched(r)'
    <2>1. c.state = "open" /\ b.state = "open" /\ rtc'[q].link = b
        BY <1>1, <1>3 DEF IsConnected
    <2>2. a.state = "open" /\ c.pc = a.pc /\ (a.remote # 0 => c.remote = a.remote)
          /\ a.cands \subseteq c.cands
        BY <2>1 DEF LinkMoves, MatchInv
    <2>3. Matched(p) /\ Matched(q)
        BY <1>1, <2>1, <2>2 DEF MatchInv, OpenLinksMatch, IsConnected
    <2>4. /\ a.pc # 0 /\ b.pc # 0 /\ a.remote = b.pc /\ b.remote = a.pc
          /\ b.pc \in a.cands /\ a.pc \in b.cands
        BY <2>3 DEF Matched
    <2>5. /\ c.pc # 0 /\ b.pc # 0 /\ c.remote = b.pc /\ b.remote = c.pc
          /\ b.pc \in c.cands /\ c.pc \in b.cands /\ c.state # "failed" /\ b.state # "failed"
        BY <2>1, <2>2, <2>4
    <2> HIDE DEF a, b
    <2>6. Matched(p)' /\ Matched(q)'
        BY <1>1, <2>1, <2>5 DEF Matched
    <2> QED BY <1>1, <2>6
<1> QED BY <1>2, <1>3 DEF MatchInv, OpenLinksMatch

\* So does a step of the driver.
LEMMA PublishKeepsMatch ==
    ASSUME Shape, MatchInv, NEW p \in Placement, NEW d, LinkMoves(p, rtc[p].link, d.link),
           NEW n, d \in TransportType(n), NEW w, Publish(p, d, w)
    PROVE  MatchInv'
<1>1. rtc' = [rtc EXCEPT ![p] = IF socket[p] THEN [d EXCEPT !.out = <<>>] ELSE d]
    BY DEF Publish
<1>2. [d EXCEPT !.out = <<>>].link = d.link
    BY DEF TransportType
<1>3. rtc'[p].link = d.link /\ rtc'[Other(p)] = rtc[Other(p)]
    BY <1>1, <1>2, Placements DEF Shape
<1> QED BY <1>3, MovesKeepMatch

\* What moves no link keeps the match.
LEMMA LinksStay ==
    ASSUME Shape, MatchInv, \A q \in Placement : rtc'[q].link = rtc[q].link
    PROVE  MatchInv'
<1>1. PICK p \in Placement : TRUE
    BY DEF Placement
<1>2. LinkMoves(p, rtc[p].link, rtc[p].link)
    BY <1>1, Fields, FreshMoves DEF Shape
<1>3. rtc'[p].link = rtc[p].link /\ rtc'[Other(p)].link = rtc[Other(p)].link
    BY <1>1, Placements
<1> QED BY <1>1, <1>2, <1>3, MovesKeepMatch

\* Every step keeps open links matched.
LEMMA NextMatch == RendezvousInv /\ MatchInv /\ [Next]_vars => MatchInv'
<1> SUFFICES ASSUME RendezvousInv, MatchInv, [Next]_vars PROVE MatchInv'
    OBVIOUS
<1>t. Shape /\ nextPc \in Nat \ {0} /\ rtc \in [Placement -> TransportType(nextPc)]
    BY DEF RendezvousInv, Shape
<1>1. CASE UNCHANGED rtc
    BY <1>t, <1>1, LinksStay
<1>2. ASSUME NEW p \in Placement, Connect(p) PROVE MatchInv'
    <2>1. rtc' = [rtc EXCEPT ![p].out = <<>>]
        BY <1>2 DEF Connect
    <2>2. \A q \in Placement : rtc'[q].link = rtc[q].link
        BY <1>t, <2>1 DEF TransportType
    <2> QED BY <1>t, <2>2, LinksStay
<1>3. ASSUME NEW p \in Placement, Restart(p) PROVE MatchInv'
    <2>1. rtc' = [rtc EXCEPT ![p] = FreshTransport]
        BY <1>3 DEF Restart
    <2>2. rtc'[p].link = NoLink /\ rtc'[Other(p)] = rtc[Other(p)]
        BY <1>t, <2>1, Placements DEF FreshTransport
    <2>3. LinkMoves(p, rtc[p].link, NoLink)
        BY DEF LinkMoves, Answered, NoLink
    <2> QED BY <2>2, <2>3, MovesKeepMatch
<1>4. ASSUME NEW p \in Placement, NEW d, NEW w, Publish(p, d, w), Made(d),
             LinkMoves(p, rtc[p].link, d.link)
      PROVE  MatchInv'
    BY <1>t, <1>4, PublishKeepsMatch DEF Made
<1>5. ASSUME NEW p \in Placement, NEW i \in Incarnation, RecvHello(p, i) PROVE MatchInv'
    <2>1. CASE \E d \in {rtc[p], HandleDial(p, rtc[p])} : \E w : Publish(p, d, w)
        BY <1>t, <1>4, <2>1, DriverMade, DriverMoves
    <2> QED BY <1>1, <1>5, <2>1 DEF RecvHello, RefreshPeer, DiscoverPeer
<1>6. ASSUME NEW p \in Placement, NEW i \in Incarnation, RecvSignal(p, i) PROVE MatchInv'
    <2> DEFINE m == Head(wire[p][i])
               rest == [wire EXCEPT ![p][i] = Tail(@)]
    <2>1. wire[p][i] # <<>> /\ m.type # "hello" /\ Publish(p, HandleSignal(p, rtc[p], m), rest)
        BY <1>6 DEF RecvSignal
    <2>2. m \in Message(nextPc)
        BY <2>1, NextMessage
    <2> HIDE DEF m, rest
    <2>3. m \in Signal(nextPc)
        BY <2>1, <2>2 DEF Message
    <2> QED BY <1>t, <1>4, <2>1, <2>3, DriverMade, DriverMoves
<1>7. ASSUME NEW p \in Placement, NEW attempt, Terminal(p, attempt) PROVE MatchInv'
    BY <1>t, <1>4, <1>7, DriverMade, DriverMoves DEF Terminal
<1>8. ASSUME NEW p \in Placement, NEW c, Reincarnate(p, c) PROVE MatchInv'
    BY <1>t, <1>4, <1>8, DriverMade, DriverMoves DEF Reincarnate
<1>9. ASSUME NEW p \in Placement, FailLink(p) PROVE MatchInv'
    <2>1. rtc' = [rtc EXCEPT ![p].link.state = "failed"]
        BY <1>9 DEF FailLink
    <2>2. /\ rtc[p].link \in LinkType(nextPc) /\ rtc[p] \in TransportType(nextPc)
          /\ rtc'[p] = [rtc[p] EXCEPT !.link.state = "failed"] /\ rtc'[Other(p)] = rtc[Other(p)]
        BY <1>t, <2>1, Fields, Placements
    <2>3. rtc'[p].link = [rtc[p].link EXCEPT !.state = "failed"]
        BY <2>2 DEF TransportType
    <2>4. LinkMoves(p, rtc[p].link, rtc'[p].link)
        BY <2>2, <2>3 DEF LinkMoves, Answered, LinkType
    <2> QED BY <2>2, <2>4, MovesKeepMatch
<1>10. ASSUME NEW p \in Placement, Open(p) PROVE MatchInv'
    <2> DEFINE q == Other(p)
    <2>1. Matched(p) /\ rtc' = [rtc EXCEPT ![p].link.state = "open"]
        BY <1>10 DEF Open, OpenLink
    <2>2. /\ rtc[p].link \in LinkType(nextPc) /\ rtc[p] \in TransportType(nextPc)
          /\ rtc'[p] = [rtc[p] EXCEPT !.link.state = "open"] /\ rtc'[q] = rtc[q]
          /\ q \in Placement /\ Other(q) = p /\ \A r \in Placement : r = p \/ r = q
        BY <1>t, <2>1, Fields, Placements
    <2> HIDE DEF q
    <2>3. rtc'[p].link = [rtc[p].link EXCEPT !.state = "open"]
        BY <2>2 DEF TransportType
    <2>4. /\ rtc'[p].link.pc = rtc[p].link.pc /\ rtc'[p].link.remote = rtc[p].link.remote
          /\ rtc'[p].link.cands = rtc[p].link.cands /\ rtc'[p].link.answer = rtc[p].link.answer
          /\ rtc'[p].link.state = "open"
        BY <2>2, <2>3 DEF LinkType
    <2>5. Matched(p)' /\ Matched(q)'
        BY <2>1, <2>2, <2>4 DEF Matched, q
    <2>6. \A r \in Placement : Answered(r, rtc'[r].link)
        <3>1. Answered(p, rtc[p].link) /\ Answered(q, rtc[q].link)
            BY <2>2 DEF MatchInv
        <3>2. Answered(p, rtc'[p].link)
            BY <2>4, <3>1 DEF Answered
        <3>3. Answered(q, rtc'[q].link)
            BY <2>2, <3>1
        <3> QED BY <2>2, <3>2, <3>3
    <2> QED BY <2>2, <2>5, <2>6 DEF MatchInv, OpenLinksMatch
<1>11. CASE UNCHANGED vars
    BY <1>1, <1>11 DEF vars
<1>12. CASE Next
    <2>1. PICK p \in Placement :
              \/ Connect(p) \/ ReHello(p) \/ Drop(p) \/ Restart(p)
              \/ \E i \in Incarnation : RecvHello(p, i) \/ RecvSignal(p, i)
              \/ \E attempt \in failed[p] : Terminal(p, attempt)
              \/ \E c \in child[p] : Reincarnate(p, c) \/ JoinGossip(p, c)
              \/ Open(p) \/ GiveUp(p) \/ Break(p)
        BY <1>12 DEF Next
    <2>2. CASE ReHello(p) \/ Drop(p) \/ \E c \in child[p] : JoinGossip(p, c)
        BY <1>1, <2>2 DEF ReHello, Drop, JoinGossip
    <2>3. CASE GiveUp(p) \/ Break(p)
        BY <1>9, <2>3 DEF GiveUp, Break
    <2> QED BY <1>2, <1>3, <1>5, <1>6, <1>7, <1>8, <1>10, <2>1, <2>2, <2>3
<1> QED BY <1>11, <1>12

(***************************************************************************)
(* The results.                                                            *)
(***************************************************************************)

\* The inductive invariant of two browsers that find each other holds in every
\* behaviour, for any number of drops, reopenings, breaks and late messages.
THEOREM RendezvousInvariant == Spec => []RendezvousInv
BY InitRendezvous, NextRendezvous, PTL DEF Spec

\* Links, tasks and memory keep their shape, and no link of the driver is of an
\* attempt that was not begun (handle_dial, handle_offer, RtcIncarnationTracker).
THEOREM RendezvousTypeCorrect == Spec => []TypeOK
<1>1. RendezvousInv => TypeOK
    <2> SUFFICES ASSUME RendezvousInv PROVE TypeOK
        OBVIOUS
    <2>1. ASSUME NEW p \in Placement
          PROVE  /\ rtc[p].link.state \in {"none", "new", "open", "failed"}
                 /\ rtc[p].link.attempt < nextPc /\ rtc[p].link.pc < nextPc
        <3>1. rtc[p].link \in LinkType(nextPc) /\ nextPc \in Nat
            BY Fields DEF RendezvousInv, Shape
        <3> QED BY <3>1 DEF LinkType, LinkState, Number
    <2> QED BY <2>1 DEF RendezvousInv, Shape, TypeOK, ChildType
<1> QED BY <1>1, RendezvousInvariant, PTL

\* RtcIncarnationTracker and joined agree in every state: a first Hello is never
\* taken for a reincarnation, no incarnation is remembered that the peer has not
\* had, and a task is at work only for a peer that is joined.
THEOREM TrackerFollowsJoined == Spec => []TrackerFollows
BY RendezvousInvariant, PTL DEF RendezvousInv

\* A link that is open at both ends is one connection (handle_offer, handle_answer,
\* retire_link), for any number of reopenings and breaks and however many offers,
\* answers and candidates of other attempts arrive in between.
THEOREM OpenEndsAreOneLink == Spec => []OpenLinksMatch
<1>1. Init => MatchInv
    BY DEF Init, FreshTransport, NoLink, MatchInv, OpenLinksMatch, IsConnected, Answered, Placement
<1>2. MatchInv => OpenLinksMatch
    BY DEF MatchInv
<1> QED BY <1>1, <1>2, RendezvousInvariant, NextMatch, PTL DEF Spec

=============================================================================
