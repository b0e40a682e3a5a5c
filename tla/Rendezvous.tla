---------------------------- MODULE Rendezvous ----------------------------
(***************************************************************************)
(* How two browsers find each other over the signalling server             *)
(* (src/net/rendezvous.rs) and bring up a direct link                      *)
(* (WebRtcTransport).  The server fans a message out to whoever is         *)
(* subscribed: a placement without a socket misses it.  Messages of one    *)
(* socket stay in order; those of a placement that was reopened in between *)
(* may still be on their way.                                              *)
(*                                                                         *)
(* Every Hello is one of a browser (rtc).  The address lookup, which holds  *)
(* the relay as fallback, is left out.                                     *)
(***************************************************************************)
EXTENDS WebRtcTransport

CONSTANTS
    Remembered,  \* RTC_INCARNATIONS_REMEMBERED_PER_PEER
    MaxFaults,   \* bound: sockets that drop, placements that are reopened and
                 \* connections that break in a behaviour
    MaxLate      \* bound: messages of a closed placement that still arrive

ASSUME RendezvousAssumption ==
    /\ Remembered \in Nat \ {0}
    /\ MaxFaults \in Nat
    /\ MaxLate \in Nat

Incarnation == 1 .. MaxFaults + 1

VARIABLES
    inc,     \* inc[p]: the incarnation of p's transport
    socket,  \* socket[p]: p is subscribed
    known,   \* known[p]: the peer is in joined
    seen,    \* seen[p]: the peer's incarnations p remembers
    child,   \* child[p]: the tasks of p's signalling session
    gossip,  \* gossip[p]: join_peers was called for the peer
    wire,    \* wire[p][i]: messages to p from the peer's incarnation i
    used     \* faults so far

rvars == <<inc, socket, known, seen, child, gossip, wire, used>>

vars == <<rtc, failed, nextPc, inc, socket, known, seen, child, gossip, wire, used>>

Hello(i) == [type |-> "hello", inc |-> i]

NoTraffic == [i \in Incarnation |-> <<>>]

\* The task that joins a peer seen for the first time, and the one that rejoins
\* a peer whose incarnation i is new.
FirstChild == [inc |-> 0, stage |-> "wait", fence |-> 0]

AgainChild(i) == [inc |-> i, stage |-> "ask", fence |-> 0]

Init ==
    /\ rtc = [p \in Placement |-> FreshTransport]
    /\ failed = [p \in Placement |-> {}]
    /\ nextPc = 1
    /\ inc = [p \in Placement |-> 1]
    /\ socket = [p \in Placement |-> FALSE]
    /\ known = [p \in Placement |-> FALSE]
    /\ seen = [p \in Placement |-> <<>>]
    /\ child = [p \in Placement |-> {}]
    /\ gossip = [p \in Placement |-> FALSE]
    /\ wire = [p \in Placement |-> NoTraffic]
    /\ used = 0

\* The server fans messages out.
Fanout(w, p, ms) ==
    IF socket[Other(p)] THEN [w EXCEPT ![Other(p)][inc[p]] = @ \o ms] ELSE w

\* Mutant: attempts are not told apart.
MutPublish(p, d, w) ==
    /\ rtc' = [rtc EXCEPT ![p] = IF socket[p] THEN [d EXCEPT !.out = <<>>] ELSE d]
    /\ wire' = IF socket[p] THEN Fanout(w, p, d.out) ELSE w
    /\ UNCHANGED nextPc

\* The session publishes what the driver has to say; without a socket it waits.
Publish(p, d, w) ==
    /\ rtc' = [rtc EXCEPT ![p] = IF socket[p] THEN [d EXCEPT !.out = <<>>] ELSE d]
    /\ wire' = IF socket[p] THEN Fanout(w, p, d.out) ELSE w
    /\ nextPc' = IF d.link.pc = nextPc THEN nextPc + 1 ELSE nextPc

\* A handshake message of the attempt is under way.
Handshaking(attempt) ==
    \E p \in Placement :
        \/ \E m \in ToSet(rtc[p].out) : m.attempt = attempt
        \/ \E i \in Incarnation : \E m \in ToSet(wire[p][i]) :
              m.type # "hello" /\ m.attempt = attempt

\* A connection whose other end is gone, or which misses a candidate that will
\* not come: the browser gives it up.
Doomed(p) ==
    /\ rtc[p].link.remote # 0
    /\ ~ Matched(p)
    /\ ~ Handshaking(rtc[p].link.attempt)

-----------------------------------------------------------------------------
\* rendezvous_main connects; run_rendezvous subscribes, says hello and goes on
\* with the signals that waited.
Connect(p) ==
    /\ ~ socket[p]
    /\ socket' = [socket EXCEPT ![p] = TRUE]
    /\ wire' = Fanout(wire, p, <<Hello(inc[p])>> \o rtc[p].out)
    /\ rtc' = [rtc EXCEPT ![p].out = <<>>]
    /\ UNCHANGED <<failed, nextPc, inc, known, seen, child, gossip, used>>

\* The timer of the session.  Hellos are half a minute apart, so the last one
\* and the handshake it may have set off have arrived, and the browser has given
\* up what cannot connect.
ReHello(p) ==
    /\ socket[p]
    /\ socket[Other(p)]
    /\ Hello(inc[p]) \notin ToSet(wire[Other(p)][inc[p]])
    /\ \A q \in Placement : ~ Handshaking(rtc[q].link.attempt) /\ ~ Doomed(q) /\ failed[q] = {}
    /\ wire' = Fanout(wire, p, <<Hello(inc[p])>>)
    /\ UNCHANGED <<rtc, failed, nextPc, inc, socket, known, seen, child, gossip, used>>

\* Mutant: what is remembered of the peer goes with the session.
MutDrop(p) ==
    /\ socket[p]
    /\ used < MaxFaults
    /\ used' = used + 1
    /\ socket' = [socket EXCEPT ![p] = FALSE]
    /\ wire' = [wire EXCEPT ![p] = NoTraffic]
    /\ child' = [child EXCEPT ![p] = {}]
    /\ seen' = [seen EXCEPT ![p] = <<>>]
    /\ UNCHANGED <<rtc, failed, nextPc, inc, known, gossip>>

\* The socket closes: what was on its way is lost and the session's tasks are
\* aborted.  The driver, its signals, joined and the tracker live on.
Drop(p) ==
    /\ socket[p]
    /\ used < MaxFaults
    /\ used' = used + 1
    /\ socket' = [socket EXCEPT ![p] = FALSE]
    /\ wire' = [wire EXCEPT ![p] = NoTraffic]
    /\ child' = [child EXCEPT ![p] = {}]
    /\ UNCHANGED <<rtc, failed, nextPc, inc, known, seen, gossip>>

\* The room generation is reopened: same endpoint id, fresh transport.  What the
\* old one sent last is lost with its socket, what it sent before still arrives.
Restart(p) ==
    /\ used < MaxFaults
    /\ used' = used + 1
    /\ inc' = [inc EXCEPT ![p] = @ + 1]
    /\ rtc' = [rtc EXCEPT ![p] = FreshTransport]
    /\ failed' = [failed EXCEPT ![p] = {}]
    /\ socket' = [socket EXCEPT ![p] = FALSE]
    /\ known' = [known EXCEPT ![p] = FALSE]
    /\ seen' = [seen EXCEPT ![p] = <<>>]
    /\ child' = [child EXCEPT ![p] = {}]
    /\ gossip' = [gossip EXCEPT ![p] = FALSE]
    /\ \E n \in 0 .. MaxLate :
          wire' = [wire EXCEPT ![p] = NoTraffic,
                               ![Other(p)][inc[p]] = SubSeq(@, 1, IF n < Len(@) THEN n ELSE Len(@))]
    /\ UNCHANGED nextPc

-----------------------------------------------------------------------------
\* RtcIncarnationTracker::observe.
Observe(s, i) ==
    IF i \in ToSet(s) THEN s
    ELSE IF Len(s) = Remembered THEN Append(Tail(s), i) ELSE Append(s, i)

Reincarnated(s, i) == s # <<>> /\ i \notin ToSet(s)

\* Mutant: a known peer is never dialled again.
MutRefreshPeer(p, i, rest) ==
    /\ wire' = rest
    /\ IF Reincarnated(seen[p], i)
       THEN child' = [child EXCEPT ![p] = @ \cup {AgainChild(i)}]
       ELSE UNCHANGED child
    /\ UNCHANGED <<rtc, nextPc, known>>

\* A Hello of a peer that is joined already: a new incarnation
\* gets its task, an old one without a link another dial.
RefreshPeer(p, i, rest) ==
    /\ IF Reincarnated(seen[p], i)
       THEN /\ child' = [child EXCEPT ![p] = @ \cup {AgainChild(i)}]
            /\ wire' = rest
            /\ UNCHANGED <<rtc, nextPc>>
       ELSE /\ Publish(p, IF IsConnected(p) THEN rtc[p] ELSE HandleDial(p, rtc[p]), rest)
            /\ UNCHANGED child
    /\ UNCHANGED known

\* The first Hello of a peer: the link is dialled, a task joins gossip once the
\* link is up or its time is over, and a Hello goes back.
DiscoverPeer(p, rest) ==
    /\ known' = [known EXCEPT ![p] = TRUE]
    /\ child' = [child EXCEPT ![p] = @ \cup {FirstChild}]
    /\ Publish(p, HandleDial(p, rtc[p]), Fanout(rest, p, <<Hello(inc[p])>>))

RecvHello(p, i) ==
    LET rest == [wire EXCEPT ![p][i] = Tail(@)]
    IN /\ wire[p][i] # <<>>
       /\ Head(wire[p][i]).type = "hello"
       /\ seen' = [seen EXCEPT ![p] = Observe(@, i)]
       /\ IF known[p] THEN RefreshPeer(p, i, rest) ELSE DiscoverPeer(p, rest)
       /\ UNCHANGED <<failed, inc, socket, gossip, used>>

\* route_rtc_envelope, and the driver's handling of the signal.
RecvSignal(p, i) ==
    /\ wire[p][i] # <<>>
    /\ Head(wire[p][i]).type # "hello"
    /\ Publish(p, HandleSignal(p, rtc[p], Head(wire[p][i])), [wire EXCEPT ![p][i] = Tail(@)])
    /\ UNCHANGED <<failed, inc, socket, known, seen, child, gossip, used>>

-----------------------------------------------------------------------------
\* The driver hears of a failed connection.
Terminal(p, attempt) ==
    /\ attempt \in failed[p]
    /\ failed' = [failed EXCEPT ![p] = @ \ {attempt}]
    /\ Publish(p, HandleTerminal(p, rtc[p], attempt), wire)
    /\ UNCHANGED <<inc, socket, known, seen, child, gossip, used>>

\* A rejoining task runs for the first time and sends its command; it goes on
\* with the fence, the attempt that was retired.
Reincarnate(p, c) ==
    /\ c \in child[p]
    /\ c.stage = "ask"
    /\ child' = [child EXCEPT ![p] = (@ \ {c}) \cup
                    {[c EXCEPT !.stage = "wait", !.fence = rtc[p].link.attempt]}]
    /\ Publish(p, HandleReincarnated(p, rtc[p]), wire)
    /\ UNCHANGED <<failed, inc, socket, known, seen, gossip, used>>

\* wait_connected and wait_fresh_connected: a link that is open, and not the one
\* that was retired.
Direct(p, c) == IsConnected(p) /\ (c.inc = 0 \/ rtc[p].link.attempt # c.fence)

\* The task has its link, or its time is over: it joins gossip.
JoinGossip(p, c) ==
    /\ c \in child[p]
    /\ c.stage = "wait"
    /\ gossip' = [gossip EXCEPT ![p] = TRUE]
    /\ child' = [child EXCEPT ![p] = @ \ {c}]
    /\ UNCHANGED <<rtc, failed, nextPc, inc, socket, known, seen, wire, used>>

-----------------------------------------------------------------------------
Open(p) == OpenLink(p) /\ UNCHANGED rvars

GiveUp(p) == Doomed(p) /\ FailLink(p) /\ UNCHANGED rvars

Break(p) ==
    /\ used < MaxFaults
    /\ Matched(p)
    /\ FailLink(p)
    /\ used' = used + 1
    /\ UNCHANGED <<inc, socket, known, seen, child, gossip, wire>>

Next ==
    \E p \in Placement :
        \/ Connect(p) \/ ReHello(p) \/ Drop(p) \/ Restart(p)
        \/ \E i \in Incarnation : RecvHello(p, i) \/ RecvSignal(p, i)
        \/ \E attempt \in failed[p] : Terminal(p, attempt)
        \/ \E c \in child[p] : Reincarnate(p, c) \/ JoinGossip(p, c)
        \/ Open(p) \/ GiveUp(p) \/ Break(p)

Spec == Init /\ [][Next]_vars

\* The loops run, timers fire and the browser reports; drops, restarts and
\* breaks are never owed.
FairSpec ==
    /\ Spec
    /\ \A p \in Placement :
        /\ WF_vars(Connect(p) \/ ReHello(p))
        /\ \A i \in Incarnation : WF_vars(RecvHello(p, i) \/ RecvSignal(p, i))
        /\ WF_vars(\E attempt \in failed[p] : Terminal(p, attempt))
        /\ WF_vars(Open(p) \/ GiveUp(p))
        /\ WF_vars(\E c \in child[p] : Reincarnate(p, c) \/ JoinGossip(p, c))

-----------------------------------------------------------------------------
Stage == {"ask", "wait"}

\* Links and tasks have the shape of the code's, no link is of an attempt that
\* was not begun, and the memory of incarnations keeps to its bound.
TypeOK ==
    /\ nextPc \in Nat \ {0}
    /\ inc \in [Placement -> Incarnation]
    /\ \A p \in Placement :
        /\ rtc[p].link.state \in {"none", "new", "open", "failed"}
        /\ rtc[p].link.attempt < nextPc /\ rtc[p].link.pc < nextPc
        /\ Len(seen[p]) <= Remembered
        /\ \A c \in child[p] : c.stage \in Stage /\ c.inc \in Incarnation \cup {0}

\* The tracker of incarnations and joined follow each other: whoever is joined
\* was observed, so that a first Hello never counts as a reincarnation; no
\* incarnation is remembered twice, none that the peer has not had, and only a
\* joined peer has tasks.
TrackerFollows ==
    \A p \in Placement :
        /\ known[p] <=> seen[p] # <<>>
        /\ IsInjective(seen[p])
        /\ \A i \in ToSet(seen[p]) : i <= inc[Other(p)]
        /\ child[p] # {} => known[p]

\* What is open at both ends is one connection: whatever offers, answers and
\* candidates of other attempts arrive late, no placement takes its peer's open
\* link for the other end of its own when it is not.
OpenLinksMatch ==
    (\A p \in Placement : IsConnected(p)) => \A p \in Placement : Matched(p)

\* Both placements have an open link to each other.
Linked == \A p \in Placement : IsConnected(p) /\ Matched(p)

\* Whatever sockets drop, placements reopen and links break, once that ends the
\* two have a direct link and keep it: no lost Offer, Answer or candidate, no
\* late message of an earlier attempt and no late task takes it away for good.
LinkSettles == <>[]Linked

\* A discovered peer is joined: "joins gossip as soon as direct is ready, or
\* after a bounded relay-fallback timeout".
DiscoveredIsJoined == \A p \in Placement : known[p] ~> gossip[p]
=============================================================================
