-------------------------- MODULE WebRtcTransport --------------------------
(***************************************************************************)
(* The WebRTC carrier of two browsers (src/net/webrtc_transport.rs).  One  *)
(* driver task per placement handles its commands one after the other and  *)
(* is the only one to create and retire links, so a command is one step    *)
(* although it awaits the browser.  The queue of commands only adds to the *)
(* delay a message has had on the wire: a dial or a signal is handled when *)
(* it arrives, and the report of a failed connection, which is not on the  *)
(* wire, some time later.  The endpoint with the lower id offers.          *)
(*                                                                         *)
(* A peer connection is a number; the offerer's number is the attempt.     *)
(* Descriptions and candidates carry the attempt and the number of the     *)
(* connection they describe, and each connection has one candidate.        *)
(* Packets on an open link are left out, and so are the capacity of 64     *)
(* peers, which two placements never reach, and errors of the browser's    *)
(* API.  Without those the offerer has a link as soon as it knows the      *)
(* peer, and the answerer's dial does nothing: poll_send's lazy dial never *)
(* acts.                                                                   *)
(***************************************************************************)
EXTENDS Naturals, Sequences, SequencesExt

CONSTANTS
    Lower, Higher  \* the two placements, by endpoint id

ASSUME PlacementAssumption == Lower # Higher

Placement == {Lower, Higher}

Other(p) == IF p = Lower THEN Higher ELSE Lower

VARIABLES
    rtc,     \* rtc[p]: Shared, and the signals the driver wants published
    failed,  \* failed[p]: attempts whose failure the driver has yet to hear of
    nextPc   \* the next peer connection

NoLink == [attempt |-> 0, pc |-> 0, offer |-> FALSE, answer |-> FALSE, remote |-> 0,
           cands |-> {}, pending |-> {}, state |-> "none"]

NoEarly == [attempt |-> 0, cands |-> {}]

FreshTransport == [link |-> NoLink, early |-> NoEarly, out |-> <<>>]

Offer(attempt) == [type |-> "offer", attempt |-> attempt, pc |-> attempt]

Answer(attempt, pc) == [type |-> "answer", attempt |-> attempt, pc |-> pc]

Ice(attempt, pc) == [type |-> "ice", attempt |-> attempt, pc |-> pc]

LocalIsOfferer(p) == p = Lower

HasLink(d) == d.link.attempt # 0

IsConnected(p) == rtc[p].link.state = "open"

-----------------------------------------------------------------------------
\* retire_link: the current link goes, its callbacks are detached.
RetireLink(d) == [d EXCEPT !.link = NoLink]

\* ensure_link of an attempt that has no link yet.
EnsureLink(d, attempt, pc) ==
    [d EXCEPT !.link = [NoLink EXCEPT !.attempt = attempt, !.pc = pc, !.state = "new"]]

\* The description is published, then the candidate that is gathered for it.
Published(d, description) ==
    [d EXCEPT !.out = @ \o <<description, Ice(description.attempt, description.pc)>>]

\* handle_dial: the offerer repeats the cached offer of a link that is not open,
\* or begins a fresh attempt.  The answerer does nothing.
HandleDial(p, d) ==
    IF ~ LocalIsOfferer(p) THEN d
    ELSE IF HasLink(d)
         THEN IF d.link.state # "open" /\ d.link.offer
              THEN [d EXCEPT !.out = Append(@, Offer(d.link.attempt))]
              ELSE d
         ELSE LET made == EnsureLink(d, nextPc, nextPc)
              IN Published([made EXCEPT !.link.offer = TRUE], Offer(nextPc))

\* adopt_early_ice: candidates that came before their offer.
AdoptEarlyIce(d, attempt) ==
    [d EXCEPT !.early = NoEarly,
              !.link.pending = @ \cup IF d.early.attempt = attempt THEN d.early.cands ELSE {}]

\* set_remote_description, then flush_after_remote_desc.
FlushAfterRemoteDesc(d, remote) ==
    [d EXCEPT !.link.remote = remote,
              !.link.cands = @ \cup d.link.pending,
              !.link.pending = {}]

\* An offer of another attempt replaces the link; an exact duplicate is answered
\* from the cache.
HandleOffer(p, d, m) ==
    IF LocalIsOfferer(p) THEN d
    ELSE LET kept == IF HasLink(d) /\ d.link.attempt # m.attempt THEN RetireLink(d) ELSE d
             made == IF HasLink(kept) THEN kept ELSE EnsureLink(kept, m.attempt, nextPc)
             ready == AdoptEarlyIce(made, m.attempt)
             answered == [FlushAfterRemoteDesc(ready, m.pc) EXCEPT !.link.answer = TRUE]
         IN IF ready.link.answer
            THEN [ready EXCEPT !.out = Append(@, Answer(m.attempt, ready.link.pc))]
            ELSE Published(answered, Answer(m.attempt, made.link.pc))

\* An answer counts once, for the current attempt, while it is awaited.
HandleAnswer(p, d, m) ==
    IF LocalIsOfferer(p) /\ d.link.attempt = m.attempt /\ d.link.remote = 0
    THEN FlushAfterRemoteDesc(d, m.pc)
    ELSE d

\* buffer_early_ice keeps the candidates of one attempt.
BufferEarlyIce(d, m) ==
    [d EXCEPT !.early = [attempt |-> m.attempt,
                         cands |-> {m.pc} \cup IF d.early.attempt = m.attempt
                                               THEN d.early.cands ELSE {}]]

\* A candidate is added, kept until the remote description, or kept until the
\* offer; it never makes or replaces a link.
HandleIce(d, m) ==
    IF d.link.attempt # m.attempt THEN BufferEarlyIce(d, m)
    ELSE IF d.link.remote # 0 THEN [d EXCEPT !.link.cands = @ \cup {m.pc}]
    ELSE [d EXCEPT !.link.pending = @ \cup {m.pc}]

HandleSignal(p, d, m) ==
    CASE m.type = "offer"  -> HandleOffer(p, d, m)
      [] m.type = "answer" -> HandleAnswer(p, d, m)
      [] m.type = "ice"    -> HandleIce(d, m)

\* PeerReincarnated: the old carrier is retired whatever its state.
HandleReincarnated(p, d) == HandleDial(p, IF HasLink(d) THEN RetireLink(d) ELSE d)

\* LinkTerminal counts for the current attempt only.
HandleTerminal(p, d, attempt) ==
    IF d.link.attempt = attempt THEN HandleDial(p, RetireLink(d)) ELSE d

-----------------------------------------------------------------------------
\* The browser (external).  Two connections match when each has the other's
\* description and candidate.
Matched(p) ==
    LET mine == rtc[p].link
        theirs == rtc[Other(p)].link
    IN /\ mine.pc # 0 /\ theirs.pc # 0
       /\ mine.remote = theirs.pc /\ theirs.remote = mine.pc
       /\ theirs.pc \in mine.cands /\ mine.pc \in theirs.cands
       /\ mine.state # "failed" /\ theirs.state # "failed"

\* wire_channel's onopen: the data channel opens.
OpenLink(p) ==
    /\ Matched(p)
    /\ rtc[p].link.state = "new"
    /\ rtc' = [rtc EXCEPT ![p].link.state = "open"]
    /\ UNCHANGED <<failed, nextPc>>

\* onconnectionstatechange: the connection has failed.
FailLink(p) ==
    /\ rtc[p].link.state \in {"new", "open"}
    /\ rtc' = [rtc EXCEPT ![p].link.state = "failed"]
    /\ failed' = [failed EXCEPT ![p] = @ \cup {rtc[p].link.attempt}]
    /\ UNCHANGED nextPc
=============================================================================
