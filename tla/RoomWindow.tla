----------------------------- MODULE RoomWindow -----------------------------
(***************************************************************************)
(* A host (the page's own in the browser, src/web/replica_host.rs, or the  *)
(* Tauri process on the desktop, src-tauri/src/lib.rs) keeps the snapshot  *)
(* of the room and tells the window of changes only: apply_room_view       *)
(* compares a new view with the snapshot, apply_presence and update_peer   *)
(* change one row, and each difference is one event.  The window           *)
(* (src/web/app.rs) rebuilds the snapshot from the events.  So the two     *)
(* agree only if the host never changes its snapshot without an event, and *)
(* the window reads every event the way the host meant it.                 *)
(*                                                                         *)
(* The channel delivers in order and once, so that the window's sequence   *)
(* check never drops an event; the browser's host calls the window at      *)
(* once, which is the case of a channel emptied after every step.          *)
(* Pitches, names and round trip times are left out; a voice stands for    *)
(* the pitch it carries.                                                   *)
(***************************************************************************)
EXTENDS Integers, Sequences, FiniteSets

CONSTANTS
    RoomName, NoName,
    Piece,          \* emoji pieces
    Spot,           \* where a piece may be
    Peer,           \* the other devices
    Self,           \* this device's own voice
    MaxSession,     \* voice sessions of one singer
    MaxFrame,       \* last presence sequence number of a session
    MaxChanges      \* bound on the steps of the host

ASSUME WindowAssumption ==
    /\ NoName \notin RoomName /\ Self \notin Peer
    /\ IsFiniteSet(Piece) /\ IsFiniteSet(Peer)
    /\ MaxSession \in Nat /\ MaxFrame \in Nat /\ MaxChanges \in Nat

VARIABLES
    platform,       \* "browser" or "desktop"
    snapshot,       \* the host's AppSnapshot
    loop,           \* the room task's own: its peers and its presence counters
    channel,        \* events sent and not yet applied by the window
    window,         \* the window's AppSnapshot
    forgotten,      \* rows the host has dropped without an event
    changes

windowVars == <<platform, snapshot, loop, channel, window, forgotten, changes>>

\* A relayed path is shown like a direct one.
Path == {"connecting", "direct", "disconnected"}

Gone == "gone"

VoiceFrame == [session : 1..MaxSession, sequence : 0..MaxFrame]

Voice == {[author |-> a, session |-> f.session, sequence |-> f.sequence] :
              a \in Peer \cup {Self}, f \in VoiceFrame}

Empty ==
    [room |-> NoName, pieces |-> [p \in Piece |-> Gone], locked |-> FALSE, voices |-> <<>>,
     peers |-> [q \in Peer |-> Gone]]

FreshLoop == [peers |-> [q \in Peer |-> Gone], session |-> 0, sequence |-> 0]

WindowInit ==
    /\ platform \in {"browser", "desktop"}
    /\ snapshot = Empty /\ loop = FreshLoop /\ window = Empty
    /\ channel = <<>> /\ forgotten = {} /\ changes = 0

Changes == changes < MaxChanges /\ changes' = changes + 1 /\ UNCHANGED <<platform, window>>

\* emit and emit_locked: every subscriber gets the event, after the change.
Emit(events) == channel' = channel \o events

-----------------------------------------------------------------------------
(* A new view of the room.                                                 *)

PieceEvent(p, spot) == [type |-> "piece", piece |-> p, spot |-> spot]

\* A piece that is gone is not announced (for the mutation check).
MutPieceEvents(view) ==
    {PieceEvent(p, view[p]) : p \in {x \in Piece : view[x] # snapshot.pieces[x] /\ view[x] # Gone}}

\* One event for each piece that is gone, new or elsewhere.
PieceEvents(view) ==
    {PieceEvent(p, view[p]) : p \in {x \in Piece : view[x] # snapshot.pieces[x]}}

\* The pieces that differ, then the configuration if it differs.
ViewEvents(view, locked) ==
    LET pieces == PieceEvents(view)
        order == CHOOSE s \in [1..Cardinality(pieces) -> pieces] :
                     {s[i] : i \in 1..Cardinality(pieces)} = pieces
    IN  order \o IF locked = snapshot.locked THEN <<>> ELSE <<[type |-> "config", locked |-> locked]>>

ApplyRoomView(view, locked) ==
    /\ snapshot' = [snapshot EXCEPT !.pieces = view, !.locked = locked]
    /\ Emit(ViewEvents(view, locked))
    /\ forgotten' = IF locked = snapshot.locked THEN forgotten ELSE forgotten \ {"locked"}

\* The room's history changes, here or by a peer.
Browse(view, locked) ==
    /\ platform = "browser" /\ snapshot.room # NoName
    /\ Changes
    /\ ApplyRoomView(view, locked)
    /\ UNCHANGED loop

DesktopView(view, locked) ==
    /\ platform = "desktop" /\ snapshot.room # NoName
    /\ Changes
    /\ ApplyRoomView(view, locked)
    /\ UNCHANGED loop

-----------------------------------------------------------------------------
(* Voices: a row for each session of a singer, in order of arrival.        *)

Rows(voices, author) == {i \in DOMAIN voices : voices[i].author = author}

\* A row is overwritten where it is, and a new one comes last.
Put(voices, voice, rows) ==
    IF rows = {} THEN Append(voices, voice)
    ELSE [voices EXCEPT ![CHOOSE i \in rows : \A j \in rows : i =< j] = voice]

\* apply_presence: an older or repeated frame of a session changes nothing.
Show(voice) ==
    LET rows == {i \in Rows(snapshot.voices, voice.author) :
                     snapshot.voices[i].session = voice.session}
    IN  IF \E i \in rows : voice.sequence =< snapshot.voices[i].sequence
        THEN UNCHANGED <<snapshot, channel>>
        ELSE /\ snapshot' = [snapshot EXCEPT !.voices = Put(@, voice, rows)]
             /\ Emit(<<[type |-> "voice", voice |-> voice]>>)

\* SetVoicePreview: the room task numbers the frames of a session, shows the
\* voice here and broadcasts it (presence may be refused by the replica).
Number(session) ==
    [loop EXCEPT !.session = session,
                 !.sequence = IF session = loop.session THEN @ + 1 ELSE 0]

SetVoicePreview(session, signed) ==
    /\ snapshot.room # NoName
    /\ Changes
    /\ Number(session).sequence =< MaxFrame
    /\ loop' = Number(session)
    /\ IF signed
       THEN Show([author |-> Self, session |-> session, sequence |-> loop'.sequence])
       ELSE UNCHANGED <<snapshot, channel>>
    /\ UNCHANGED forgotten

BrowserVoice(session, signed) == platform = "browser" /\ SetVoicePreview(session, signed)

DesktopVoice(session, signed) == platform = "desktop" /\ SetVoicePreview(session, signed)

\* A peer's frame that the replica verified, however late, again or never.
ReceivePresence(peer, frame) ==
    /\ snapshot.room # NoName
    /\ Changes
    /\ Show([author |-> peer, session |-> frame.session, sequence |-> frame.sequence])
    /\ UNCHANGED <<loop, forgotten>>

-----------------------------------------------------------------------------
(* Peers: the room task's own table and the snapshot's.                    *)

UpdatePeer(q, path) ==
    /\ snapshot' = [snapshot EXCEPT !.peers[q] = path]
    /\ Emit(<<[type |-> "peer", peer |-> q, path |-> path]>>)
    /\ UNCHANGED forgotten

\* Found by the rendezvous, or by mDNS: shown as connecting even if the room task
\* knows better.
Discover(q) ==
    /\ snapshot.room # NoName
    /\ Changes
    /\ loop' = [loop EXCEPT !.peers[q] = IF @ = Gone THEN "connecting" ELSE @]
    /\ UpdatePeer(q, "connecting")

NeighborUp(q, path) ==
    /\ snapshot.room # NoName /\ path # "disconnected"
    /\ Changes
    /\ loop' = [loop EXCEPT !.peers[q] = path]
    /\ UpdatePeer(q, path)

NeighborDown(q) ==
    /\ snapshot.room # NoName /\ loop.peers[q] # Gone
    /\ Changes
    /\ loop' = [loop EXCEPT !.peers[q] = "disconnected"]
    /\ UpdatePeer(q, "disconnected")

\* The desktop asks for the path of every peer it knows each second.
PathRefresh(q, path) ==
    /\ platform = "desktop" /\ loop.peers[q] \notin {Gone, path}
    /\ Changes
    /\ loop' = [loop EXCEPT !.peers[q] = path]
    /\ UpdatePeer(q, path)

MdnsExpired(q) ==
    /\ platform = "desktop" /\ loop.peers[q] = "disconnected"
    /\ Changes
    /\ loop' = [loop EXCEPT !.peers[q] = Gone]
    /\ snapshot' = [snapshot EXCEPT !.peers[q] = Gone]
    /\ Emit(<<[type |-> "peer", peer |-> q, path |-> Gone]>>)
    /\ UNCHANGED forgotten

-----------------------------------------------------------------------------
(* Entering and leaving.                                                   *)

\* Rows that are dropped from the snapshot and are not empty.
Dropped(rows) ==
    {row \in rows : CASE row = "voices" -> snapshot.voices # <<>>
                      [] row = "peers" -> snapshot.peers # Empty.peers
                      [] row = "locked" -> snapshot.locked}

RoomChanged(room) == [type |-> "room", room |-> room]

\* launch_room shows the peer of the ticket, installs the room (which clears the
\* peers and the voices) and says so.  The pieces of the last room go with the
\* first view of this one.
BrowserEnter(room, bootstrap) ==
    /\ platform = "browser"
    /\ Changes
    /\ loop' = [FreshLoop EXCEPT !.peers = [q \in Peer |-> IF q \in bootstrap THEN "connecting" ELSE Gone]]
    /\ snapshot' = [snapshot EXCEPT !.room = room, !.voices = <<>>, !.peers = Empty.peers]
    /\ forgotten' = forgotten \cup Dropped({"voices", "peers"})
                        \cup IF bootstrap = {} THEN {} ELSE {"peers"}
    /\ \E peers \in {s \in [1..Cardinality(bootstrap) -> bootstrap] :
                        {s[i] : i \in 1..Cardinality(bootstrap)} = bootstrap} :
           Emit([i \in DOMAIN peers |->
                    [type |-> "peer", peer |-> peers[i], path |-> "connecting"]]
                \o <<RoomChanged(room)>>)

\* start_room_v5 clears them too, and shows the recovered view at once.
DesktopEnter(room, view, locked) ==
    /\ platform = "desktop"
    /\ Changes
    /\ loop' = FreshLoop
    /\ snapshot' = [snapshot EXCEPT !.room = room, !.voices = <<>>, !.peers = Empty.peers,
                                    !.pieces = view, !.locked = locked]
    /\ forgotten' = (forgotten \cup Dropped({"voices", "peers"}))
                        \ IF locked = snapshot.locked THEN {} ELSE {"locked"}
    /\ Emit(<<RoomChanged(room)>> \o ViewEvents(view, locked))

\* The window empties pieces, voices and peers when it hears of no room.  The
\* desktop forgets the lock as well, and nothing tells the window.
BrowserLeave ==
    /\ platform = "browser" /\ snapshot.room # NoName
    /\ Changes
    /\ snapshot' = [Empty EXCEPT !.locked = snapshot.locked]
    /\ loop' = FreshLoop
    /\ forgotten' = forgotten \ {"voices", "peers"}
    /\ Emit(<<RoomChanged(NoName)>>)

DesktopLeave ==
    /\ platform = "desktop" /\ snapshot.room # NoName
    /\ Changes
    /\ snapshot' = Empty
    /\ loop' = FreshLoop
    /\ forgotten' = (forgotten \ {"voices", "peers"}) \cup Dropped({"locked"})
    /\ Emit(<<RoomChanged(NoName)>>)

-----------------------------------------------------------------------------
(* The window.                                                             *)

\* register: a new window (the desktop's web view was reloaded) gets the whole
\* snapshot before any event.
Register ==
    /\ platform = "desktop"
    /\ changes < MaxChanges /\ changes' = changes + 1
    /\ channel' = <<[type |-> "snapshot", snapshot |-> snapshot]>>
    /\ window' = Empty
    /\ forgotten' = {}
    /\ UNCHANGED <<platform, snapshot, loop>>

\* apply_native_delta.  A voice overwrites the first row of its author, whatever
\* its session.
Delta(now, event) ==
    CASE event.type = "snapshot" -> event.snapshot
      [] event.type = "room" /\ event.room = NoName ->
            [Empty EXCEPT !.locked = now.locked]
      [] event.type = "room" /\ event.room # NoName -> [now EXCEPT !.room = event.room]
      [] event.type = "piece" -> [now EXCEPT !.pieces[event.piece] = event.spot]
      [] event.type = "config" -> [now EXCEPT !.locked = event.locked]
      [] event.type = "voice" ->
            [now EXCEPT !.voices = Put(@, event.voice, Rows(@, event.voice.author))]
      [] event.type = "peer" -> [now EXCEPT !.peers[event.peer] = event.path]

ApplyNativeEvent ==
    /\ channel # <<>>
    /\ window' = Delta(window, Head(channel))
    /\ channel' = Tail(channel)
    /\ UNCHANGED <<platform, snapshot, loop, forgotten, changes>>

-----------------------------------------------------------------------------
Layout == [Piece -> Spot \cup {Gone}]

WindowNext ==
    \/ \E view \in Layout, locked \in BOOLEAN : Browse(view, locked) \/ DesktopView(view, locked)
    \/ \E session \in 1..MaxSession, signed \in BOOLEAN :
           /\ session >= loop.session
           /\ BrowserVoice(session, signed) \/ DesktopVoice(session, signed)
    \/ \E q \in Peer :
           \/ \E frame \in VoiceFrame : ReceivePresence(q, frame)
           \/ Discover(q) \/ NeighborDown(q) \/ MdnsExpired(q)
           \/ \E path \in Path : NeighborUp(q, path) \/ PathRefresh(q, path)
    \/ \E room \in RoomName :
           \/ \E bootstrap \in SUBSET Peer : BrowserEnter(room, bootstrap)
           \/ \E view \in Layout, locked \in BOOLEAN : DesktopEnter(room, view, locked)
    \/ BrowserLeave \/ DesktopLeave
    \/ Register \/ ApplyNativeEvent

WindowSpec == WindowInit /\ [][WindowNext]_windowVars

-----------------------------------------------------------------------------
Snapshot ==
    [room : RoomName \cup {NoName}, pieces : Layout, locked : BOOLEAN, voices : Seq(Voice),
     peers : [Peer -> Path \cup {Gone}]]

\* Host and window keep the same kind of snapshot.
WindowTypeOK ==
    /\ snapshot \in Snapshot /\ window \in Snapshot
    /\ forgotten \subseteq {"voices", "peers", "locked"}
    /\ \A i, j \in DOMAIN snapshot.voices :
           LET v == snapshot.voices[i]
               w == snapshot.voices[j]
           IN  v.author = w.author /\ v.session = w.session => i = j

\* The row of a singer the window keeps up to date.
Heard(voices, author) ==
    {voices[i] : i \in {x \in Rows(voices, author) : \A j \in Rows(voices, author) : x =< j}}

\* Once it has applied every event, the window shows what its host shows: the
\* pieces always, even across rooms, and what the host has not dropped silently
\* the same way; the voice it keeps of a singer is one the host still has.
WindowShowsRoom ==
    channel = <<>> =>
        /\ window.room = snapshot.room /\ window.pieces = snapshot.pieces
        /\ "locked" \in forgotten \/ window.locked = snapshot.locked
        /\ "peers" \in forgotten \/ window.peers = snapshot.peers
        /\ \/ "voices" \in forgotten
           \/ \A a \in Peer \cup {Self} :
                  /\ Rows(window.voices, a) = {} <=> Rows(snapshot.voices, a) = {}
                  /\ \A v \in Heard(window.voices, a) :
                         \E i \in DOMAIN snapshot.voices : snapshot.voices[i] = v

=============================================================================
