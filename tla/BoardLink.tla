------------------------------ MODULE BoardLink ------------------------------
(***************************************************************************)
(* The Bluetooth link of the plugin to a board: the transport that         *)
(* supervises it (src/bridge/ble_transport.rs) and the driver that owns    *)
(* the adapter (ble_btleplug.rs), joined by a queue of commands and a      *)
(* queue of host events.  The user scans, selects a board, disconnects,    *)
(* trusts or forgets an identity; the radio loses the link at any time,    *)
(* which the driver notices on its next tick or when a write fails; an     *)
(* attempt to connect may fail for good, or be tried again until its       *)
(* deadline.                                                               *)
(*                                                                         *)
(* The session ends where BoardRepair begins: with the profile sent under  *)
(* the new keys.  An authentication is numbered modulo two, which tells    *)
(* apart what belongs to the previous one.  The adapter and the board are  *)
(* external; the adapter lists every board it knows, connected or not.     *)
(* Bounds of the queues, permissions and a missing adapter are left out,   *)
(* and so is whether the scan is shared with another program.              *)
(***************************************************************************)
EXTENDS Naturals, Sequences

CONSTANTS
    Board,      \* the addresses of the boards
    MaxUser,    \* commands of the user, scans and trust decisions apart
    MaxFaults,  \* links lost and attempts to connect that fail
    MaxWrites   \* realtime messages sent

ASSUME BoardLinkAssumption ==
    MaxUser \in Nat /\ MaxFaults \in Nat /\ MaxWrites \in Nat

VARIABLES
    link,      \* BleLinkTransport
    driver,    \* driver_loop: scan, pending_connect, connection, queued writes
    orders,    \* commands for the driver
    notices,   \* host events for the transport
    radio,     \* the link of the driver's connection is up (external)
    used       \* what was used of the bounds

linkVars == <<link, driver, orders, notices, radio, used>>

Nobody == "nobody"

LinkInit ==
    /\ link = [desired |-> Nobody, scanning |-> FALSE, connecting |-> FALSE,
               connected |-> FALSE, hello |-> Nobody, trusted |-> {}, candidate |-> Nobody,
               auth |-> "none", round |-> 0]
    /\ driver = [scan |-> FALSE, reported |-> {}, pending |-> Nobody, conn |-> Nobody,
                 tx |-> <<>>]
    /\ orders = <<>>
    /\ notices = <<>>
    /\ radio = FALSE
    /\ used = [user |-> 0, faults |-> 0, writes |-> 0]

Using(what, bound) == used[what] < bound /\ used' = [used EXCEPT ![what] = @ + 1]

-----------------------------------------------------------------------------
(* The transport.  An outcome is its new state and the commands it sends.  *)

Outcome(l, sent) == link' = l /\ orders' = orders \o sent

Order(type) == [type |-> type, board |-> Nobody, round |-> 0]

Connect(a) == [type |-> "connect", board |-> a, round |-> 0]

Write(l, what) == [type |-> what, board |-> l.hello, round |-> l.round]

\* reset_session
ResetSession(l) == [l EXCEPT !.hello = Nobody, !.auth = "none"]

\* fail: the attempt is over, and only the user starts another.
Fail(l) ==
    Outcome([l EXCEPT !.auth = "none", !.scanning = FALSE, !.connecting = FALSE,
                      !.connected = FALSE, !.desired = Nobody],
            <<Order("disconnect")>>)

\* Mutant: a lost link is not looked for.
MutResume(l) == Outcome(l, <<>>)

\* resume_desired_connection
Resume(l) ==
    IF l.desired # Nobody /\ ~l.scanning /\ ~l.connecting /\ ~l.connected
    THEN Outcome([l EXCEPT !.scanning = TRUE], <<Order("scan")>>)
    ELSE Outcome(l, <<>>)

\* begin_authentication: the hello and the offer.
Authenticate(l) ==
    LET offered == [l EXCEPT !.auth = "offered", !.round = 1 - @]
    IN  Outcome(offered, <<Write(offered, "offer")>>)

\* Mutant: a board that was not trusted is authenticated with.
MutContinue(l) == Authenticate([l EXCEPT !.candidate = Nobody])

\* continue_after_hello
Continue(l) ==
    IF l.hello \in l.trusted THEN Authenticate([l EXCEPT !.candidate = Nobody])
    ELSE Outcome([l EXCEPT !.candidate = l.hello], <<>>)

Notified(type) ==
    /\ notices # <<>> /\ Head(notices).type = type
    /\ notices' = Tail(notices)
    /\ UNCHANGED <<driver, radio, used>>

\* BleHostEvent::ScanResult
HearScanResult ==
    LET a == Head(notices).board
    IN  /\ Notified("found")
        /\ IF ~link.connecting /\ link.desired = a
           THEN Outcome([link EXCEPT !.scanning = FALSE, !.connecting = TRUE], <<Connect(a)>>)
           ELSE Outcome(link, <<>>)

\* BleHostEvent::Connected: an INFO that came first is kept.
HearConnected ==
    LET up == [ResetSession(link) EXCEPT !.hello = link.hello, !.scanning = FALSE,
                                         !.connecting = FALSE, !.connected = TRUE]
    IN  /\ Notified("connected")
        /\ IF up.hello # Nobody THEN Continue(up) ELSE Outcome(up, <<>>)

\* BleHostEvent::Disconnected
HearDisconnected ==
    /\ Notified("disconnected")
    /\ Resume([ResetSession(link) EXCEPT !.scanning = FALSE, !.connecting = FALSE,
                                         !.connected = FALSE])

\* handle_info
HearInfo ==
    LET a == Head(notices).board
        known == [link EXCEPT !.hello = a]
    IN  /\ Notified("info")
        /\ CASE link.hello = a -> Outcome(link, <<>>)
             [] link.hello # a /\ (link.hello # Nobody \/ link.auth # "none") -> Fail(link)
             [] OTHER -> IF link.connected THEN Continue(known) ELSE Outcome(known, <<>>)

\* handle_wire: the answer completes the handshake it belongs to.
HearAnswer ==
    /\ Notified("answer")
    /\ IF link.auth = "offered" /\ Head(notices).round = link.round
       THEN Outcome([link EXCEPT !.auth = "open"], <<Write(link, "profile")>>)
       ELSE Fail(link)

\* BleHostEvent::Error
HearError == Notified("error") /\ Fail(link)

-----------------------------------------------------------------------------
(* The user.                                                               *)

UserDoes == UNCHANGED <<driver, notices, radio>>

\* StartBoardScan
ScanBoards ==
    /\ ~(link.scanning \/ link.connecting \/ link.connected)
    /\ Outcome([link EXCEPT !.scanning = TRUE], <<Order("scan")>>)
    /\ UNCHANGED used
    /\ UserDoes

\* ConnectBoard
SelectBoard(a) ==
    /\ Using("user", MaxUser)
    /\ IF link.desired = a /\ (link.connecting \/ link.connected)
       THEN Outcome(link, <<>>)
       ELSE Outcome([ResetSession(link) EXCEPT !.desired = a, !.scanning = FALSE,
                                               !.connecting = TRUE, !.connected = FALSE,
                                               !.candidate = Nobody],
                    <<Connect(a)>>)
    /\ UserDoes

\* DisconnectBoard
LeaveBoard ==
    /\ Using("user", MaxUser)
    /\ Outcome([link EXCEPT !.desired = Nobody, !.scanning = FALSE, !.connecting = FALSE,
                            !.connected = FALSE, !.candidate = Nobody],
               <<Order("disconnect")>>)
    /\ UserDoes

\* TrustBoard of an identity shown by this session, also after its link is lost.
\* Of a trusted one it does nothing: whatever comes last of the trust, the hello
\* and the connection has started the session.
TrustBoard(a) ==
    LET known == [link EXCEPT !.trusted = @ \cup {a}, !.candidate = Nobody]
    IN  /\ a \notin link.trusted
        /\ a = IF link.hello # Nobody THEN link.hello ELSE link.candidate
        /\ IF link.hello # Nobody
           THEN IF link.connected THEN Authenticate(known) ELSE Outcome(known, <<>>)
           ELSE Resume(known)
        /\ UNCHANGED used
        /\ UserDoes

\* ForgetBoard
ForgetBoard(a) ==
    /\ a \in link.trusted
    /\ Using("user", MaxUser)
    /\ Outcome([link EXCEPT !.trusted = @ \ {a}], <<>>)
    /\ UserDoes

\* send_realtime
SendRealtime ==
    /\ link.auth = "open"
    /\ Using("writes", MaxWrites)
    /\ Outcome(link, <<Write(link, "realtime")>>)
    /\ UserDoes

-----------------------------------------------------------------------------
(* The driver.                                                             *)

Ordered(type) ==
    /\ orders # <<>> /\ Head(orders).type = type
    /\ orders' = Tail(orders)
    /\ UNCHANGED link

Notice(type, a) == [type |-> type, board |-> a, round |-> 0]

Report(sent) == notices' = notices \o sent

\* disconnect_current
Dropped(d) == IF d.conn = Nobody THEN <<>> ELSE <<Notice("disconnected", d.conn)>>

Closed(d) == [d EXCEPT !.conn = Nobody, !.tx = <<>>]

\* ensure_scan_active
Scanning(d) == [d EXCEPT !.scan = TRUE, !.reported = {}]

StartScan ==
    /\ Ordered("scan")
    /\ driver' = Scanning(driver)
    /\ UNCHANGED <<notices, radio, used>>

\* INFO is reported by the task that is spawned for the notifications, in front of
\* Connected while the setup still stops its scan, and behind Connected by the
\* task or because the setup has read it.
Greetings(a) ==
    LET up == <<Notice("connected", a)>>
        info == <<Notice("info", a)>>
    IN  {info \o up, up \o info, info \o up \o info}

\* try_connect_visible and install_connection: the board is acquired, is acquired
\* and lost before its INFO, is not visible yet or fails in a way that is tried
\* again, or the attempt is over.
Attempt(d, a, said) ==
    \/ /\ driver' = [d EXCEPT !.conn = a, !.pending = Nobody, !.scan = FALSE, !.tx = <<>>]
       /\ \/ /\ \E greeting \in Greetings(a) : Report(said \o greeting)
             /\ radio' = TRUE
             /\ UNCHANGED used
          \/ /\ Using("faults", MaxFaults)
             /\ Report(said \o <<Notice("connected", a)>>)
             /\ radio' = FALSE
    \/ /\ Using("faults", MaxFaults)
       /\ driver' = Scanning([d EXCEPT !.pending = a])
       /\ Report(said)
       /\ radio' = FALSE
    \/ /\ Using("faults", MaxFaults)
       /\ driver' = [d EXCEPT !.pending = Nobody]
       /\ Report(said \o <<Notice("error", a)>>)
       /\ radio' = FALSE

\* DriverCommand::Connect gives up the connection there is.
DriveConnect ==
    /\ Ordered("connect")
    /\ Attempt(Closed(driver), Head(orders).board, Dropped(driver))

DriveDisconnect ==
    /\ Ordered("disconnect")
    /\ driver' = [Closed(driver) EXCEPT !.pending = Nobody, !.scan = FALSE]
    /\ Report(Dropped(driver))
    /\ radio' = FALSE
    /\ UNCHANGED used

\* DriverCommand::WriteMessage
DriveWrite ==
    /\ orders # <<>> /\ Head(orders).type \in {"offer", "profile", "realtime"}
    /\ orders' = Tail(orders)
    /\ IF driver.conn = Nobody
       THEN Report(<<Notice("error", Nobody)>>) /\ UNCHANGED driver
       ELSE driver' = [driver EXCEPT !.tx = Append(@, Head(orders))] /\ UNCHANGED notices
    /\ UNCHANGED <<link, radio, used>>

\* A write is accepted by the board, which answers an offer (external), or fails
\* with the link: the stream is given up.
Transmit ==
    LET m == Head(driver.tx)
    IN  /\ driver.tx # <<>>
        /\ IF radio
           THEN /\ driver' = [driver EXCEPT !.tx = Tail(@)]
                /\ Report(IF m.type = "offer"
                          THEN <<[type |-> "answer", board |-> driver.conn, round |-> m.round]>>
                          ELSE <<>>)
           ELSE /\ driver' = Closed(driver)
                /\ Report(<<Notice("error", driver.conn)>> \o Dropped(driver))
        /\ UNCHANGED <<link, orders, radio, used>>

\* refresh_scan_results
TickScan(a) ==
    /\ driver.scan /\ a \notin driver.reported
    /\ driver' = [driver EXCEPT !.reported = @ \cup {a}]
    /\ Report(<<Notice("found", a)>>)
    /\ UNCHANGED <<link, orders, radio, used>>

\* The tick of a pending attempt, which is tried again or meets its deadline.
TickPending ==
    /\ driver.pending # Nobody
    /\ Attempt(driver, driver.pending, <<>>)
    /\ UNCHANGED <<link, orders>>

\* The tick notices a lost link.
TickLost ==
    /\ driver.conn # Nobody /\ ~radio
    /\ driver' = Closed(driver)
    /\ Report(Dropped(driver))
    /\ UNCHANGED <<link, orders, radio, used>>

\* The radio loses the link (external).
LoseLink ==
    /\ radio
    /\ Using("faults", MaxFaults)
    /\ radio' = FALSE
    /\ UNCHANGED <<link, driver, orders, notices>>

-----------------------------------------------------------------------------
User ==
    \/ ScanBoards \/ LeaveBoard \/ SendRealtime
    \/ \E a \in Board : SelectBoard(a) \/ ForgetBoard(a)

Transport ==
    HearScanResult \/ HearConnected \/ HearDisconnected \/ HearInfo \/ HearAnswer \/ HearError

Drive == StartScan \/ DriveConnect \/ DriveDisconnect \/ DriveWrite

LinkNext ==
    \/ User \/ Transport \/ Drive \/ Transmit \/ TickPending \/ TickLost \/ LoseLink
    \/ \E a \in Board : TickScan(a) \/ TrustBoard(a)

\* The worker polls its events, the driver's loop serves its commands, its
\* writes and its ticks, and the user answers the question whether to trust.
LinkFairness ==
    /\ WF_linkVars(Transport) /\ WF_linkVars(Drive) /\ WF_linkVars(Transmit)
    /\ WF_linkVars(TickPending) /\ WF_linkVars(TickLost)
    /\ \A a \in Board : WF_linkVars(TickScan(a)) /\ WF_linkVars(TrustBoard(a))

LinkSpec == LinkInit /\ [][LinkNext]_linkVars /\ LinkFairness

-----------------------------------------------------------------------------
(* Properties.                                                             *)

\* The state has the shape of the structs.
LinkTypeOK ==
    /\ link.desired \in Board \cup {Nobody} /\ link.hello \in Board \cup {Nobody}
    /\ link.trusted \subseteq Board /\ link.candidate \in Board \cup {Nobody}
    /\ driver.conn \in Board \cup {Nobody} /\ driver.pending \in Board \cup {Nobody}
    /\ driver.conn = Nobody => driver.tx = <<>>

\* A session is only ever offered to a board that is trusted at that time,
\* however INFO, Connected, the user's answer and a forgotten board interleave.
OnlyTrustedAreOffered ==
    [][link'.auth = "offered" /\ link.round # link'.round =>
           link'.hello \in link'.trusted]_linkVars

\* A loss that belongs to a connection given up for the attempt under way.
LateLoss ==
    /\ notices # <<>> /\ Head(notices).type = "disconnected"
    /\ link.connecting \/ (link.connected /\ driver.conn # Nobody)

\* A failed operation ends the supervision (fail).
Failing == notices # <<>> /\ Head(notices).type = "error"

Settled ==
    link.desired # Nobody =>
        driver.conn = link.desired /\ link.hello = link.desired /\ link.auth = "open"

\* A selected board is connected again after every link loss and attempt that
\* is tried again, and the session with it opens and stays open, provided no
\* operation fails and no connection is given up for another.
BoardReconnects ==
    []~(LateLoss \/ Failing) => <>[]Settled

\* "Platform hosts stop their scan after a successful connection": a board that
\* is selected while another one is connected is reached as well.
BoardConnects == []~Failing => <>[]Settled

=============================================================================
