---------------------------- MODULE NativeProofs ----------------------------
(***************************************************************************)
(* Proofs about three parts of the plugin that share no state, for every   *)
(* set of boards, keys and classes, every capacity and every bound.        *)
(*                                                                         *)
(* The supervision of a board's link: types, and that only a board that is *)
(* trusted is offered a session.  A round changes in one place of the      *)
(* transport, so the proof follows its handlers to Authenticate.           *)
(*                                                                         *)
(* The transmit scheduler: types, which say that reservations and queued   *)
(* messages agree.  A message of no fragments is only ever the front of    *)
(* the lane that is under way.                                             *)
(*                                                                         *)
(* The pitch bridge: types, that no target repaints an edit of the board   *)
(* while it is pending, and that an intent ends for a cause.  What every   *)
(* queue carries, and that no token is reused, are the invariant; the      *)
(* functions of BridgePitchState are followed one lemma each.              *)
(***************************************************************************)
EXTENDS PluginBridge, BoardLink, BleTx, FiniteSetTheorems, TLAPS

-----------------------------------------------------------------------------
(* The supervision of the link.                                            *)

Address == Board \cup {Nobody}

LinkState ==
    [desired : Address, scanning : BOOLEAN, connecting : BOOLEAN, connected : BOOLEAN,
     hello : Address, trusted : SUBSET Board, candidate : Address,
     auth : {"none", "offered", "open"}, round : {0, 1}]

Message == [type : {"offer", "profile", "realtime"}, board : Address, round : {0, 1}]

DriverState ==
    [scan : BOOLEAN, reported : SUBSET Board, pending : Address, conn : Address,
     tx : Seq(Message)]

OrderType ==
    [type : {"scan", "disconnect"}, board : {Nobody}, round : {0, 1}]
        \cup [type : {"connect"}, board : Board, round : {0, 1}]
        \cup Message

NoticeType ==
    [type : {"found", "connected", "info"}, board : Board, round : {0, 1}]
        \cup [type : {"disconnected", "answer", "error"}, board : Address, round : {0, 1}]

LinkInv ==
    /\ link \in LinkState
    /\ driver \in DriverState
    /\ driver.conn = Nobody => driver.tx = <<>>
    /\ orders \in Seq(OrderType)
    /\ notices \in Seq(NoticeType)

\* What the transport makes of its state: a new round is for a trusted board.
Sound ==
    /\ link' \in LinkState
    /\ orders' \in Seq(OrderType)
    /\ link'.round # link.round => link'.hello \in link'.trusted

\* What the transport makes of its state is sound, if a new round is.
LEMMA OutcomeSound ==
    ASSUME LinkInv, NEW l \in LinkState, NEW sent \in Seq(OrderType), Outcome(l, sent),
           l.round # link.round => l.hello \in l.trusted
    PROVE  Sound
BY DEF Outcome, Sound, LinkInv

\* The orders of the transport have the shape the driver reads.
LEMMA OrdersTyped ==
    ASSUME NEW l \in LinkState
    PROVE  /\ Order("scan") \in OrderType /\ Order("disconnect") \in OrderType
           /\ \A a \in Board : Connect(a) \in OrderType
           /\ \A what \in {"offer", "profile", "realtime"} : Write(l, what) \in OrderType
BY DEF LinkState, Order, Connect, Write, OrderType, Message, Address

\* A single order, or none.
LEMMA OneOrder == <<>> \in Seq(OrderType) /\ \A o \in OrderType : <<o>> \in Seq(OrderType)
OBVIOUS

\* A link that fails starts no round.
LEMMA FailSound ==
    ASSUME LinkInv, Fail(link)
    PROVE  Sound
<1> DEFINE l == [link EXCEPT !.auth = "none", !.scanning = FALSE, !.connecting = FALSE,
                      !.connected = FALSE, !.desired = Nobody]
<1>1. l \in LinkState /\ l.round = link.round
  BY DEF LinkInv, LinkState, Address
<1>2. Outcome(l, <<Order("disconnect")>>)
  BY DEF Fail
<1> HIDE DEF l
<1> QED
  BY <1>1, <1>2, OutcomeSound, OrdersTyped, OneOrder

\* Nor does a scan that resumes.
LEMMA ResumeSound ==
    ASSUME LinkInv, NEW l \in LinkState, l.round = link.round, Resume(l)
    PROVE  Sound
<1> DEFINE m == [l EXCEPT !.scanning = TRUE]
<1>1. m \in LinkState /\ m.round = link.round
  BY DEF LinkState
<1>2. Outcome(m, <<Order("scan")>>) \/ Outcome(l, <<>>)
  BY DEF Resume
<1> HIDE DEF m
<1> QED
  BY <1>1, <1>2, OutcomeSound, OrdersTyped, OneOrder

\* A new round is for the board of the hello, once it is trusted.
LEMMA AuthenticateSound ==
    ASSUME LinkInv, NEW l \in LinkState, l.hello \in l.trusted, Authenticate(l)
    PROVE  Sound
<1> DEFINE m == [l EXCEPT !.auth = "offered", !.round = 1 - @]
<1>1. m \in LinkState /\ m.hello \in m.trusted
  <2>1. 1 - l.round \in {0, 1}
    BY DEF LinkState
  <2> QED
    BY <2>1 DEF LinkState
<1>2. Outcome(m, <<Write(m, "offer")>>)
  BY DEF Authenticate
<1> HIDE DEF m
<1> QED
  BY <1>1, <1>2, OutcomeSound, OrdersTyped, OneOrder

\* A hello leads to a new round if its board is trusted, and to a question if not.
LEMMA ContinueSound ==
    ASSUME LinkInv, NEW l \in LinkState, l.round = link.round, Continue(l)
    PROVE  Sound
<1> DEFINE m == [l EXCEPT !.candidate = Nobody]
           n == [l EXCEPT !.candidate = l.hello]
<1>1. m \in LinkState /\ m.hello = l.hello /\ m.trusted = l.trusted
  BY DEF LinkState, Address
<1>2. n \in LinkState /\ n.round = link.round
  BY DEF LinkState
<1>3. (l.hello \in l.trusted /\ Authenticate(m)) \/ Outcome(n, <<>>)
  BY DEF Continue
<1> HIDE DEF m, n
<1> QED
  BY <1>1, <1>2, <1>3, OutcomeSound, OneOrder, AuthenticateSound

\* Reset and connected again, or reset and idle: the round stays.
LEMMA TransportSound ==
    ASSUME LinkInv, Transport
    PROVE  Sound /\ notices' \in Seq(NoticeType) /\ UNCHANGED driver
<1> DEFINE notice == Head(notices)
<1>a. notices # <<>> /\ notices' = Tail(notices) /\ UNCHANGED driver
  BY DEF Transport, HearScanResult, HearConnected, HearDisconnected, HearInfo, HearAnswer,
         HearError, Notified
<1>b. notice \in NoticeType /\ notices' \in Seq(NoticeType)
  BY <1>a DEF LinkInv
<1>c. link \in LinkState
  BY DEF LinkInv
<1> SUFFICES Sound
  BY <1>a, <1>b
<1>1. CASE HearScanResult
  <2> DEFINE l == [link EXCEPT !.scanning = FALSE, !.connecting = TRUE]
  <2>1. notice.type = "found" /\ notice.board \in Board
    BY <1>1, <1>b DEF HearScanResult, Notified, NoticeType
  <2>2. l \in LinkState /\ l.round = link.round
    BY <1>c DEF LinkState
  <2>3. Outcome(l, <<Connect(notice.board)>>) \/ Outcome(link, <<>>)
    BY <1>1 DEF HearScanResult
  <2> HIDE DEF l, notice
  <2> QED
    BY <1>c, <2>1, <2>2, <2>3, OutcomeSound, OrdersTyped, OneOrder
<1>2. CASE HearConnected
  <2> DEFINE up == [ResetSession(link) EXCEPT !.hello = link.hello, !.scanning = FALSE,
                                              !.connecting = FALSE, !.connected = TRUE]
  <2>1. up \in LinkState /\ up.round = link.round
    BY <1>c DEF ResetSession, LinkState
  <2>2. Continue(up) \/ Outcome(up, <<>>)
    BY <1>2 DEF HearConnected
  <2> HIDE DEF up
  <2> QED
    BY <2>1, <2>2, OutcomeSound, OneOrder, ContinueSound
<1>3. CASE HearDisconnected
  <2> DEFINE down == [ResetSession(link) EXCEPT !.scanning = FALSE, !.connecting = FALSE,
                                                !.connected = FALSE]
  <2>1. down \in LinkState /\ down.round = link.round
    BY <1>c DEF ResetSession, LinkState, Address
  <2>2. Resume(down)
    BY <1>3 DEF HearDisconnected
  <2> HIDE DEF down
  <2> QED
    BY <2>1, <2>2, ResumeSound
<1>4. CASE HearInfo
  <2> DEFINE known == [link EXCEPT !.hello = notice.board]
  <2>1. notice.board \in Board
    BY <1>4, <1>b DEF HearInfo, Notified, NoticeType
  <2>2. known \in LinkState /\ known.round = link.round
    BY <1>c, <2>1 DEF LinkState, Address
  <2>3. Outcome(link, <<>>) \/ Fail(link) \/ Continue(known) \/ Outcome(known, <<>>)
    BY <1>4 DEF HearInfo
  <2> HIDE DEF known
  <2> QED
    BY <1>c, <2>2, <2>3, OutcomeSound, OneOrder, ContinueSound, FailSound
<1>5. CASE HearAnswer
  <2> DEFINE open == [link EXCEPT !.auth = "open"]
  <2>1. open \in LinkState /\ open.round = link.round
    BY <1>c DEF LinkState
  <2>2. Outcome(open, <<Write(link, "profile")>>) \/ Fail(link)
    BY <1>5 DEF HearAnswer
  <2> HIDE DEF open
  <2> QED
    BY <1>c, <2>1, <2>2, OutcomeSound, FailSound, OrdersTyped, OneOrder
<1>6. CASE HearError
  BY <1>6, FailSound DEF HearError
<1> QED
  BY <1>1, <1>2, <1>3, <1>4, <1>5, <1>6 DEF Transport

\* The commands of the user start a round only for a board they trust.
LEMMA UserSound ==
    ASSUME LinkInv, User \/ \E a \in Board : TrustBoard(a)
    PROVE  Sound /\ UNCHANGED <<driver, notices>>
<1>c. link \in LinkState
  BY DEF LinkInv
<1>a. UNCHANGED <<driver, notices>>
  BY DEF User, ScanBoards, SelectBoard, LeaveBoard, ForgetBoard, SendRealtime, TrustBoard,
         UserDoes
<1>1. CASE ScanBoards
  <2> DEFINE l == [link EXCEPT !.scanning = TRUE]
  <2>1. l \in LinkState /\ l.round = link.round
    BY <1>c DEF LinkState
  <2>2. Outcome(l, <<Order("scan")>>)
    BY <1>1 DEF ScanBoards
  <2> HIDE DEF l
  <2> QED
    BY <1>a, <1>c, <2>1, <2>2, OutcomeSound, OrdersTyped, OneOrder
<1>2. CASE LeaveBoard
  <2> DEFINE l == [link EXCEPT !.desired = Nobody, !.scanning = FALSE, !.connecting = FALSE,
                               !.connected = FALSE, !.candidate = Nobody]
  <2>1. l \in LinkState /\ l.round = link.round
    BY <1>c DEF LinkState, Address
  <2>2. Outcome(l, <<Order("disconnect")>>)
    BY <1>2 DEF LeaveBoard
  <2> HIDE DEF l
  <2> QED
    BY <1>a, <1>c, <2>1, <2>2, OutcomeSound, OrdersTyped, OneOrder
<1>3. CASE SendRealtime
  <2>1. Outcome(link, <<Write(link, "realtime")>>)
    BY <1>3 DEF SendRealtime
  <2> QED
    BY <1>a, <1>c, <2>1, OutcomeSound, OrdersTyped, OneOrder
<1>4. ASSUME NEW a \in Board, SelectBoard(a) PROVE Sound
  <2> DEFINE l == [ResetSession(link) EXCEPT !.desired = a, !.scanning = FALSE,
                       !.connecting = TRUE, !.connected = FALSE, !.candidate = Nobody]
  <2>1. l \in LinkState /\ l.round = link.round
    BY <1>c DEF ResetSession, LinkState, Address
  <2>2. Outcome(l, <<Connect(a)>>) \/ Outcome(link, <<>>)
    BY <1>4 DEF SelectBoard
  <2> HIDE DEF l
  <2> QED
    BY <1>c, <2>1, <2>2, OutcomeSound, OrdersTyped, OneOrder
<1>5. ASSUME NEW a \in Board, ForgetBoard(a) PROVE Sound
  <2> DEFINE l == [link EXCEPT !.trusted = @ \ {a}]
  <2>1. l \in LinkState /\ l.round = link.round
    BY <1>c DEF LinkState
  <2>2. Outcome(l, <<>>)
    BY <1>5 DEF ForgetBoard
  <2> HIDE DEF l
  <2> QED
    BY <2>1, <2>2, OutcomeSound, OneOrder
<1>6. ASSUME NEW a \in Board, TrustBoard(a) PROVE Sound
  <2> DEFINE known == [link EXCEPT !.trusted = @ \cup {a}, !.candidate = Nobody]
  <2>1. known \in LinkState /\ known.round = link.round /\ known.hello = link.hello
            /\ a \in known.trusted
    BY <1>c DEF LinkState, Address
  <2>2. \/ link.hello = a /\ Authenticate(known)
        \/ Outcome(known, <<>>)
        \/ Resume(known)
    BY <1>6 DEF TrustBoard
  <2> HIDE DEF known
  <2> QED
    BY <2>1, <2>2, OutcomeSound, OneOrder, AuthenticateSound, ResumeSound
<1> QED
  BY <1>a, <1>1, <1>2, <1>3, <1>4, <1>5, <1>6 DEF User

\* What the driver makes of its state.
DriverSound ==
    /\ driver' \in DriverState
    /\ driver'.conn = Nobody => driver'.tx = <<>>
    /\ notices' \in Seq(NoticeType)

\* The notices of the driver have the shape the transport reads.
LEMMA NoticesTyped ==
    /\ \A a \in Board, type \in {"found", "connected", "info"} : Notice(type, a) \in NoticeType
    /\ \A a \in Address, type \in {"disconnected", "error"} : Notice(type, a) \in NoticeType
    /\ \A d \in DriverState : Dropped(d) \in Seq(NoticeType)
    /\ <<>> \in Seq(NoticeType)
    /\ \A n \in NoticeType : <<n>> \in Seq(NoticeType)
<1>1. \A a \in Address, type \in {"disconnected", "error"} : Notice(type, a) \in NoticeType
  BY DEF Notice, NoticeType, Address
<1>2. \A a \in Board, type \in {"found", "connected", "info"} : Notice(type, a) \in NoticeType
  BY DEF Notice, NoticeType
<1>3. \A n \in NoticeType : <<n>> \in Seq(NoticeType)
  OBVIOUS
<1>4. ASSUME NEW d \in DriverState PROVE Dropped(d) \in Seq(NoticeType)
  <2>1. d.conn \in Address
    BY DEF DriverState
  <2> QED
    BY <1>1, <1>3, <2>1 DEF Dropped
<1> QED
  BY <1>1, <1>2, <1>3, <1>4

\* A connection that is closed leaves nothing to write.
LEMMA ClosedTyped ==
    ASSUME NEW d \in DriverState
    PROVE  Closed(d) \in DriverState /\ Closed(d).conn = Nobody /\ Closed(d).tx = <<>>
<1>1. <<>> \in Seq(Message)
  OBVIOUS
<1> QED
  BY <1>1 DEF Closed, DriverState, Address

\* A scan keeps the connection.
LEMMA ScanningTyped ==
    ASSUME NEW d \in DriverState
    PROVE  Scanning(d) \in DriverState /\ Scanning(d).conn = d.conn /\ Scanning(d).tx = d.tx
BY DEF Scanning, DriverState

\* What the driver reports is queued.
LEMMA ReportTyped ==
    ASSUME notices \in Seq(NoticeType), NEW sent \in Seq(NoticeType), Report(sent)
    PROVE  notices' \in Seq(NoticeType)
BY DEF Report

\* An attempt to connect succeeds, is tried again or is over.
LEMMA AttemptSound ==
    ASSUME LinkInv, NEW d \in DriverState, d.conn = Nobody => d.tx = <<>>, NEW a \in Board,
           NEW said \in Seq(NoticeType), Attempt(d, a, said)
    PROVE  DriverSound
<1> DEFINE up == [d EXCEPT !.conn = a, !.pending = Nobody, !.scan = FALSE, !.tx = <<>>]
           again == [d EXCEPT !.pending = a]
           over == [d EXCEPT !.pending = Nobody]
<1>a. notices \in Seq(NoticeType)
  BY DEF LinkInv
<1>1. up \in DriverState /\ up.tx = <<>>
  <2>1. <<>> \in Seq(Message)
    OBVIOUS
  <2> QED
    BY <2>1 DEF DriverState, Address
<1>2. again \in DriverState /\ again.conn = d.conn /\ again.tx = d.tx
  BY DEF DriverState, Address
<1>3. over \in DriverState /\ over.conn = d.conn /\ over.tx = d.tx
  BY DEF DriverState, Address
<1>4. /\ \A greeting \in Greetings(a) : said \o greeting \in Seq(NoticeType)
      /\ said \o <<Notice("connected", a)>> \in Seq(NoticeType)
      /\ said \o <<Notice("error", a)>> \in Seq(NoticeType)
  <2>1. /\ <<Notice("connected", a)>> \in Seq(NoticeType)
        /\ <<Notice("info", a)>> \in Seq(NoticeType)
        /\ <<Notice("error", a)>> \in Seq(NoticeType)
    BY NoticesTyped DEF Address
  <2>2. \A greeting \in Greetings(a) : greeting \in Seq(NoticeType)
    <3>1. /\ <<Notice("connected", a)>> \o <<Notice("info", a)>> \in Seq(NoticeType)
          /\ <<Notice("info", a)>> \o <<Notice("connected", a)>> \in Seq(NoticeType)
      BY <2>1
    <3>2. <<Notice("info", a)>> \o <<Notice("connected", a)>> \o <<Notice("info", a)>>
              \in Seq(NoticeType)
      BY <2>1, <3>1
    <3> QED
      BY <3>1, <3>2 DEF Greetings
  <2> QED
    BY <2>1, <2>2
<1>5. \/ driver' = up /\ \E greeting \in Greetings(a) : Report(said \o greeting)
      \/ driver' = up /\ Report(said \o <<Notice("connected", a)>>)
      \/ driver' = Scanning(again) /\ Report(said)
      \/ driver' = over /\ Report(said \o <<Notice("error", a)>>)
  BY DEF Attempt
<1> HIDE DEF up, again, over
<1>6. notices' \in Seq(NoticeType)
  BY <1>a, <1>4, <1>5, ReportTyped
<1> QED
  BY <1>1, <1>2, <1>3, <1>5, <1>6, ScanningTyped DEF DriverSound

\* The driver keeps its shape and takes one order at a time.
LEMMA DriveSound ==
    ASSUME LinkInv, Drive \/ Transmit \/ TickPending \/ TickLost \/ \E a \in Board : TickScan(a)
    PROVE  DriverSound /\ orders' \in Seq(OrderType) /\ UNCHANGED link
<1>a. /\ driver \in DriverState /\ (driver.conn = Nobody => driver.tx = <<>>)
      /\ notices \in Seq(NoticeType) /\ orders \in Seq(OrderType)
  BY DEF LinkInv
<1>b. UNCHANGED link /\ (UNCHANGED orders \/ (orders # <<>> /\ orders' = Tail(orders)))
  BY DEF Drive, StartScan, DriveConnect, DriveDisconnect, DriveWrite, Ordered, Transmit,
         TickPending, TickLost, TickScan
<1>c. orders' \in Seq(OrderType)
  BY <1>a, <1>b
<1>d. Closed(driver) \in DriverState /\ Closed(driver).conn = Nobody /\ Closed(driver).tx = <<>>
  BY <1>a, ClosedTyped
<1>e. Dropped(driver) \in Seq(NoticeType)
  BY <1>a, NoticesTyped
<1> SUFFICES DriverSound
  BY <1>b, <1>c
<1>1. CASE StartScan
  BY <1>1, <1>a, ScanningTyped DEF StartScan, DriverSound
<1>2. CASE DriveConnect
  <2>1. Head(orders).board \in Board
    <3>1. Head(orders) \in OrderType /\ Head(orders).type = "connect"
      BY <1>2, <1>a DEF DriveConnect, Ordered
    <3> QED
      BY <3>1 DEF OrderType, Message
  <2> QED
    BY <1>2, <1>d, <1>e, <2>1, AttemptSound DEF DriveConnect
<1>3. CASE DriveDisconnect
  <2> DEFINE idle == [Closed(driver) EXCEPT !.pending = Nobody, !.scan = FALSE]
  <2>1. idle \in DriverState /\ idle.conn = Nobody /\ idle.tx = <<>>
    BY <1>d DEF DriverState, Address
  <2>2. driver' = idle /\ Report(Dropped(driver))
    BY <1>3 DEF DriveDisconnect
  <2> HIDE DEF idle
  <2> QED
    BY <1>a, <1>e, <2>1, <2>2, ReportTyped DEF DriverSound
<1>4. CASE DriveWrite
  <2> DEFINE order == Head(orders)
             more == [driver EXCEPT !.tx = Append(@, order)]
  <2>1. order \in Message
    <3>1. order \in OrderType /\ order.type \in {"offer", "profile", "realtime"}
      BY <1>4, <1>a DEF DriveWrite
    <3> QED
      BY <3>1 DEF OrderType, Message
  <2>2. more \in DriverState /\ more.conn = driver.conn
    <3>1. driver.tx \in Seq(Message)
      BY <1>a DEF DriverState
    <3>2. Append(driver.tx, order) \in Seq(Message)
      BY <2>1, <3>1
    <3> HIDE DEF order
    <3> QED
      BY <1>a, <3>2 DEF DriverState
  <2>3. \/ Report(<<Notice("error", Nobody)>>) /\ UNCHANGED driver
        \/ driver.conn # Nobody /\ driver' = more /\ UNCHANGED notices
    BY <1>4 DEF DriveWrite
  <2>4. <<Notice("error", Nobody)>> \in Seq(NoticeType)
    BY NoticesTyped DEF Address
  <2> HIDE DEF more
  <2> QED
    BY <1>a, <2>2, <2>3, <2>4, ReportTyped DEF DriverSound
<1>5. CASE Transmit
  <2> DEFINE m == Head(driver.tx)
             rest == [driver EXCEPT !.tx = Tail(@)]
             answer == [type |-> "answer", board |-> driver.conn, round |-> m.round]
  <2>0. driver.tx # <<>> /\ driver.conn # Nobody
    BY <1>5, <1>a DEF Transmit
  <2>a. driver.tx \in Seq(Message) /\ driver.conn \in Address
    BY <1>a DEF DriverState
  <2>1. m.round \in {0, 1} /\ driver.conn \in Address
    <3>1. m \in Message
      BY <2>0, <2>a
    <3> QED
      BY <2>a, <3>1 DEF Message
  <2>2. rest \in DriverState /\ rest.conn = driver.conn
    <3>1. Tail(driver.tx) \in Seq(Message)
      BY <2>0, <2>a
    <3> QED
      BY <1>a, <3>1 DEF DriverState
  <2>3. <<answer>> \in Seq(NoticeType)
    BY <2>1 DEF NoticeType
  <2>4. <<Notice("error", driver.conn)>> \o Dropped(driver) \in Seq(NoticeType)
    BY <1>e, <2>1, NoticesTyped
  <2>5. \/ driver' = rest /\ (Report(<<answer>>) \/ Report(<<>>))
        \/ /\ driver' = Closed(driver)
           /\ Report(<<Notice("error", driver.conn)>> \o Dropped(driver))
    BY <1>5 DEF Transmit
  <2> HIDE DEF rest, answer, m
  <2> QED
    BY <1>a, <1>d, <2>0, <2>2, <2>3, <2>4, <2>5, ReportTyped, NoticesTyped DEF DriverSound
<1>6. CASE TickPending
  <2>1. driver.pending \in Board
    BY <1>6, <1>a DEF TickPending, DriverState, Address
  <2> QED
    BY <1>6, <1>a, <2>1, AttemptSound, NoticesTyped DEF TickPending
<1>7. CASE TickLost
  BY <1>7, <1>a, <1>d, <1>e, ReportTyped DEF TickLost, DriverSound
<1>8. ASSUME NEW a \in Board, TickScan(a) PROVE DriverSound
  <2> DEFINE seen == [driver EXCEPT !.reported = @ \cup {a}]
  <2>1. seen \in DriverState /\ seen.conn = driver.conn /\ seen.tx = driver.tx
    BY <1>a DEF DriverState
  <2>2. <<Notice("found", a)>> \in Seq(NoticeType)
    BY NoticesTyped
  <2>3. driver' = seen /\ Report(<<Notice("found", a)>>)
    BY <1>8 DEF TickScan
  <2> HIDE DEF seen
  <2> QED
    BY <1>a, <2>1, <2>2, <2>3, ReportTyped DEF DriverSound
<1> QED
  BY <1>1, <1>2, <1>3, <1>4, <1>5, <1>6, <1>7, <1>8 DEF Drive

\* LinkInv is inductive, and every step that changes the transport is sound.
LEMMA LinkStep == LinkInv /\ [LinkNext]_linkVars => LinkInv' /\ (Sound \/ UNCHANGED link)
<1> SUFFICES ASSUME LinkInv, [LinkNext]_linkVars PROVE LinkInv' /\ (Sound \/ UNCHANGED link)
  OBVIOUS
<1>1. CASE Transport
  BY <1>1, TransportSound DEF LinkInv, Sound
<1>2. CASE User \/ \E a \in Board : TrustBoard(a)
  BY <1>2, UserSound DEF LinkInv, Sound
<1>3. CASE Drive \/ Transmit \/ TickPending \/ TickLost \/ \E a \in Board : TickScan(a)
  BY <1>3, DriveSound DEF LinkInv, DriverSound
<1>4. CASE LoseLink \/ UNCHANGED linkVars
  BY <1>4 DEF LinkInv, LoseLink, linkVars
<1> QED
  BY <1>1, <1>2, <1>3, <1>4 DEF LinkNext

\* The inductive invariant of the link: transport, driver and the queues between
\* them have the shape of their structs, connections and scans name boards, and
\* nothing waits to be written without a connection.
LEMMA LinkHolds == LinkInit /\ [][LinkNext]_linkVars => []LinkInv
<1>1. LinkInit => LinkInv
  <2>1. <<>> \in Seq(Message)
    OBVIOUS
  <2> QED
    BY <2>1 DEF LinkInit, LinkInv, LinkState, DriverState, Address
<1>2. LinkInv /\ [LinkNext]_linkVars => LinkInv'
  BY LinkStep
<1> QED
  BY <1>1, <1>2, PTL

\* The link keeps its inductive invariant.
THEOREM LinkInvariant == LinkSpec => []LinkInv
BY LinkHolds, PTL DEF LinkSpec

\* What the invariant says includes the shape of transport and driver.
LEMMA LinkShape == LinkInv => LinkTypeOK
BY DEF LinkInv, LinkTypeOK, LinkState, DriverState, Address

\* The state of transport and driver has the shape of the structs.
THEOREM LinkTypeCorrect == LinkSpec => []LinkTypeOK
BY LinkShape, LinkInvariant, PTL

\* begin_authentication only ever starts a session with a board whose identity
\* is trusted at that moment, whatever came first of the hello, the connection,
\* the user's answer and a forgotten board.
THEOREM OffersNeedTrust == LinkSpec => OnlyTrustedAreOffered
<1> DEFINE Step == link'.auth = "offered" /\ link.round # link'.round =>
                       link'.hello \in link'.trusted
<1>1. LinkInv /\ [LinkNext]_linkVars => [Step]_linkVars
  BY LinkStep DEF Sound
<1>2. LinkSpec => [][Step]_linkVars
  BY <1>1, LinkInvariant, PTL DEF LinkSpec
<1> QED
  BY <1>2 DEF OnlyTrustedAreOffered


-----------------------------------------------------------------------------
(* The transmit scheduler.                                                 *)

\* A message whose fragments are all prepared is the one under way.
FragmentOK ==
    \A l \in Lane : \A i \in 1 .. Len(lanes[l]) :
        lanes[l][i] = 0 => l = fragment /\ i = 1

TxInv ==
    /\ reserved \in Nat
    /\ inbox \in Seq(Lane)
    /\ lanes \in [Lane -> Seq({0, 1, 2})]
    /\ TxTypeOK
    /\ FragmentOK

\* The lanes of a stream that was given up.
LEMMA EmptyLanes == Empty \in [Lane -> Seq({0, 1, 2})] /\ \A l \in Lane : Empty[l] = <<>>
<1>1. <<>> \in Seq({0, 1, 2})
  OBVIOUS
<1> QED
  BY <1>1 DEF Empty

\* Queued counts the messages of the lanes, and Choice finds one if there is any.
LEMMA QueuedNat ==
    ASSUME lanes \in [Lane -> Seq({0, 1, 2})]
    PROVE  /\ Queued \in Nat
           /\ lanes = Empty => Queued = 0
           /\ Queued > 0 => Choice \in Lane /\ lanes[Choice] # <<>>
           /\ \A l \in Lane : Len(lanes[l]) <= Queued
<1> DEFINE a == lanes["control"]
           b == lanes["realtime"]
           c == lanes["repair"]
<1>1. a \in Seq({0, 1, 2}) /\ b \in Seq({0, 1, 2}) /\ c \in Seq({0, 1, 2})
  BY DEF Lane
<1>2. Queued = Len(a) + Len(b) + Len(c)
  BY DEF Queued
<1>3. Len(a) \in Nat /\ Len(b) \in Nat /\ Len(c) \in Nat
  BY <1>1
<1>4. lanes = Empty => Len(a) = 0 /\ Len(b) = 0 /\ Len(c) = 0
  BY EmptyLanes DEF Lane
<1>5. Queued > 0 => a # <<>> \/ b # <<>> \/ c # <<>>
  <2> SUFFICES ASSUME a = <<>>, b = <<>>, c = <<>> PROVE ~(Queued > 0)
    OBVIOUS
  <2> QED
    BY <1>2
<1>6. a # <<>> \/ b # <<>> \/ c # <<>> => Choice \in Lane /\ lanes[Choice] # <<>>
  BY DEF Choice, Lane
<1>7. \A l \in Lane : Len(lanes[l]) = Len(a) \/ Len(lanes[l]) = Len(b) \/ Len(lanes[l]) = Len(c)
  BY DEF Lane
<1> HIDE DEF a, b, c
<1> QED
  BY <1>2, <1>3, <1>4, <1>5, <1>6, <1>7

\* One lane changes, and with it what is queued.
LEMMA OneLane ==
    ASSUME lanes \in [Lane -> Seq({0, 1, 2})], NEW l \in Lane, NEW s \in Seq({0, 1, 2}),
           lanes' = [lanes EXCEPT ![l] = s]
    PROVE  /\ lanes' \in [Lane -> Seq({0, 1, 2})]
           /\ Queued' = Queued - Len(lanes[l]) + Len(s)
           /\ lanes'[l] = s
           /\ \A m \in Lane \ {l} : lanes'[m] = lanes[m]
<1>1. /\ lanes' \in [Lane -> Seq({0, 1, 2})]
      /\ lanes'[l] = s
      /\ \A m \in Lane \ {l} : lanes'[m] = lanes[m]
  OBVIOUS
<1>2. /\ Len(lanes["control"]) \in Nat /\ Len(lanes["realtime"]) \in Nat
      /\ Len(lanes["repair"]) \in Nat /\ Len(s) \in Nat
  BY DEF Lane
<1>3. Queued' = Queued - Len(lanes[l]) + Len(s)
  <2>1. CASE l = "control"
    BY <2>1, <1>1, <1>2 DEF Queued, Lane
  <2>2. CASE l = "realtime"
    BY <2>2, <1>1, <1>2 DEF Queued, Lane
  <2>3. CASE l = "repair"
    BY <2>3, <1>1, <1>2 DEF Queued, Lane
  <2> QED
    BY <2>1, <2>2, <2>3 DEF Lane
<1> QED
  BY <1>1, <1>3

\* Giving up a stream returns what its messages reserved.
LEMMA ClearKeeps ==
    ASSUME TxInv, Clear, UNCHANGED inbox
    PROVE  TxInv'
<1>1. /\ lanes' = Empty /\ fragment' = NoFragment /\ reserved' = reserved - Queued
      /\ reserved = Len(inbox) + Queued /\ reserved <= TxCapacity
  BY DEF Clear, TxInv, TxTypeOK
<1>2. Queued \in Nat
  BY QueuedNat DEF TxInv
<1>3. lanes' \in [Lane -> Seq({0, 1, 2})] /\ Queued' = 0
  <2>1. /\ lanes'["control"] = <<>> /\ lanes'["realtime"] = <<>> /\ lanes'["repair"] = <<>>
        /\ lanes' \in [Lane -> Seq({0, 1, 2})]
    BY <1>1, EmptyLanes DEF Lane
  <2> QED
    BY <2>1 DEF Queued
<1>4. inbox' \in Seq(Lane) /\ Len(inbox) \in Nat
  BY DEF TxInv
<1>5. reserved' = Len(inbox) /\ reserved' \in Nat /\ reserved' <= TxCapacity
  BY <1>1, <1>2, <1>4, BleTxAssumption
<1>6. FragmentOK'
  BY <1>1, EmptyLanes DEF FragmentOK
<1> QED
  BY <1>1, <1>3, <1>4, <1>5, <1>6 DEF TxInv, TxTypeOK, NoFragment

\* TxInv is inductive.
LEMMA TxStep == TxInv /\ [TxNext]_txVars => TxInv'
<1> SUFFICES ASSUME TxInv, [TxNext]_txVars PROVE TxInv'
  OBVIOUS
<1>a. /\ reserved \in Nat /\ inbox \in Seq(Lane) /\ lanes \in [Lane -> Seq({0, 1, 2})]
      /\ reserved = Len(inbox) + Queued /\ reserved <= TxCapacity
      /\ fragment \in Lane \cup {NoFragment}
      /\ fragment # NoFragment => lanes[fragment] # <<>> /\ lanes[fragment][1] < 2
      /\ faulted => lanes = Empty
      /\ FragmentOK
  BY DEF TxInv, TxTypeOK
<1>b. Queued \in Nat /\ Len(inbox) \in Nat /\ TxCapacity \in Nat
  BY <1>a, QueuedNat, BleTxAssumption
<1>c. UNCHANGED lanes => Queued' = Queued
  BY DEF Queued
<1>1. ASSUME NEW l \in Lane, WriteMessage(l) PROVE TxInv'
  <2>1. /\ reserved' = reserved + 1 /\ reserved < TxCapacity
        /\ inbox' = Append(inbox, l) /\ UNCHANGED <<lanes, fragment, faulted>>
    BY <1>1 DEF WriteMessage
  <2>2. inbox' \in Seq(Lane) /\ Len(inbox') = Len(inbox) + 1
    BY <1>a, <2>1
  <2>3. FragmentOK'
    BY <1>a, <2>1 DEF FragmentOK
  <2> QED
    BY <1>a, <1>b, <1>c, <2>1, <2>2, <2>3 DEF TxInv, TxTypeOK
<1>2. CASE Enqueue
  <2> DEFINE l == Head(inbox)
  <2>1. /\ inbox # <<>> /\ inbox' = Tail(inbox) /\ UNCHANGED <<fragment, faulted>>
        /\ \/ faulted /\ reserved' = reserved - 1 /\ UNCHANGED lanes
           \/ /\ ~faulted /\ UNCHANGED reserved
              /\ lanes' = [lanes EXCEPT ![l] = Append(@, 2)]
    BY <1>2 DEF Enqueue
  <2>2. l \in Lane /\ inbox' \in Seq(Lane) /\ Len(inbox') = Len(inbox) - 1 /\ Len(inbox) > 0
    BY <1>a, <2>1
  <2>3. CASE faulted
    <3>1. FragmentOK'
      BY <1>a, <2>1, <2>3 DEF FragmentOK
    <3> QED
      BY <1>a, <1>b, <1>c, <2>1, <2>2, <2>3, <3>1 DEF TxInv, TxTypeOK
  <2>4. CASE ~faulted
    <3> DEFINE s == Append(lanes[l], 2)
    <3>0. lanes[l] \in Seq({0, 1, 2})
      BY <1>a, <2>2
    <3>1. s \in Seq({0, 1, 2}) /\ Len(s) = Len(lanes[l]) + 1 /\ Len(lanes[l]) \in Nat /\ s # <<>>
              /\ s[Len(s)] = 2 /\ \A i \in 1 .. Len(lanes[l]) : s[i] = lanes[l][i]
      BY <3>0
    <3>2. lanes' = [lanes EXCEPT ![l] = s]
      BY <2>1, <2>4
    <3> HIDE DEF s, l
    <3>3. /\ lanes' \in [Lane -> Seq({0, 1, 2})] /\ Queued' = Queued + 1
          /\ lanes'[l] = s /\ \A m \in Lane \ {l} : lanes'[m] = lanes[m]
      <4>1. /\ lanes' \in [Lane -> Seq({0, 1, 2})] /\ Queued' = Queued - Len(lanes[l]) + Len(s)
            /\ lanes'[l] = s /\ \A m \in Lane \ {l} : lanes'[m] = lanes[m]
        BY <1>a, <2>2, <3>1, <3>2, OneLane
      <4>2. Len(s) = Len(lanes[l]) + 1 /\ Len(lanes[l]) \in Nat /\ Len(s) \in Nat
        BY <3>1
      <4>3. Queued' = Queued + 1
        <5>1. \A q, m, n \in Nat : n = m + 1 => q - m + n = q + 1
          OBVIOUS
        <5> QED
          BY <1>b, <4>1, <4>2, <5>1
      <4> QED
        BY <4>1, <4>3
    <3>4. FragmentOK'
      <4> SUFFICES ASSUME NEW m \in Lane, NEW i \in 1 .. Len(lanes'[m]), lanes'[m][i] = 0
                   PROVE  m = fragment /\ i = 1
        BY <2>1 DEF FragmentOK
      <4>1. CASE m = l
        <5>1. i \in 1 .. Len(lanes[l])
          BY <3>1, <3>3, <4>1
        <5> QED
          BY <1>a, <2>2, <3>1, <3>3, <4>1, <5>1 DEF FragmentOK
      <4>2. CASE m # l
        BY <1>a, <3>3, <4>2 DEF FragmentOK
      <4> QED
        BY <4>1, <4>2
    <3>5. fragment # NoFragment => lanes'[fragment] # <<>> /\ lanes'[fragment][1] < 2
      <4> SUFFICES ASSUME fragment # NoFragment
                   PROVE  lanes'[fragment] # <<>> /\ lanes'[fragment][1] < 2
        OBVIOUS
      <4>1. CASE fragment = l
        <5>1. 1 \in 1 .. Len(lanes[l])
          BY <1>a, <3>0, <4>1
        <5> QED
          BY <1>a, <3>1, <3>3, <4>1, <5>1
      <4>2. CASE fragment # l
        BY <1>a, <3>3, <4>2
      <4> QED
        BY <4>1, <4>2
    <3> QED
      BY <1>a, <1>b, <2>1, <2>2, <2>4, <3>3, <3>4, <3>5 DEF TxInv, TxTypeOK
  <2> QED
    BY <2>3, <2>4
<1>3. CASE PrepareNext
  <2> DEFINE l == Choice
             s == [lanes[l] EXCEPT ![1] = @ - 1]
  <2>1. /\ fragment = NoFragment /\ Queued > 0 /\ fragment' = l
        /\ lanes' = [lanes EXCEPT ![l] = s]
        /\ UNCHANGED <<reserved, inbox, faulted>>
    BY <1>3 DEF PrepareNext
  <2>2. l \in Lane /\ lanes[l] # <<>> /\ lanes[l] \in Seq({0, 1, 2})
    BY <1>a, <2>1, QueuedNat
  <2> HIDE DEF l
  <2>3. lanes[l][1] \in {1, 2}
    <3>1. 1 \in 1 .. Len(lanes[l]) /\ lanes[l][1] \in {0, 1, 2}
      BY <2>2
    <3>2. lanes[l][1] = 0 => l = NoFragment
      BY <1>a, <2>1, <2>2, <3>1 DEF FragmentOK
    <3> QED
      BY <2>2, <3>1, <3>2 DEF Lane, NoFragment
  <2>4. /\ s \in Seq({0, 1, 2}) /\ Len(s) = Len(lanes[l]) /\ s # <<>>
        /\ s[1] < 2 /\ \A i \in 1 .. Len(lanes[l]) : i # 1 => s[i] = lanes[l][i]
    <3>1. lanes[l][1] - 1 \in {0, 1}
      BY <2>3
    <3>2. 1 \in 1 .. Len(lanes[l]) /\ Len(lanes[l]) \in Nat
      BY <2>2
    <3> QED
      BY <2>2, <3>1, <3>2
  <2> HIDE DEF s
  <2>5. /\ lanes' \in [Lane -> Seq({0, 1, 2})] /\ Queued' = Queued
        /\ lanes'[l] = s /\ \A m \in Lane \ {l} : lanes'[m] = lanes[m]
    <3>1. Len(lanes[l]) \in Nat
      BY <2>2
    <3>2. /\ lanes' \in [Lane -> Seq({0, 1, 2})] /\ Queued' = Queued - Len(lanes[l]) + Len(s)
          /\ lanes'[l] = s /\ \A m \in Lane \ {l} : lanes'[m] = lanes[m]
      BY <1>a, <2>1, <2>2, <2>4, OneLane
    <3> QED
      BY <1>b, <2>4, <3>1, <3>2
  <2>6. FragmentOK'
    <3> SUFFICES ASSUME NEW m \in Lane, NEW i \in 1 .. Len(lanes'[m]), lanes'[m][i] = 0
                 PROVE  m = l /\ i = 1
      BY <2>1 DEF FragmentOK
    <3>1. CASE m = l /\ i # 1
      BY <1>a, <2>1, <2>2, <2>4, <2>5, <3>1 DEF FragmentOK
    <3>2. CASE m # l
      BY <1>a, <2>1, <2>5, <3>2 DEF FragmentOK, Lane, NoFragment
    <3> QED
      BY <3>1, <3>2
  <2>7. ~faulted
    BY <1>a, <2>1, <1>b, QueuedNat
  <2> QED
    BY <1>a, <1>b, <2>1, <2>2, <2>4, <2>5, <2>6, <2>7 DEF TxInv, TxTypeOK
<1>4. CASE ConfirmPending
  <2> DEFINE l == fragment
             s == Tail(lanes[l])
  <2>1. /\ fragment # NoFragment /\ fragment' = NoFragment
        /\ UNCHANGED <<inbox, faulted>>
        /\ \/ /\ lanes[l][1] = 0 /\ lanes' = [lanes EXCEPT ![l] = s]
              /\ reserved' = reserved - 1
           \/ lanes[l][1] # 0 /\ UNCHANGED <<lanes, reserved>>
    BY <1>4 DEF ConfirmPending
  <2>2. l \in Lane /\ lanes[l] # <<>> /\ lanes[l] \in Seq({0, 1, 2})
    BY <1>a, <2>1
  <2>3. CASE lanes[l][1] = 0
    <3>1. /\ s \in Seq({0, 1, 2}) /\ Len(s) = Len(lanes[l]) - 1
          /\ Len(lanes[l]) \in Nat /\ Len(lanes[l]) > 0
          /\ \A i \in 1 .. Len(s) : s[i] = lanes[l][i + 1] /\ i + 1 \in 1 .. Len(lanes[l])
      BY <2>2
    <3>2. lanes' = [lanes EXCEPT ![l] = s] /\ reserved' = reserved - 1
      BY <2>1, <2>3
    <3> HIDE DEF s
    <3>3. /\ lanes' \in [Lane -> Seq({0, 1, 2})] /\ Queued' = Queued - 1
          /\ lanes'[l] = s /\ \A m \in Lane \ {l} : lanes'[m] = lanes[m]
      <4>1. /\ lanes' \in [Lane -> Seq({0, 1, 2})] /\ Queued' = Queued - Len(lanes[l]) + Len(s)
            /\ lanes'[l] = s /\ \A m \in Lane \ {l} : lanes'[m] = lanes[m]
        BY <1>a, <2>2, <3>1, <3>2, OneLane
      <4> QED
        BY <1>b, <3>1, <4>1
    <3>4. FragmentOK'
      <4> SUFFICES ASSUME NEW m \in Lane, NEW i \in 1 .. Len(lanes'[m]), lanes'[m][i] = 0
                   PROVE  FALSE
        BY DEF FragmentOK
      <4>1. CASE m = l
        <5>1. lanes[l][i + 1] = 0 /\ i + 1 \in 1 .. Len(lanes[l]) /\ i + 1 # 1
          BY <3>1, <3>3, <4>1
        <5> QED
          BY <1>a, <2>2, <5>1 DEF FragmentOK
      <4>2. CASE m # l
        BY <1>a, <3>3, <4>2 DEF FragmentOK
      <4> QED
        BY <4>1, <4>2
    <3>5. Len(lanes[l]) <= Queued
      BY <1>a, <2>2, QueuedNat
    <3>6. ~faulted
      BY <1>a, <2>2, EmptyLanes
    <3> QED
      BY <1>a, <1>b, <2>1, <3>1, <3>2, <3>3, <3>4, <3>5, <3>6 DEF TxInv, TxTypeOK
  <2>4. CASE lanes[l][1] # 0
    <3>1. FragmentOK'
      BY <1>a, <2>1, <2>4 DEF FragmentOK
    <3> QED
      BY <1>a, <1>b, <1>c, <2>1, <2>4, <3>1 DEF TxInv, TxTypeOK
  <2> QED
    BY <2>3, <2>4
<1>5. CASE FaultTx \/ FreshConnection
  BY <1>5, ClearKeeps DEF FaultTx, FreshConnection
<1>6. CASE UNCHANGED txVars
  BY <1>6 DEF TxInv, TxTypeOK, FragmentOK, txVars, Queued
<1> QED
  BY <1>1, <1>2, <1>3, <1>4, <1>5, <1>6 DEF TxNext

\* The scheduler's steps keep the shape of the lanes and of what is pending.
LEMMA TxHolds == TxInit /\ [][TxNext]_txVars => []TxInv
<1>1. TxInit => TxInv
  <2> SUFFICES ASSUME TxInit PROVE TxInv
    OBVIOUS
  <2>1. /\ lanes \in [Lane -> Seq({0, 1, 2})] /\ Queued = 0 /\ FragmentOK
    <3>1. lanes \in [Lane -> Seq({0, 1, 2})] /\ \A l \in Lane : lanes[l] = <<>>
      BY EmptyLanes DEF TxInit
    <3> QED
      BY <3>1 DEF Queued, FragmentOK, Lane
  <2> QED
    BY <2>1, BleTxAssumption DEF TxInit, TxInv, TxTypeOK
<1>2. TxInv /\ [TxNext]_txVars => TxInv'
  BY TxStep
<1> QED
  BY <1>1, <1>2, PTL

\* Every reservation is held by a message that is still queued, whatever is
\* dropped with a stream that was given up, and the pending fragment is the front
\* of its lane.
THEOREM TxTypeCorrect == TxSpec => []TxTypeOK
<1>1. TxInv => TxTypeOK
  BY DEF TxInv
<1> QED
  BY <1>1, TxHolds, PTL DEF TxSpec


-----------------------------------------------------------------------------
(* The pitch bridge.                                                       *)

PitchState ==
    [held : SUBSET Key, pending : [Class -> Intent], next : Nat \ {0}, room : SUBSET Class,
     settings : {0, 1}, confirmed : Config \cup {None}, target : Config \cup {None},
     revision : Nat, shadow : SUBSET Class]

Fenced(s) == (\E c \in Class : s.pending[c].source = "board") => s.target = None

\* Tokens are older than the next one, and an edit of the board fences it.
PitchesOK(s) ==
    /\ s \in PitchState
    /\ \A c \in Class : s.pending[c].token < s.next
    /\ Fenced(s)

HostOK ==
    /\ pressed \subseteq Key
    /\ inputs \in [release : Seq(Key), note : Seq(Key)]
    /\ draining => inputs.note # <<>>
    /\ outputs \in [release : Seq(Class), note : Seq(Class)]
    /\ Len(outputs.release) <= OutCapacity /\ Len(outputs.note) <= OutCapacity

CommandType ==
    [type : {"edit", "turn", "run"}, token : Nat, edits : SUBSET (Class \X BOOLEAN),
     settings : {0, 1, 2}]
        \cup [type : {"leave", "join"}]

EventType ==
    [type : {"set"}, set : SUBSET Class]
        \cup [type : {"settings"}, settings : {0, 1}]
        \cup [type : {"outcome"}, token : Nat, ok : BOOLEAN]
        \cup {Link}

Decided == [type : {"edit", "turn", "run"}, token : Nat, ok : BOOLEAN]

NativeState ==
    [active : BOOLEAN, set : SUBSET Class, settings : {0, 1}, sentSet : SUBSET Class,
     sentSettings : {0, 1}, repaired : BOOLEAN]

Commands(q) == q \in Seq(CommandType) /\ Len(q) <= CommandCapacity

RoomOK ==
    /\ Commands(commands)
    /\ events \in Seq(EventType) /\ Len(events) <= EventCapacity
    /\ admitted \in Seq(Decided)
    /\ native \in NativeState

FrameType == [type : {"snapshot", "config", "run"}, config : Config, revision : Nat]

BoardOK ==
    /\ board \in [up : BOOLEAN, config : Config, revision : Nat]
    /\ downlink \in Seq(Config)
    /\ uplink \in Seq(FrameType)

BridgeInv == PitchesOK(pitches) /\ HostOK /\ RoomOK /\ BoardOK

\* The body of IntentEndsForCause.
Caused ==
    \A c \in Class :
        pitches.pending[c] # NoIntent /\ pitches'.pending[c] = NoIntent =>
           \/ /\ events # <<>> /\ Head(events).type = "set"
              /\ (c \in Head(events).set) = pitches.pending[c].active
           \/ /\ events # <<>> /\ Head(events).type = "outcome"
              /\ Head(events).token = pitches.pending[c].token
           \/ pitches.pending[c].token <= abandoned
           \/ events # <<>> /\ Head(events) = Link
           \/ ~board'.up /\ pitches.pending[c].source = "board"

(***************************************************************************)
(* The operations of BridgePitchState.                                     *)
(***************************************************************************)

\* No intent is the intent of no source.
LEMMA IntentFacts ==
    /\ NoIntent \in Intent /\ NoIntent.source = "none" /\ NoIntent.token = 0
    /\ \A i \in Intent : /\ i.token \in Nat /\ i.source \in {"none", "host", "board"}
                         /\ i = NoIntent <=> i.source = "none"
                         /\ i.active \in BOOLEAN
<1>1. NoIntent \in Intent /\ NoIntent.source = "none" /\ NoIntent.token = 0
  BY DEF Intent, NoIntent
<1>2. ASSUME NEW i \in Intent, i # NoIntent
      PROVE  i.token \in Nat /\ i.source \in {"host", "board"} /\ i.active \in BOOLEAN
  BY <1>2 DEF Intent
<1>3. NoIntent.active \in BOOLEAN
  BY DEF NoIntent
<1> QED
  BY <1>1, <1>2, <1>3

\* What a board is to show is a configuration.
LEMMA ConfigFacts == None \notin Config /\ \A s \in PitchState : BoardConfig(s) \in Config
BY DEF Config, None, PitchState, BoardConfig

\* A proposal gives its classes an intent of the next token and ends none.
LEMMA TrackOK ==
    ASSUME NEW s, PitchesOK(s), NEW source \in {"host", "board"},
           NEW edits \in SUBSET (Class \X BOOLEAN), source = "board" => s.target = None
    PROVE  /\ PitchesOK(Track(s, s.next, source, edits))
           /\ \A c \in Class : s.pending[c] # NoIntent =>
                 Track(s, s.next, source, edits).pending[c] # NoIntent
<1> DEFINE new == [c \in Class |->
                      IF \E e \in edits : e[1] = c
                      THEN [active |-> <<c, TRUE>> \in edits, token |-> s.next, source |-> source]
                      ELSE s.pending[c]]
           t == Track(s, s.next, source, edits)
<1>1. s \in PitchState /\ s.pending \in [Class -> Intent] /\ s.next \in Nat \ {0}
  BY DEF PitchesOK, PitchState
<1>2. t = [s EXCEPT !.next = s.next + 1, !.pending = new]
  BY DEF Track
<1>3. \A c \in Class :
         \/ new[c] = s.pending[c]
         \/ /\ new[c] \in Intent /\ new[c] # NoIntent
            /\ new[c].token = s.next /\ new[c].source = source
  <2> SUFFICES ASSUME NEW c \in Class, \E e \in edits : e[1] = c
               PROVE  /\ new[c] \in Intent /\ new[c] # NoIntent
                      /\ new[c].token = s.next /\ new[c].source = source
    OBVIOUS
  <2>1. (<<c, TRUE>> \in edits) \in BOOLEAN
    OBVIOUS
  <2>2. new[c] = [active |-> <<c, TRUE>> \in edits, token |-> s.next, source |-> source]
    OBVIOUS
  <2> QED
    BY <1>1, <2>1, <2>2 DEF Intent, NoIntent
<1>4. new \in [Class -> Intent]
  BY <1>1, <1>3
<1> HIDE DEF new
<1>5. t \in PitchState /\ t.pending = new /\ t.next = s.next + 1 /\ t.target = s.target
  <2> DEFINE r == [s EXCEPT !.next = s.next + 1]
  <2>1. r \in PitchState /\ r.next = s.next + 1 /\ r.target = s.target
    BY <1>1 DEF PitchState
  <2>2. t = [r EXCEPT !.pending = new]
    BY <1>2
  <2> HIDE DEF r, t
  <2> QED
    BY <1>4, <2>1, <2>2 DEF PitchState
<1> HIDE DEF t
<1>6. \A c \in Class : t.pending[c].token < t.next
  <2> SUFFICES ASSUME NEW c \in Class PROVE new[c].token < s.next + 1
    BY <1>5
  <2>1. s.pending[c].token < s.next /\ s.pending[c].token \in Nat
    BY <1>1, IntentFacts DEF PitchesOK
  <2> QED
    BY <1>1, <1>3, <2>1
<1>7. Fenced(t)
  <2> SUFFICES ASSUME NEW c \in Class, new[c].source = "board" PROVE s.target = None
    BY <1>5 DEF Fenced
  <2> QED
    BY <1>3 DEF PitchesOK, Fenced
<1>8. \A c \in Class : s.pending[c] # NoIntent => t.pending[c] # NoIntent
  BY <1>3, <1>5
<1> QED
  BY <1>5, <1>6, <1>7, <1>8 DEF PitchesOK, t

\* Abandoning ends the intents it names and no other.
LEMMA AbandonOK ==
    ASSUME NEW s, PitchesOK(s), NEW lost
    PROVE  /\ PitchesOK(Abandon(s, lost))
           /\ Abandon(s, lost).room = s.room
           /\ \A c \in Class : c \notin lost => Abandon(s, lost).pending[c] = s.pending[c]
           /\ \A c \in Class : c \in lost => Abandon(s, lost).pending[c] = NoIntent
<1> DEFINE new == [c \in Class |-> IF c \in lost THEN NoIntent ELSE s.pending[c]]
           t == Abandon(s, lost)
<1>1. s \in PitchState /\ s.pending \in [Class -> Intent] /\ s.next \in Nat \ {0}
  BY DEF PitchesOK, PitchState
<1>2. t = [s EXCEPT !.pending = new]
  BY DEF Abandon
<1>3. new \in [Class -> Intent]
  BY <1>1, IntentFacts
<1>4. \A c \in Class : new[c] = s.pending[c] \/ new[c] = NoIntent
  OBVIOUS
<1>5. \A c \in Class : /\ c \notin lost => new[c] = s.pending[c]
                       /\ c \in lost => new[c] = NoIntent
  OBVIOUS
<1> HIDE DEF new
<1>6. t \in PitchState /\ t.pending = new /\ t.next = s.next /\ t.target = s.target
          /\ t.room = s.room
  BY <1>1, <1>2, <1>3 DEF PitchState
<1>7. \A c \in Class : t.pending[c].token < t.next
  BY <1>1, <1>4, <1>6, IntentFacts DEF PitchesOK
<1>8. Fenced(t)
  BY <1>4, <1>6, IntentFacts DEF PitchesOK, Fenced
<1> QED
  BY <1>5, <1>6, <1>7, <1>8 DEF PitchesOK

\* Staging keeps intents and room, and aims at the board only if it is not fenced.
LEMMA StageOK ==
    ASSUME NEW s \in PitchState, \A c \in Class : s.pending[c].token < s.next
    PROVE  /\ PitchesOK(Stage(s))
           /\ Stage(s).room = s.room /\ Stage(s).pending = s.pending
<1> DEFINE cleared == [s EXCEPT !.target = None]
           due == [s EXCEPT !.target = BoardConfig(s)]
<1>1. cleared \in PitchState /\ cleared.target = None /\ cleared.pending = s.pending
          /\ cleared.next = s.next /\ cleared.room = s.room
  BY DEF PitchState
<1>2. due \in PitchState /\ due.pending = s.pending /\ due.next = s.next /\ due.room = s.room
  BY ConfigFacts DEF PitchState
<1>3. s.pending \in [Class -> Intent]
  BY DEF PitchState
<1>4. Pending(s) = {} => \A c \in Class : s.pending[c].source = "none"
  BY <1>3, IntentFacts DEF Pending
<1>5. \/ Stage(s) = cleared
      \/ Pending(s) = {} /\ (Stage(s) = s \/ Stage(s) = due)
  BY DEF Stage
<1> HIDE DEF cleared, due
<1> QED
  BY <1>1, <1>2, <1>4, <1>5 DEF PitchesOK, Fenced

\* A set of the room ends the intents whose level it confirms.
LEMMA ConfirmOK ==
    ASSUME NEW s, PitchesOK(s), NEW set \in SUBSET Class
    PROVE  /\ PitchesOK(Confirm(s, set)) /\ Confirm(s, set).room = set
           /\ \A c \in Class : s.pending[c] # NoIntent /\ Confirm(s, set).pending[c] = NoIntent
                 => (c \in set) = s.pending[c].active
<1> DEFINE heard == [s EXCEPT !.room = set]
           new == [c \in Class |->
                      IF s.pending[c] # NoIntent /\ (c \in set) = s.pending[c].active
                      THEN NoIntent ELSE s.pending[c]]
           t == Confirm(s, set)
<1>1. s \in PitchState /\ s.pending \in [Class -> Intent] /\ s.next \in Nat \ {0}
  BY DEF PitchesOK, PitchState
<1>2. heard \in PitchState /\ heard.pending = s.pending /\ heard.next = s.next
          /\ heard.target = s.target /\ heard.room = set
  BY <1>1 DEF PitchState
<1>3. t = [heard EXCEPT !.pending = new]
  BY <1>2 DEF Confirm
<1>4. new \in [Class -> Intent]
  BY <1>1, IntentFacts
<1>5. \A c \in Class : new[c] = s.pending[c] \/ new[c] = NoIntent
  OBVIOUS
<1>6. \A c \in Class : s.pending[c] # NoIntent /\ new[c] = NoIntent
                          => (c \in set) = s.pending[c].active
  OBVIOUS
<1> HIDE DEF new, heard
<1>7. t \in PitchState /\ t.pending = new /\ t.next = s.next /\ t.target = s.target
          /\ t.room = set
  BY <1>2, <1>3, <1>4 DEF PitchState
<1>8. \A c \in Class : t.pending[c].token < t.next
  BY <1>1, <1>5, <1>7, IntentFacts DEF PitchesOK
<1>9. Fenced(t)
  BY <1>5, <1>7, IntentFacts DEF PitchesOK, Fenced
<1> QED
  BY <1>6, <1>7, <1>8, <1>9 DEF PitchesOK

(***************************************************************************)
(* The steps of the bridge.                                                *)
(***************************************************************************)

\* A step that ends no intent needs no cause.
LEMMA Uncaused ==
    ASSUME \A c \in Class : pitches.pending[c] # NoIntent => pitches'.pending[c] # NoIntent
    PROVE  Caused
BY DEF Caused

\* Fields that no intent depends on.
LEMMA FieldOK ==
    ASSUME NEW s, PitchesOK(s), NEW t \in PitchState,
           t.pending = s.pending, t.next = s.next, t.target \in {s.target, None}
    PROVE  PitchesOK(t)
BY DEF PitchesOK, Fenced

\* The keys that are held matter to no intent.
LEMMA HeldOK ==
    ASSUME NEW s, PitchesOK(s), NEW h \in SUBSET Key
    PROVE  /\ PitchesOK([s EXCEPT !.held = h])
           /\ [s EXCEPT !.held = h].pending = s.pending
<1> DEFINE t == [s EXCEPT !.held = h]
<1>1. t \in PitchState /\ t.pending = s.pending /\ t.next = s.next /\ t.target = s.target
  BY DEF PitchesOK, PitchState
<1> HIDE DEF t
<1>2. PitchesOK(t)
  BY <1>1, FieldOK
<1> QED
  BY <1>1, <1>2 DEF t

\* A command is queued or refused.
LEMMA IssueOK ==
    ASSUME Commands(commands), NEW c \in CommandType, Issue(c)
    PROVE  Commands(commands')
<1>1. commands \in Seq(CommandType) /\ Len(commands) <= CommandCapacity /\ CommandCapacity \in Nat
  BY BridgeAssumption DEF Commands
<1>2. CASE HasRoom
  <2>1. commands' = Append(commands, c) /\ Len(commands) < CommandCapacity
    BY <1>2 DEF Issue, HasRoom
  <2>2. commands' \in Seq(CommandType) /\ Len(commands') = Len(commands) + 1
    BY <1>1, <2>1
  <2> QED
    BY <1>1, <2>1, <2>2 DEF Commands
<1>3. CASE ~HasRoom
  BY <1>3 DEF Issue
<1> QED
  BY <1>2, <1>3

\* The next token may be left unused.
LEMMA SkipOK ==
    ASSUME NEW s, PitchesOK(s)
    PROVE  /\ PitchesOK([s EXCEPT !.next = @ + 1])
           /\ [s EXCEPT !.next = @ + 1].pending = s.pending
<1> DEFINE t == [s EXCEPT !.next = @ + 1]
<1>1. s \in PitchState /\ s.next \in Nat /\ s.pending \in [Class -> Intent]
  BY DEF PitchesOK, PitchState
<1>2. /\ t \in PitchState /\ t.pending = s.pending /\ t.target = s.target
      /\ t.next = s.next + 1
  BY <1>1 DEF PitchState
<1> HIDE DEF t
<1>3. \A c \in Class : t.pending[c].token < t.next
  <2> SUFFICES ASSUME NEW c \in Class PROVE s.pending[c].token < s.next + 1
    BY <1>2
  <2>1. s.pending[c].token < s.next /\ s.pending[c].token \in Nat
    BY <1>1, IntentFacts DEF PitchesOK
  <2> QED
    BY <1>1, <2>1
<1>4. PitchesOK(t)
  BY <1>2, <1>3 DEF PitchesOK, Fenced
<1> QED
  BY <1>2, <1>4 DEF t

\* A key that is proposed is a command of the room, or only uses a token.
LEMMA ProposeOK ==
    ASSUME BridgeInv, NEW s, PitchesOK(s), s.pending = pitches.pending,
           NEW c \in Class, NEW level \in BOOLEAN, Propose(s, c, level)
    PROVE  PitchesOK(pitches') /\ Commands(commands') /\ Caused
<1> DEFINE command == [type |-> "edit", token |-> s.next, edits |-> {<<c, level>>},
                       settings |-> 2]
<1>1. {<<c, level>>} \in SUBSET (Class \X BOOLEAN)
  OBVIOUS
<1>2. s.next \in Nat
  BY DEF PitchesOK, PitchState
<1>3. command \in CommandType
  BY <1>1, <1>2 DEF CommandType
<1>4. /\ Issue(command)
      /\ \/ pitches' = Track(s, s.next, "host", {<<c, level>>})
         \/ pitches' = [s EXCEPT !.next = @ + 1]
  BY DEF Propose
<1>5. Commands(commands)
  BY DEF BridgeInv, RoomOK
<1> HIDE DEF command
<1>6. Commands(commands')
  BY <1>3, <1>4, <1>5, IssueOK
<1>7. /\ PitchesOK(pitches')
      /\ \A d \in Class : s.pending[d] # NoIntent => pitches'.pending[d] # NoIntent
  <2>1. CASE pitches' = Track(s, s.next, "host", {<<c, level>>})
    BY <1>1, <2>1, TrackOK
  <2>2. CASE pitches' = [s EXCEPT !.next = @ + 1]
    <3>1. PitchesOK([s EXCEPT !.next = @ + 1]) /\ [s EXCEPT !.next = @ + 1].pending = s.pending
      BY SkipOK
    <3> QED
      BY <2>2, <3>1
  <2> QED
    BY <1>4, <2>1, <2>2
<1> QED
  BY <1>6, <1>7, Uncaused

\* A group whose variables a step leaves alone.
LEMMA SameHost ==
    ASSUME HostOK, UNCHANGED <<pressed, inputs, draining, outputs>> PROVE HostOK'
BY DEF HostOK

\* The room's part.
LEMMA SameRoom ==
    ASSUME RoomOK, UNCHANGED <<commands, events, admitted, native>> PROVE RoomOK'
BY DEF RoomOK

\* The board's part.
LEMMA SameBoard ==
    ASSUME BoardOK, UNCHANGED <<board, downlink, uplink>> PROVE BoardOK'
BY DEF BoardOK

\* Steps of the host alone.
LEMMA KeysOK ==
    ASSUME HostOK,
           \/ \E k \in Key : PressKey(k) \/ ReleaseKey(k)
           \/ SetPolicy \/ TurnToNotes \/ HostReceives
    PROVE  HostOK'
<1>a. /\ pressed \subseteq Key /\ inputs \in [release : Seq(Key), note : Seq(Key)]
      /\ draining => inputs.note # <<>>
      /\ outputs \in [release : Seq(Class), note : Seq(Class)]
      /\ Len(outputs.release) <= OutCapacity /\ Len(outputs.note) <= OutCapacity
      /\ OutCapacity \in Nat
  BY BridgeAssumption DEF HostOK
<1>1. ASSUME NEW k \in Key, PressKey(k) PROVE HostOK'
  <2>1. Append(inputs.note, k) \in Seq(Key) /\ Append(inputs.note, k) # <<>>
    <3>1. inputs.note \in Seq(Key)
      BY <1>a
    <3> QED
      BY <3>1
  <2>2. inputs' \in [release : Seq(Key), note : Seq(Key)] /\ inputs'.note # <<>>
    BY <1>1, <1>a, <2>1 DEF PressKey
  <2> QED
    BY <1>1, <1>a, <2>2 DEF PressKey, HostOK
<1>2. ASSUME NEW k \in Key, ReleaseKey(k) PROVE HostOK'
  <2>1. Append(inputs.release, k) \in Seq(Key)
    BY <1>a
  <2>2. inputs' \in [release : Seq(Key), note : Seq(Key)] /\ inputs'.note = inputs.note
    BY <1>2, <1>a, <2>1 DEF ReleaseKey
  <2> QED
    BY <1>2, <1>a, <2>2 DEF ReleaseKey, HostOK
<1>3. CASE SetPolicy
  BY <1>3, <1>a DEF SetPolicy, HostOK
<1>4. CASE TurnToNotes
  BY <1>4, <1>a DEF TurnToNotes, HostOK, hostVars
<1>5. CASE HostReceives
  <2> DEFINE r == [outputs EXCEPT !.release = Tail(@)]
             n == [outputs EXCEPT !.note = Tail(@)]
  <2>0. UNCHANGED <<pressed, inputs, draining>>
    BY <1>5 DEF HostReceives
  <2>1. CASE outputs.release # <<>> /\ outputs' = r
    <3>1. Tail(outputs.release) \in Seq(Class) /\ Len(Tail(outputs.release)) <= OutCapacity
      <4>1. outputs.release \in Seq(Class) /\ Len(outputs.release) <= OutCapacity
        BY <1>a
      <4> QED
        BY <1>a, <2>1, <4>1
    <3>2. /\ outputs' \in [release : Seq(Class), note : Seq(Class)]
          /\ outputs'.release = Tail(outputs.release) /\ outputs'.note = outputs.note
      BY <1>a, <2>1, <3>1
    <3> QED
      BY <1>a, <2>0, <3>1, <3>2 DEF HostOK
  <2>2. CASE outputs.note # <<>> /\ outputs' = n
    <3>1. Tail(outputs.note) \in Seq(Class) /\ Len(Tail(outputs.note)) <= OutCapacity
      <4>1. outputs.note \in Seq(Class) /\ Len(outputs.note) <= OutCapacity
        BY <1>a
      <4> QED
        BY <1>a, <2>2, <4>1
    <3>2. /\ outputs' \in [release : Seq(Class), note : Seq(Class)]
          /\ outputs'.note = Tail(outputs.note) /\ outputs'.release = outputs.release
      BY <1>a, <2>2, <3>1
    <3> QED
      BY <1>a, <2>0, <3>1, <3>2 DEF HostOK
  <2> QED
    BY <1>5, <2>1, <2>2 DEF HostReceives
<1> QED
  BY <1>1, <1>2, <1>3, <1>4, <1>5

\* More than one element leaves some.
LEMMA TailLeft ==
    ASSUME NEW S, NEW seq \in Seq(S), seq # <<>>, Len(seq) > 1
    PROVE  Tail(seq) # <<>>
<1>1. Len(Tail(seq)) = Len(seq) - 1 /\ Len(seq) \in Nat
  OBVIOUS
<1>2. Len(<<>>) = 0
  OBVIOUS
<1>3. Len(seq) - 1 # 0
  BY <1>1
<1> QED
  BY <1>1, <1>2, <1>3

\* Keys are taken into proposals, and an intent they end has its cause.
LEMMA TakesOK ==
    ASSUME BridgeInv, TakeRelease \/ TakeNote
    PROVE  BridgeInv' /\ Caused
<1>a. /\ PitchesOK(pitches) /\ RoomOK /\ BoardOK /\ Commands(commands)
      /\ pressed \subseteq Key /\ inputs \in [release : Seq(Key), note : Seq(Key)]
      /\ draining => inputs.note # <<>>
      /\ outputs \in [release : Seq(Class), note : Seq(Class)]
      /\ Len(outputs.release) <= OutCapacity /\ Len(outputs.note) <= OutCapacity
      /\ pitches.held \in SUBSET Key
  BY DEF BridgeInv, HostOK, RoomOK, PitchesOK, PitchState
<1>b. \A c \in Class : Optimistic(c) \in BOOLEAN
  <2>1. pitches.pending \in [Class -> Intent]
    BY <1>a DEF PitchesOK, PitchState
  <2> SUFFICES ASSUME NEW c \in Class PROVE Optimistic(c) \in BOOLEAN
    OBVIOUS
  <2>2. pitches.pending[c].active \in BOOLEAN
    BY <2>1, IntentFacts
  <2>3. (c \in pitches.room) \in BOOLEAN
    OBVIOUS
  <2> QED
    BY <2>2, <2>3 DEF Optimistic
<1>c. ClassOf \in [Key -> Class]
  BY BridgeAssumption
<1>1. CASE TakeRelease
  <2> DEFINE k == Head(inputs.release)
             up == [pitches EXCEPT !.held = pitches.held \ {k}]
  <2>1. /\ inputs.release # <<>> /\ ~draining
        /\ inputs' = [inputs EXCEPT !.release = Tail(@)]
        /\ UNCHANGED <<pressed, outputs, draining, events, admitted, native, board, downlink, uplink>>
    BY <1>1 DEF TakeRelease, hostVars, roomVars, boardVars
  <2>2. k \in Key /\ Tail(inputs.release) \in Seq(Key)
    BY <1>a, <2>1
  <2>3. HostOK'
    <3>1. inputs' \in [release : Seq(Key), note : Seq(Key)] /\ inputs'.note = inputs.note
      BY <1>a, <2>1, <2>2
    <3> QED
      BY <1>a, <2>1, <3>1 DEF HostOK
  <2>4. ClassOf[k] \in Class
    BY <1>c, <2>2
  <2>5. \/ Keep(pitches) \/ Keep(up) \/ Propose(up, ClassOf[k], FALSE)
    BY <1>1 DEF TakeRelease
  <2>6. PitchesOK(up) /\ up.pending = pitches.pending
    BY <1>a, HeldOK
  <2> HIDE DEF up, k
  <2>7. PitchesOK(pitches') /\ Commands(commands') /\ Caused
    <3>1. CASE Keep(pitches) \/ Keep(up)
      BY <1>a, <2>6, <3>1, Uncaused DEF Keep
    <3>2. CASE Propose(up, ClassOf[k], FALSE)
      BY <3>2, <2>4, <2>6, ProposeOK
    <3> QED
      BY <2>5, <3>1, <3>2
  <2>8. RoomOK' /\ BoardOK'
    BY <1>a, <2>1, <2>7 DEF RoomOK, BoardOK
  <2> QED
    BY <2>3, <2>7, <2>8 DEF BridgeInv
<1>2. CASE TakeNote
  <2> DEFINE k == Head(inputs.note)
             down == [pitches EXCEPT !.held = pitches.held \cup {k}]
             level == ~Optimistic(ClassOf[k])
  <2>1. /\ draining /\ draining' = (Len(inputs.note) > 1)
        /\ inputs' = [inputs EXCEPT !.note = Tail(@)]
        /\ UNCHANGED <<pressed, outputs, events, admitted, native, board, downlink, uplink>>
    BY <1>2 DEF TakeNote, hostVars, roomVars, boardVars
  <2>2. /\ k \in Key /\ Tail(inputs.note) \in Seq(Key)
        /\ Len(inputs.note) > 1 => Tail(inputs.note) # <<>>
    <3>1. inputs.note \in Seq(Key) /\ inputs.note # <<>>
      BY <1>a, <2>1
    <3>2. k \in Key /\ Tail(inputs.note) \in Seq(Key)
      BY <3>1
    <3>3. Len(inputs.note) > 1 => Tail(inputs.note) # <<>>
      BY <3>1, TailLeft
    <3> QED
      BY <3>2, <3>3
  <2>3. HostOK'
    <3>1. /\ inputs' \in [release : Seq(Key), note : Seq(Key)]
          /\ inputs'.note = Tail(inputs.note)
      BY <1>a, <2>1, <2>2
    <3> QED
      BY <1>a, <2>1, <2>2, <3>1 DEF HostOK
  <2>4. ClassOf[k] \in Class /\ level \in BOOLEAN
    BY <1>c, <2>2
  <2>5. \/ Keep(pitches) \/ Keep(down) \/ Propose(down, ClassOf[k], level)
    BY <1>2 DEF TakeNote
  <2>6. PitchesOK(down) /\ down.pending = pitches.pending
    BY <1>a, <2>2, HeldOK
  <2> HIDE DEF down, k, level
  <2>7. PitchesOK(pitches') /\ Commands(commands') /\ Caused
    <3>1. CASE Keep(pitches) \/ Keep(down)
      BY <1>a, <2>6, <3>1, Uncaused DEF Keep
    <3>2. CASE Propose(down, ClassOf[k], level)
      BY <3>2, <2>4, <2>6, ProposeOK
    <3> QED
      BY <2>5, <3>1, <3>2
  <2>8. RoomOK' /\ BoardOK'
    BY <1>a, <2>1, <2>7 DEF RoomOK, BoardOK
  <2> QED
    BY <2>3, <2>7, <2>8 DEF BridgeInv
<1> QED
  BY <1>1, <1>2

\* Sounding what the room holds keeps the capacities of the outputs.
LEMMA ReconcileOK ==
    ASSUME BridgeInv, Reconcile
    PROVE  BridgeInv' /\ Caused
<1>a. /\ PitchesOK(pitches) /\ RoomOK /\ BoardOK /\ HostOK
      /\ outputs \in [release : Seq(Class), note : Seq(Class)]
      /\ Len(outputs.release) <= OutCapacity /\ Len(outputs.note) <= OutCapacity
      /\ OutCapacity \in Nat
  BY BridgeAssumption DEF BridgeInv, HostOK
<1>b. /\ pitches \in PitchState /\ pitches.shadow \in SUBSET Class
      /\ pitches.room \in SUBSET Class
  BY <1>a DEF PitchesOK, PitchState
<1>c. RoomOK' /\ BoardOK' /\ UNCHANGED <<pressed, inputs, draining>>
  <2>1. UNCHANGED <<pressed, inputs, draining, commands, roomVars, boardVars>>
    BY DEF Reconcile
  <2> QED
    BY <1>a, <2>1, SameRoom, SameBoard DEF roomVars, boardVars
<1>d. \A sh \in SUBSET Class :
         /\ [pitches EXCEPT !.shadow = sh] \in PitchState
         /\ [pitches EXCEPT !.shadow = sh].pending = pitches.pending
         /\ [pitches EXCEPT !.shadow = sh].next = pitches.next
         /\ [pitches EXCEPT !.shadow = sh].target = pitches.target
  BY <1>b DEF PitchState
<1>e. \A sh \in SUBSET Class :
         pitches' = [pitches EXCEPT !.shadow = sh] => PitchesOK(pitches') /\ Caused
  <2> SUFFICES ASSUME NEW sh \in SUBSET Class, pitches' = [pitches EXCEPT !.shadow = sh]
               PROVE  PitchesOK(pitches') /\ Caused
    OBVIOUS
  <2>1. /\ pitches' \in PitchState /\ pitches'.pending = pitches.pending
        /\ pitches'.next = pitches.next /\ pitches'.target = pitches.target
    BY <1>d
  <2> QED
    BY <1>a, <2>1, FieldOK, Uncaused
<1>1. ASSUME NEW c \in pitches.shadow \ Goal, Len(outputs.release) < OutCapacity,
             outputs' = [outputs EXCEPT !.release = Append(@, c)],
             pitches' = [pitches EXCEPT !.shadow = pitches.shadow \ {c}]
      PROVE  BridgeInv' /\ Caused
  <2>1. /\ Append(outputs.release, c) \in Seq(Class)
        /\ Len(Append(outputs.release, c)) <= OutCapacity
    BY <1>a, <1>b, <1>1
  <2>2. HostOK'
    BY <1>a, <1>c, <1>1, <2>1 DEF HostOK
  <2>3. pitches.shadow \ {c} \in SUBSET Class
    BY <1>b
  <2> QED
    BY <1>c, <1>e, <1>1, <2>2, <2>3 DEF BridgeInv
<1>2. ASSUME NEW c \in Goal \ pitches.shadow, Len(outputs.note) < OutCapacity,
             outputs' = [outputs EXCEPT !.note = Append(@, c)],
             pitches' = [pitches EXCEPT !.shadow = pitches.shadow \cup {c}]
      PROVE  BridgeInv' /\ Caused
  <2>0. c \in Class
    BY <1>b, <1>2 DEF Goal
  <2>1. /\ Append(outputs.note, c) \in Seq(Class)
        /\ Len(Append(outputs.note, c)) <= OutCapacity
    BY <1>a, <2>0, <1>2
  <2>2. HostOK'
    BY <1>a, <1>c, <1>2, <2>1 DEF HostOK
  <2>3. pitches.shadow \cup {c} \in SUBSET Class
    BY <1>b, <2>0
  <2> QED
    BY <1>c, <1>e, <1>2, <2>2, <2>3 DEF BridgeInv
<1> QED
  BY <1>1, <1>2 DEF Reconcile

\* EventSink::send keeps the bound of the queue.
LEMMA SendOK ==
    ASSUME RoomOK, NEW new \in Seq(EventType), Send(new)
    PROVE  events' \in Seq(EventType) /\ Len(events') <= EventCapacity
<1> DEFINE space == EventCapacity - Len(events)
           n == IF space < Len(new) THEN space ELSE Len(new)
<1>1. /\ events \in Seq(EventType) /\ Len(events) <= EventCapacity
      /\ EventCapacity \in Nat /\ Len(events) \in Nat /\ Len(new) \in Nat
  BY BridgeAssumption DEF RoomOK
<1>2. n \in Nat /\ n <= Len(new) /\ Len(events) + n <= EventCapacity
  BY <1>1
<1>3. events' = events \o SubSeq(new, 1, n)
  BY DEF Send
<1> HIDE DEF n
<1>4. SubSeq(new, 1, n) \in Seq(EventType) /\ Len(SubSeq(new, 1, n)) = n
  <2>1. \A i \in 1 .. n : i \in 1 .. Len(new)
    BY <1>1, <1>2
  <2> QED
    BY <1>1, <1>2, <2>1
<1>5. /\ events \o SubSeq(new, 1, n) \in Seq(EventType)
      /\ Len(events \o SubSeq(new, 1, n)) = Len(events) + n
  BY <1>1, <1>4
<1> QED
  BY <1>2, <1>3, <1>5

\* The events of the native room have the shape the worker reads.
LEMMA EventsTyped ==
    /\ \A set \in SUBSET Class : SetEvent(set) \in EventType
    /\ \A s \in {0, 1} : SettingsEvent(s) \in EventType
    /\ Link \in EventType
    /\ \A token \in Nat, ok \in BOOLEAN : Fate(token, ok) \in EventType
<1>1. \A set \in SUBSET Class : SetEvent(set) \in EventType
  BY DEF SetEvent, EventType
<1>2. \A s \in {0, 1} : SettingsEvent(s) \in EventType
  BY DEF SettingsEvent, EventType
<1>3. Link \in EventType
  BY DEF EventType
<1>4. \A token \in Nat, ok \in BOOLEAN : Fate(token, ok) \in EventType
  BY DEF Fate, EventType
<1> QED
  BY <1>1, <1>2, <1>3, <1>4

\* What the driver has to say of its Replica, and what it remembers of it.
LEMMA NewsOK ==
    ASSUME native \in NativeState
    PROVE  /\ SetNews \in Seq(EventType) /\ SettingsNews \in Seq(EventType)
           /\ Forwarded \in NativeState
           /\ [Forwarded EXCEPT !.repaired = FALSE] \in NativeState
           /\ [native EXCEPT !.sentSet = native.set] \in NativeState
           /\ [native EXCEPT !.sentSettings = native.settings] \in NativeState
<1> DEFINE a == [native EXCEPT !.sentSet = native.set]
           b == [a EXCEPT !.sentSettings = native.settings]
           c == [b EXCEPT !.repaired = FALSE]
<1>1. native.set \in SUBSET Class /\ native.settings \in {0, 1}
  BY DEF NativeState
<1>2. SetNews \in Seq(EventType) /\ SettingsNews \in Seq(EventType)
  <2>1. SetEvent(native.set) \in EventType /\ SettingsEvent(native.settings) \in EventType
    BY <1>1, EventsTyped
  <2> QED
    BY <2>1 DEF SetNews, SettingsNews
<1>3. a \in NativeState /\ [native EXCEPT !.sentSettings = native.settings] \in NativeState
  BY <1>1 DEF NativeState
<1> HIDE DEF a
<1>4. b \in NativeState
  BY <1>1, <1>3 DEF NativeState
<1> HIDE DEF b
<1>5. c \in NativeState
  BY <1>4 DEF NativeState
<1>6. Forwarded = b
  BY DEF Forwarded, a, b
<1> QED
  BY <1>2, <1>3, <1>4, <1>5, <1>6 DEF a

\* Of a sequence of commands the first is taken.
LEMMA TakeCommand ==
    ASSUME Commands(commands), commands # <<>>, commands' = Tail(commands)
    PROVE  Head(commands) \in CommandType /\ Commands(commands')
<1>1. commands \in Seq(CommandType) /\ Len(commands) <= CommandCapacity /\ CommandCapacity \in Nat
  BY BridgeAssumption DEF Commands
<1>2. /\ Head(commands) \in CommandType /\ Tail(commands) \in Seq(CommandType)
      /\ Len(Tail(commands)) = Len(commands) - 1
  BY <1>1
<1>3. Len(Tail(commands)) <= CommandCapacity
  BY <1>1, <1>2
<1> QED
  BY <1>2, <1>3 DEF Commands

\* Steps of the native room and of the user who selects a room.
LEMMA RoomStepsOK ==
    ASSUME RoomOK, Commanded \/ RemoteEdit \/ PublishRepair \/ PeerFrame \/ SelectRoom
    PROVE  RoomOK'
<1>a. /\ Commands(commands) /\ native \in NativeState /\ admitted \in Seq(Decided)
      /\ events \in Seq(EventType) /\ Len(events) <= EventCapacity
  BY DEF RoomOK
<1>1. CASE Admit
  <2> DEFINE command == Head(commands)
  <2>1. /\ commands # <<>> /\ command.type \in {"edit", "turn", "run"}
        /\ commands' = Tail(commands) /\ UNCHANGED events
    BY <1>1 DEF Admit
  <2>2. Commands(commands') /\ command \in CommandType
    BY <1>a, <2>1, TakeCommand
  <2>3. command.token \in Nat /\ command.settings \in {0, 1, 2}
    BY <2>1, <2>2 DEF CommandType
  <2>4. \A ok \in BOOLEAN :
           <<[type |-> command.type, token |-> command.token, ok |-> ok]>> \in Seq(Decided)
    <3> SUFFICES ASSUME NEW ok \in BOOLEAN
                 PROVE  <<[type |-> command.type, token |-> command.token, ok |-> ok]>>
                            \in Seq(Decided)
      OBVIOUS
    <3>1. [type |-> command.type, token |-> command.token, ok |-> ok] \in Decided
      BY <2>1, <2>3 DEF Decided
    <3> QED
      BY <3>1
  <2>5. /\ \E ok \in BOOLEAN :
              admitted' = <<[type |-> command.type, token |-> command.token, ok |-> ok]>>
        /\ \/ UNCHANGED native
           \/ \E done : \E s \in {command.settings, native.settings} \ {2} :
                 native' = [native EXCEPT !.set = Apply(native.set, done), !.settings = s]
    <3>0. native.settings \in {0, 1}
      BY <1>a DEF NativeState
    <3>1. ASSUME NEW done, NEW settled \in BOOLEAN, NEW ok \in BOOLEAN,
                 admitted' = <<[type |-> command.type, token |-> command.token, ok |-> ok]>>,
                 native' = [native EXCEPT
                    !.set = Apply(@, done),
                    !.settings = IF settled /\ command.settings # 2 THEN command.settings ELSE @]
          PROVE  /\ \E o \in BOOLEAN :
                       admitted' = <<[type |-> command.type, token |-> command.token, ok |-> o]>>
                 /\ \E s \in {command.settings, native.settings} \ {2} :
                       native' = [native EXCEPT !.set = Apply(native.set, done), !.settings = s]
      <4> DEFINE s == IF settled /\ command.settings # 2 THEN command.settings ELSE native.settings
      <4>1. s \in {command.settings, native.settings} \ {2}
        BY <3>0
      <4>2. native' = [native EXCEPT !.set = Apply(native.set, done), !.settings = s]
        BY <3>1
      <4> HIDE DEF s
      <4> QED
        BY <3>1, <4>1, <4>2
    <3>2. \/ /\ admitted' = <<[type |-> command.type, token |-> command.token, ok |-> FALSE]>>
             /\ UNCHANGED native
          \/ /\ admitted' = <<[type |-> command.type, token |-> command.token, ok |-> TRUE]>>
             /\ native' = [native EXCEPT
                    !.set = Apply(@, command.edits),
                    !.settings = IF TRUE /\ command.settings # 2 THEN command.settings ELSE @]
          \/ /\ admitted' = <<[type |-> command.type, token |-> command.token, ok |-> FALSE]>>
             /\ \E done \in SUBSET command.edits : \E settled \in BOOLEAN :
                   native' = [native EXCEPT
                    !.set = Apply(@, done),
                    !.settings = IF settled /\ command.settings # 2 THEN command.settings ELSE @]
      BY <1>1 DEF Admit, Admission, command
    <3> QED
      BY <3>1, <3>2
  <2>6. ASSUME NEW done, NEW s \in {command.settings, native.settings} \ {2},
               native' = [native EXCEPT !.set = Apply(native.set, done), !.settings = s]
        PROVE  native' \in NativeState
    <3> DEFINE a == [native EXCEPT !.set = Apply(native.set, done)]
    <3>1. Apply(native.set, done) \in SUBSET Class
      BY DEF Apply
    <3>2. a \in NativeState
      BY <1>a, <3>1 DEF NativeState
    <3>3. s \in {0, 1}
      BY <1>a, <2>3 DEF NativeState
    <3>4. native' = [a EXCEPT !.settings = s]
      BY <2>6
    <3> HIDE DEF a
    <3> QED
      BY <3>2, <3>3, <3>4 DEF NativeState
  <2>7. admitted' \in Seq(Decided) /\ native' \in NativeState
    BY <1>a, <2>4, <2>5, <2>6
  <2> QED
    BY <1>a, <2>1, <2>2, <2>7 DEF RoomOK
<1>2. CASE Publish
  <2> DEFINE done == admitted[1]
             fate == Fate(done.token, done.ok)
  <2>1. /\ admitted # <<>> /\ UNCHANGED commands /\ admitted' = <<>>
        /\ \/ /\ Send(<<fate>>) \/ Send(<<>>)
              /\ UNCHANGED native
           \/ /\ Send(SetNews \o <<fate>>)
              /\ native' = [native EXCEPT !.sentSet = native.set]
           \/ Send(SetNews \o SettingsNews \o <<fate>>) /\ native' = Forwarded
           \/ Send(SettingsNews) /\ native' = [native EXCEPT !.sentSettings = native.settings]
    <3>1. done \in Decided
      BY <1>a, <1>2 DEF Publish
    <3>2. done.type \in {"edit", "turn", "run"} /\ done.ok \in BOOLEAN
      BY <3>1 DEF Decided
    <3>3. native.active \in BOOLEAN
      BY <1>a DEF NativeState
    <3> HIDE DEF fate
    <3>4. /\ admitted # <<>> /\ UNCHANGED commands /\ admitted' = <<>>
          /\ ~native.active => /\ Send(IF done.type = "run" THEN <<>> ELSE <<fate>>)
                               /\ UNCHANGED native
          /\ native.active /\ done.type = "edit" =>
                /\ Send(SetNews \o <<fate>>)
                /\ native' = [native EXCEPT !.sentSet = native.set]
          /\ native.active /\ done.type = "turn" =>
                Send(SetNews \o SettingsNews \o <<fate>>) /\ native' = Forwarded
          /\ native.active /\ done.type = "run" =>
                /\ Send(IF done.ok THEN SettingsNews ELSE <<>>)
                /\ native' = IF done.ok THEN [native EXCEPT !.sentSettings = native.settings]
                             ELSE native
      <4> HIDE DEF done
      <4> QED
        BY <1>2, <3>2, <3>3 DEF Publish, done, fate
    <3> HIDE DEF done
    <3>5. CASE ~native.active
      BY <3>4, <3>5
    <3>6. CASE native.active /\ done.type = "run"
      <4>1. CASE done.ok
        BY <3>4, <3>6, <4>1
      <4>2. CASE ~done.ok
        BY <3>4, <3>6, <4>2
      <4> QED
        BY <4>1, <4>2
    <3> QED
      BY <3>2, <3>3, <3>4, <3>5, <3>6
  <2>2. fate \in EventType
    <3>1. done \in Decided
      BY <1>a, <2>1
    <3> QED
      BY <3>1, EventsTyped DEF Decided
  <2> HIDE DEF fate, done
  <2>3. /\ <<>> \in Seq(EventType) /\ <<fate>> \in Seq(EventType)
        /\ SettingsNews \in Seq(EventType) /\ SetNews \o <<fate>> \in Seq(EventType)
        /\ SetNews \o SettingsNews \o <<fate>> \in Seq(EventType)
    <3>1. SetNews \in Seq(EventType) /\ SettingsNews \in Seq(EventType)
      BY <1>a, NewsOK
    <3>2. <<>> \in Seq(EventType) /\ <<fate>> \in Seq(EventType)
      BY <2>2
    <3>3. SetNews \o SettingsNews \in Seq(EventType)
      BY <3>1
    <3> QED
      BY <3>1, <3>2, <3>3
  <2>4. events' \in Seq(EventType) /\ Len(events') <= EventCapacity
    BY <2>1, <2>3, SendOK
  <2>5. native' \in NativeState
    BY <1>a, <2>1, NewsOK
  <2>6. admitted' \in Seq(Decided)
    BY <2>1
  <2> QED
    BY <1>a, <2>1, <2>4, <2>5, <2>6 DEF RoomOK
<1>3. CASE ChangeRoom
  <2> DEFINE opening == <<SettingsEvent(0), SetEvent({}), Link>>
             joins == Head(commands).type = "join"
             told == <<SetEvent({}), Link>> \o IF joins THEN opening ELSE <<>>
  <2>1. /\ commands # <<>> /\ commands' = Tail(commands) /\ Send(told) /\ UNCHANGED admitted
        /\ native' = [active |-> joins, set |-> {}, settings |-> 0,
                      sentSet |-> {}, sentSettings |-> 0, repaired |-> FALSE]
    BY <1>3 DEF ChangeRoom
  <2>2. Commands(commands')
    BY <1>a, <2>1, TakeCommand
  <2>3. told \in Seq(EventType)
    <3>1. SettingsEvent(0) \in EventType /\ SetEvent({}) \in EventType /\ Link \in EventType
      BY EventsTyped
    <3>2. opening \in Seq(EventType) /\ <<SetEvent({}), Link>> \in Seq(EventType)
              /\ <<>> \in Seq(EventType)
      BY <3>1
    <3> HIDE DEF opening
    <3> QED
      BY <3>2
  <2> HIDE DEF told
  <2>4. events' \in Seq(EventType) /\ Len(events') <= EventCapacity
    BY <2>1, <2>3, SendOK
  <2>5. native' \in NativeState
    <3>1. joins \in BOOLEAN
      OBVIOUS
    <3> HIDE DEF joins
    <3> QED
      BY <2>1, <3>1 DEF NativeState
  <2> QED
    BY <1>a, <2>1, <2>2, <2>4, <2>5 DEF RoomOK
<1>4. CASE RemoteEdit
  <2>1. ASSUME NEW c \in Class,
               native' = [native EXCEPT !.set = IF c \in @ THEN @ \ {c} ELSE @ \cup {c},
                                        !.repaired = TRUE]
        PROVE  native' \in NativeState
    <3> DEFINE set == IF c \in native.set THEN native.set \ {c} ELSE native.set \cup {c}
               a == [native EXCEPT !.set = set]
    <3>1. a \in NativeState
      BY <1>a DEF NativeState
    <3>2. native' = [a EXCEPT !.repaired = TRUE]
      BY <2>1
    <3> HIDE DEF a
    <3> QED
      BY <3>1, <3>2 DEF NativeState
  <2>2. ASSUME native' = [native EXCEPT !.settings = 1 - @, !.repaired = TRUE]
        PROVE  native' \in NativeState
    <3> DEFINE a == [native EXCEPT !.settings = 1 - native.settings]
    <3>1. 1 - native.settings \in {0, 1}
      BY <1>a DEF NativeState
    <3>2. a \in NativeState
      BY <1>a, <3>1 DEF NativeState
    <3>3. native' = [a EXCEPT !.repaired = TRUE]
      BY <2>2
    <3> HIDE DEF a
    <3> QED
      BY <3>2, <3>3 DEF NativeState
  <2>3. UNCHANGED <<commands, events, admitted>> /\ native' \in NativeState
    BY <1>4, <2>1, <2>2 DEF RemoteEdit
  <2> QED
    BY <1>a, <2>3 DEF RoomOK
<1>5. CASE PublishRepair \/ PeerFrame
  <2>0. /\ SetNews \in Seq(EventType) /\ SettingsNews \in Seq(EventType)
        /\ \A s \in {0, 1} : <<SettingsEvent(s)>> \in Seq(EventType)
    BY <1>a, NewsOK, EventsTyped
  <2>1. ASSUME NEW told \in Seq(EventType), Send(told)
        PROVE  events' \in Seq(EventType) /\ Len(events') <= EventCapacity
    BY <2>1, SendOK
  <2>2. CASE PublishRepair
    <3>1. SettingsNews \o SetNews \in Seq(EventType)
      BY <2>0
    <3> QED
      BY <2>1, <2>2, <3>1, <1>a, NewsOK DEF PublishRepair, RoomOK
  <2>3. CASE PeerFrame
    <3>1. PICK s \in {0, 1} : Send(<<SettingsEvent(s)>> \o SettingsNews \o SetNews)
      BY <2>3 DEF PeerFrame
    <3>2. <<SettingsEvent(s)>> \o SettingsNews \in Seq(EventType)
      BY <2>0
    <3>3. <<SettingsEvent(s)>> \o SettingsNews \o SetNews \in Seq(EventType)
      BY <2>0, <3>2
    <3> QED
      BY <2>1, <2>3, <3>1, <3>3, <1>a, NewsOK DEF PeerFrame, RoomOK
  <2> QED
    BY <1>5, <2>2, <2>3
<1>6. CASE SelectRoom
  <2>1. PICK type \in {"leave", "join"} : Issue([type |-> type])
    BY <1>6 DEF SelectRoom
  <2>2. [type |-> type] \in CommandType
    BY DEF CommandType
  <2>3. Commands(commands')
    BY <1>a, <2>1, <2>2, IssueOK
  <2>4. UNCHANGED <<events, admitted, native>>
    BY <1>6 DEF SelectRoom, roomVars
  <2> QED
    BY <1>a, <2>3, <2>4 DEF RoomOK
<1> QED
  BY <1>1, <1>2, <1>3, <1>4, <1>5, <1>6 DEF Commanded

\* Events of the room: an intent ends by its own fate, by the level it asked for,
\* or with the room.
LEMMA PollsOK ==
    ASSUME BridgeInv, PollsRoom
    PROVE  PitchesOK(pitches') /\ RoomOK' /\ Caused
<1>a. /\ PitchesOK(pitches) /\ events \in Seq(EventType) /\ Len(events) <= EventCapacity
      /\ EventCapacity \in Nat /\ pitches \in PitchState
      /\ Commands(commands) /\ native \in NativeState /\ admitted \in Seq(Decided)
      /\ \A c \in Class : pitches.pending[c].token < pitches.next
  BY BridgeAssumption DEF BridgeInv, RoomOK, PitchesOK
<1> DEFINE e == Head(events)
<1>b. ASSUME NEW type, Poll(type)
      PROVE  RoomOK' /\ e \in EventType /\ e.type = type /\ events # <<>>
  <2>1. /\ events # <<>> /\ e.type = type /\ events' = Tail(events)
        /\ UNCHANGED <<commands, admitted, native>>
    BY <1>b DEF Poll
  <2>2. e \in EventType /\ events' \in Seq(EventType) /\ Len(events') <= EventCapacity
    BY <1>a, <2>1
  <2> QED
    BY <1>a, <2>1, <2>2 DEF RoomOK
<1> HIDE DEF e
<1>1. CASE HearSet
  <2> DEFINE heard == Confirm(pitches, e.set)
  <2>1. Poll("set") /\ (pitches' = heard \/ pitches' = Stage(heard))
    BY <1>1 DEF HearSet, e
  <2>2. e.set \in SUBSET Class /\ RoomOK' /\ events # <<>> /\ e.type = "set"
    BY <1>b, <2>1 DEF EventType, Link
  <2>3. /\ PitchesOK(heard) /\ heard.room = e.set
        /\ \A c \in Class : pitches.pending[c] # NoIntent /\ heard.pending[c] = NoIntent
              => (c \in e.set) = pitches.pending[c].active
    BY <1>a, <2>2, ConfirmOK
  <2> HIDE DEF heard
  <2>4. PitchesOK(pitches') /\ pitches'.room = e.set /\ pitches'.pending = heard.pending
    BY <2>1, <2>3, StageOK DEF PitchesOK
  <2>5. Caused
    BY <2>2, <2>3, <2>4 DEF Caused, e
  <2> QED
    BY <2>2, <2>4, <2>5
<1>2. CASE HearSettings
  <2> DEFINE s == [pitches EXCEPT !.settings = e.settings]
  <2>1. Poll("settings") /\ pitches' = Stage(s)
    BY <1>2 DEF HearSettings, e
  <2>2. e.settings \in {0, 1} /\ RoomOK'
    BY <1>b, <2>1 DEF EventType, Link
  <2>3. s \in PitchState /\ s.pending = pitches.pending /\ s.next = pitches.next
    BY <1>a, <2>2 DEF PitchState
  <2> HIDE DEF s
  <2>4. PitchesOK(pitches') /\ pitches'.pending = pitches.pending
    BY <1>a, <2>1, <2>3, StageOK
  <2> QED
    BY <2>2, <2>4, Uncaused
<1>3. CASE HearRoomLink
  <2> DEFINE r == Abandon(pitches, Class)
             s == [r EXCEPT !.target = None]
  <2>1. Poll("link") /\ pitches' = Stage(s)
    BY <1>3 DEF HearRoomLink
  <2>2. e = Link /\ events # <<>> /\ RoomOK'
    BY <1>b, <2>1 DEF EventType, Link
  <2>3. PitchesOK(r)
    BY <1>a, AbandonOK
  <2> HIDE DEF r
  <2>4. s \in PitchState /\ s.pending = r.pending /\ s.next = r.next
    BY <2>3 DEF PitchesOK, PitchState
  <2> HIDE DEF s
  <2>5. \A c \in Class : s.pending[c].token < s.next
    BY <2>3, <2>4 DEF PitchesOK
  <2>6. PitchesOK(pitches')
    BY <2>1, <2>4, <2>5, StageOK
  <2>7. Caused
    BY <2>2 DEF Caused, e
  <2> QED
    BY <2>2, <2>6, <2>7
<1>4. CASE HearOutcome
  <2> DEFINE rejected == {c \in Class : pitches.pending[c].token = e.token}
             r == Abandon(pitches, rejected)
  <2>1. Poll("outcome") /\ (pitches' = pitches \/ pitches' = Stage(r))
    BY <1>4 DEF HearOutcome, e
  <2>2. RoomOK' /\ events # <<>> /\ e.type = "outcome"
    BY <1>b, <2>1
  <2>3. PitchesOK(r) /\ \A c \in Class : c \notin rejected => r.pending[c] = pitches.pending[c]
    BY <1>a, AbandonOK
  <2> HIDE DEF r
  <2>4. PitchesOK(pitches') /\ (pitches' = pitches \/ pitches'.pending = r.pending)
    BY <1>a, <2>1, <2>3, StageOK DEF PitchesOK
  <2>5. Caused
    BY <2>2, <2>3, <2>4 DEF Caused, e
  <2> QED
    BY <2>2, <2>4, <2>5
<1>5. CASE HearReset
  <2> DEFINE lost == {c \in Class : pitches.pending[c].token <= abandoned}
             r == Abandon(pitches, lost)
  <2>1. pitches' = Stage(r) /\ UNCHANGED <<commands, events, admitted, native>>
    BY <1>5 DEF HearReset
  <2>2. RoomOK'
    BY <1>a, <2>1 DEF RoomOK
  <2>3. PitchesOK(r) /\ \A c \in Class : c \notin lost => r.pending[c] = pitches.pending[c]
    BY <1>a, AbandonOK
  <2> HIDE DEF r
  <2>4. PitchesOK(pitches') /\ pitches'.pending = r.pending
    BY <2>1, <2>3, StageOK DEF PitchesOK
  <2>5. Caused
    BY <2>3, <2>4 DEF Caused
  <2> QED
    BY <2>2, <2>4, <2>5
<1> QED
  BY <1>1, <1>2, <1>3, <1>4, <1>5 DEF PollsRoom

\* The board and its frames.
LEMMA BoardStepsOK ==
    ASSUME BridgeInv,
           BoardUp \/ BoardDown \/ BoardApplies \/ SendTarget
              \/ (\E config \in Config : TurnKnob(config)) \/ PressRun
    PROVE  PitchesOK(pitches') /\ BoardOK' /\ Caused
<1>a. /\ PitchesOK(pitches) /\ pitches \in PitchState
      /\ board \in [up : BOOLEAN, config : Config, revision : Nat]
      /\ downlink \in Seq(Config) /\ uplink \in Seq(FrameType)
      /\ \A c \in Class : pitches.pending[c].token < pitches.next
  BY DEF BridgeInv, BoardOK, PitchesOK
<1>1. CASE BoardUp
  <2> DEFINE a == [pitches EXCEPT !.confirmed = None]
             s == [a EXCEPT !.revision = 0]
  <2>1. pitches' = Stage(s) /\ board' = [board EXCEPT !.up = TRUE] /\ UNCHANGED <<downlink, uplink>>
    BY <1>1 DEF BoardUp
  <2>2. a \in PitchState /\ a.pending = pitches.pending /\ a.next = pitches.next
    BY <1>a DEF PitchState
  <2> HIDE DEF a
  <2>3. s \in PitchState /\ s.pending = pitches.pending /\ s.next = pitches.next
    BY <2>2 DEF PitchState
  <2> HIDE DEF s
  <2>4. PitchesOK(pitches') /\ pitches'.pending = pitches.pending
    BY <1>a, <2>1, <2>3, StageOK
  <2>5. BoardOK'
    BY <1>a, <2>1 DEF BoardOK
  <2> QED
    BY <2>4, <2>5, Uncaused
<1>2. CASE BoardDown
  <2> DEFINE lost == {c \in Class : pitches.pending[c].source = "board"}
             r == Abandon(pitches, lost)
             a == [r EXCEPT !.target = None]
             b == [a EXCEPT !.confirmed = None]
             s == [b EXCEPT !.revision = 0]
  <2>1. /\ pitches' = s
        /\ board' = [board EXCEPT !.up = FALSE, !.revision = 0]
        /\ downlink' = <<>> /\ uplink' = <<>>
    BY <1>2 DEF BoardDown
  <2>2. PitchesOK(r) /\ \A c \in Class : c \notin lost => r.pending[c] = pitches.pending[c]
    BY <1>a, AbandonOK
  <2> HIDE DEF r
  <2>3. a \in PitchState /\ a.pending = r.pending /\ a.next = r.next /\ a.target = None
    BY <2>2 DEF PitchesOK, PitchState
  <2> HIDE DEF a
  <2>4. b \in PitchState /\ b.pending = r.pending /\ b.next = r.next /\ b.target = None
    BY <2>3 DEF PitchState
  <2> HIDE DEF b
  <2>5. s \in PitchState /\ s.pending = r.pending /\ s.next = r.next /\ s.target = None
    BY <2>4 DEF PitchState
  <2> HIDE DEF s
  <2>6. PitchesOK(pitches')
    BY <2>1, <2>2, <2>5, FieldOK
  <2>7. BoardOK' /\ ~board'.up
    <3> DEFINE d == [board EXCEPT !.up = FALSE]
    <3>1. d \in [up : BOOLEAN, config : Config, revision : Nat] /\ ~d.up
      BY <1>a
    <3>2. board' = [d EXCEPT !.revision = 0]
      BY <2>1
    <3> HIDE DEF d
    <3>3. board' \in [up : BOOLEAN, config : Config, revision : Nat] /\ ~board'.up
      BY <3>1, <3>2
    <3>4. downlink' \in Seq(Config) /\ uplink' \in Seq(FrameType)
      BY <2>1
    <3> QED
      BY <3>3, <3>4 DEF BoardOK
  <2>8. Caused
    BY <2>1, <2>2, <2>5, <2>7 DEF Caused
  <2> QED
    BY <2>6, <2>7, <2>8
<1>3. CASE BoardApplies
  <2> DEFINE config == Head(downlink)
             frame == [type |-> "snapshot", config |-> config, revision |-> board.revision + 1]
             b == [board EXCEPT !.config = config]
  <2>1. /\ downlink # <<>> /\ downlink' = Tail(downlink) /\ uplink' = Append(uplink, frame)
        /\ board' = [b EXCEPT !.revision = board.revision + 1] /\ UNCHANGED pitches
    BY <1>3 DEF BoardApplies
  <2>2. config \in Config /\ downlink' \in Seq(Config)
    BY <1>a, <2>1
  <2> HIDE DEF config
  <2>3. frame \in FrameType
    BY <1>a, <2>2 DEF FrameType
  <2>4. b \in [up : BOOLEAN, config : Config, revision : Nat]
    BY <1>a, <2>2
  <2> HIDE DEF frame, b
  <2>5. uplink' \in Seq(FrameType)
    BY <1>a, <2>1, <2>3
  <2>6. board' \in [up : BOOLEAN, config : Config, revision : Nat]
    <3>1. board.revision + 1 \in Nat
      BY <1>a
    <3> QED
      BY <2>1, <2>4, <3>1
  <2> QED
    BY <1>a, <2>1, <2>2, <2>5, <2>6, Uncaused DEF BoardOK
<1>4. CASE SendTarget
  <2>1. pitches.target \in Config
    BY <1>4, <1>a DEF SendTarget, PitchState
  <2>2. downlink' \in Seq(Config) /\ UNCHANGED <<pitches, board, uplink>>
    BY <1>4, <2>1 DEF SendTarget
  <2> QED
    BY <1>a, <2>2, Uncaused DEF BoardOK
<1>5. ASSUME NEW type \in {"config", "run"}, NEW config \in Config, Touch(type, config)
      PROVE  PitchesOK(pitches') /\ BoardOK' /\ Caused
  <2> DEFINE frame == [type |-> type, config |-> config, revision |-> 0]
  <2>1. /\ uplink' = Append(uplink, frame) /\ board' = [board EXCEPT !.config = config]
        /\ UNCHANGED <<pitches, downlink>>
    BY <1>5 DEF Touch
  <2>2. frame \in FrameType
    BY DEF FrameType
  <2> HIDE DEF frame
  <2>3. uplink' \in Seq(FrameType)
    BY <1>a, <2>1, <2>2
  <2> QED
    BY <1>a, <2>1, <2>3, Uncaused DEF BoardOK
<1>6. ASSUME NEW config \in Config, TurnKnob(config)
      PROVE  PitchesOK(pitches') /\ BoardOK' /\ Caused
  BY <1>5, <1>6 DEF TurnKnob
<1>7. CASE PressRun
  BY <1>a, <1>5, <1>7 DEF PressRun
<1> QED
  BY <1>1, <1>2, <1>3, <1>4, <1>6, <1>7

\* A configuration of the board is an edit and takes the target away; a snapshot
\* confirms the target or leaves it, and stages one only over a room without edits.
LEMMA FramesOK ==
    ASSUME BridgeInv, PollsBoard
    PROVE  PitchesOK(pitches') /\ Commands(commands') /\ BoardOK' /\ Caused
<1>a. /\ PitchesOK(pitches) /\ pitches \in PitchState /\ Commands(commands)
      /\ board \in [up : BOOLEAN, config : Config, revision : Nat]
      /\ downlink \in Seq(Config) /\ uplink \in Seq(FrameType)
      /\ \A c \in Class : pitches.pending[c].token < pitches.next
  BY DEF BridgeInv, RoomOK, BoardOK, PitchesOK
<1> DEFINE frame == Head(uplink)
<1>b. uplink # <<>> /\ uplink' = Tail(uplink) /\ UNCHANGED <<board, downlink>>
  BY DEF PollsBoard, HearConfig, HearSnapshot, Frame
<1>c. frame \in FrameType /\ BoardOK'
  BY <1>a, <1>b DEF BoardOK
<1>d. frame.config \in Config /\ frame.revision \in Nat
  BY <1>c DEF FrameType
<1>1. CASE HearConfig
  <2> DEFINE config == frame.config
             plan == Edits(config.pattern \ pitches.room, TRUE)
                        \cup Edits(pitches.room \ config.pattern, FALSE)
             settings == IF config.settings # pitches.settings THEN config.settings ELSE 2
             command == [type |-> "turn", token |-> pitches.next, edits |-> plan,
                         settings |-> settings]
             run == [type |-> "run", token |-> 0, edits |-> {},
                     settings |-> config.settings]
             a == [pitches EXCEPT !.confirmed = config]
             seen == [a EXCEPT !.target = None]
  <2>1. \/ /\ Issue(command)
           /\ \/ pitches' = Track(seen, pitches.next, "board", plan)
              \/ pitches' = [seen EXCEPT !.next = @ + 1]
        \/ UNCHANGED pitches /\ (Issue(run) \/ UNCHANGED commands)
    BY <1>1 DEF HearConfig
  <2>2. config.pattern \in SUBSET Class /\ config.settings \in {0, 1}
    BY <1>d DEF Config
  <2>3. plan \in SUBSET (Class \X BOOLEAN)
    <3>1. pitches.room \in SUBSET Class
      BY <1>a DEF PitchState
    <3>2. ASSUME NEW E \in SUBSET Class, NEW level \in BOOLEAN
          PROVE  Edits(E, level) \in SUBSET (Class \X BOOLEAN)
      <4>1. \A c \in E : <<c, level>> \in Class \X BOOLEAN
        OBVIOUS
      <4> QED
        BY <4>1 DEF Edits
    <3>3. config.pattern \ pitches.room \in SUBSET Class /\ pitches.room \ config.pattern \in SUBSET Class
      BY <2>2, <3>1
    <3> HIDE DEF config
    <3>4. /\ Edits(config.pattern \ pitches.room, TRUE) \in SUBSET (Class \X BOOLEAN)
          /\ Edits(pitches.room \ config.pattern, FALSE) \in SUBSET (Class \X BOOLEAN)
      BY <3>2, <3>3
    <3> QED
      BY <3>4
  <2>4. settings \in {0, 1, 2}
    BY <2>2
  <2> HIDE DEF plan, settings
  <2>5. command \in CommandType /\ run \in CommandType
    <3>1. pitches.next \in Nat
      BY <1>a DEF PitchState
    <3> QED
      BY <2>2, <2>3, <2>4, <3>1 DEF CommandType
  <2>6. a \in PitchState /\ a.pending = pitches.pending /\ a.next = pitches.next
    BY <1>a, <1>d DEF PitchState
  <2> HIDE DEF a
  <2>7. /\ seen \in PitchState /\ seen.pending = pitches.pending /\ seen.next = pitches.next
        /\ seen.target = None
    BY <2>6 DEF PitchState
  <2> HIDE DEF seen, command, run, config
  <2>8. CASE UNCHANGED pitches /\ (Issue(run) \/ UNCHANGED commands)
    <3>1. Commands(commands')
      BY <1>a, <2>5, <2>8, IssueOK
    <3> QED
      BY <1>a, <1>c, <2>8, <3>1, Uncaused
  <2>9. CASE /\ Issue(command)
             /\ \/ pitches' = Track(seen, pitches.next, "board", plan)
                \/ pitches' = [seen EXCEPT !.next = @ + 1]
    <3>1. PitchesOK(seen)
      BY <1>a, <2>7, FieldOK
    <3>2. /\ PitchesOK(pitches')
          /\ \A c \in Class : seen.pending[c] # NoIntent => pitches'.pending[c] # NoIntent
      <4>1. CASE pitches' = Track(seen, pitches.next, "board", plan)
        BY <2>3, <2>7, <3>1, <4>1, TrackOK
      <4>2. CASE pitches' = [seen EXCEPT !.next = @ + 1]
        <5>1. /\ PitchesOK([seen EXCEPT !.next = @ + 1])
              /\ [seen EXCEPT !.next = @ + 1].pending = seen.pending
          BY <3>1, SkipOK
        <5> QED
          BY <4>2, <5>1
      <4> QED
        BY <2>9, <4>1, <4>2
    <3>3. Commands(commands')
      BY <1>a, <2>5, <2>9, IssueOK
    <3> QED
      BY <1>c, <2>7, <3>2, <3>3, Uncaused
  <2> QED
    BY <2>1, <2>8, <2>9
<1>2. CASE HearSnapshot
  <2> DEFINE seen == [pitches EXCEPT !.revision = frame.revision]
             b == [seen EXCEPT !.confirmed = frame.config]
             a == [b EXCEPT !.target = None]
  <2>1. /\ UNCHANGED commands
        /\ \/ pitches' = pitches \/ pitches' = a \/ pitches' = seen \/ pitches' = Stage(b)
    BY <1>2 DEF HearSnapshot
  <2>2. /\ seen \in PitchState /\ seen.pending = pitches.pending /\ seen.next = pitches.next
        /\ seen.target = pitches.target
    BY <1>a, <1>d DEF PitchState
  <2> HIDE DEF seen
  <2>3. b \in PitchState /\ b.pending = pitches.pending /\ b.next = pitches.next
    BY <1>d, <2>2 DEF PitchState
  <2> HIDE DEF b
  <2>4. /\ a \in PitchState /\ a.pending = pitches.pending /\ a.next = pitches.next
        /\ a.target = None
    BY <2>3 DEF PitchState
  <2> HIDE DEF a
  <2>5. PitchesOK(Stage(b)) /\ Stage(b).pending = pitches.pending
    BY <1>a, <2>3, StageOK
  <2>6. PitchesOK(pitches') /\ pitches'.pending = pitches.pending
    BY <1>a, <2>1, <2>2, <2>4, <2>5, FieldOK
  <2> QED
    BY <1>a, <1>c, <2>1, <2>6, Uncaused
<1> QED
  BY <1>1, <1>2 DEF PollsBoard

\* BridgeInv is inductive, and every intent that ends has its cause.
LEMMA BridgeStep == BridgeInv /\ [BridgeNext]_bridgeVars => BridgeInv' /\ (Caused \/ UNCHANGED bridgeVars)
<1> SUFFICES ASSUME BridgeInv, [BridgeNext]_bridgeVars
             PROVE  BridgeInv' /\ (Caused \/ UNCHANGED bridgeVars)
  OBVIOUS
<1>a. PitchesOK(pitches) /\ HostOK /\ RoomOK /\ BoardOK
  BY DEF BridgeInv
<1>b. UNCHANGED pitches => PitchesOK(pitches') /\ Caused
  BY <1>a, Uncaused
<1>1. CASE TakeRelease \/ TakeNote
  BY <1>1, TakesOK
<1>2. CASE Reconcile
  BY <1>2, ReconcileOK
<1>3. CASE (\E k \in Key : PressKey(k) \/ ReleaseKey(k)) \/ SetPolicy \/ TurnToNotes \/ HostReceives
  <2>1. UNCHANGED <<pitches, commands, roomVars, boardVars>>
    BY <1>3 DEF PressKey, ReleaseKey, SetPolicy, TurnToNotes, HostReceives
  <2> QED
    BY <1>3, <1>a, <1>b, <2>1, KeysOK, SameRoom, SameBoard DEF BridgeInv, roomVars, boardVars
<1>4. CASE Commanded \/ RemoteEdit \/ PublishRepair \/ PeerFrame \/ SelectRoom
  <2>1. UNCHANGED <<hostVars, inputs, draining, pitches, boardVars>>
    BY <1>4 DEF Commanded, Admit, Publish, ChangeRoom, RemoteEdit, PublishRepair, PeerFrame,
                SelectRoom
  <2> QED
    BY <1>4, <1>a, <1>b, <2>1, RoomStepsOK, SameHost, SameBoard DEF BridgeInv, hostVars, boardVars
<1>5. CASE PollsRoom
  <2>1. UNCHANGED <<hostVars, inputs, draining, boardVars>>
    BY <1>5 DEF PollsRoom, HearSet, HearSettings, HearRoomLink, HearOutcome, HearReset, Poll
  <2> QED
    BY <1>5, <1>a, <2>1, PollsOK, SameHost, SameBoard DEF BridgeInv, hostVars, boardVars
<1>6. CASE BoardUp \/ BoardDown \/ BoardApplies \/ SendTarget
             \/ (\E config \in Config : TurnKnob(config)) \/ PressRun
  <2>1. UNCHANGED <<hostVars, inputs, draining, commands, roomVars>>
    BY <1>6 DEF BoardUp, BoardDown, BoardApplies, SendTarget, TurnKnob, PressRun, Touch
  <2> QED
    BY <1>6, <1>a, <2>1, BoardStepsOK, SameHost, SameRoom DEF BridgeInv, hostVars, roomVars
<1>7. CASE PollsBoard
  <2>1. UNCHANGED <<hostVars, inputs, draining, roomVars>>
    BY <1>7 DEF PollsBoard, HearConfig, HearSnapshot, Frame
  <2>2. RoomOK'
    BY <1>7, <1>a, <2>1, FramesOK DEF RoomOK, roomVars
  <2> QED
    BY <1>7, <1>a, <2>1, <2>2, FramesOK, SameHost DEF BridgeInv, hostVars
<1>8. CASE UNCHANGED bridgeVars
  BY <1>8, <1>a, <1>b, SameHost, SameRoom, SameBoard DEF BridgeInv, bridgeVars, boardVars
<1> QED
  BY <1>1, <1>2, <1>3, <1>4, <1>5, <1>6, <1>7, <1>8 DEF BridgeNext, BridgeHost, TakesInput

\* The inductive invariant of the pitch bridge: every queue carries what its
\* receiver expects, tokens are older than the next one, and an edit of the board
\* that is pending fences the board.
LEMMA BridgeHolds == BridgeInit /\ [][BridgeNext]_bridgeVars => []BridgeInv
<1>1. BridgeInit => BridgeInv
  <2> SUFFICES ASSUME BridgeInit PROVE BridgeInv
    OBVIOUS
  <2>1. pitches.pending = [c \in Class |-> NoIntent] /\ pitches.target = None /\ pitches.next = 1
    BY DEF BridgeInit
  <2>2. pitches \in PitchState
    <3>1. pitches.pending \in [Class -> Intent]
      BY <2>1, IntentFacts
    <3> QED
      BY <3>1 DEF BridgeInit, PitchState
  <2>3. PitchesOK(pitches)
    BY <2>1, <2>2, IntentFacts DEF PitchesOK, Fenced
  <2>4. HostOK
    BY BridgeAssumption DEF BridgeInit, HostOK
  <2>5. RoomOK
    BY BridgeAssumption DEF BridgeInit, RoomOK, Commands, NativeState
  <2>6. BoardOK
    BY DEF BridgeInit, BoardOK, Blank, Config
  <2> QED
    BY <2>3, <2>4, <2>5, <2>6 DEF BridgeInv
<1>2. BridgeInv /\ [BridgeNext]_bridgeVars => BridgeInv'
  BY BridgeStep
<1> QED
  BY <1>1, <1>2, PTL

\* The bridge keeps its inductive invariant.
THEOREM BridgeInvariant == BridgeSpec => []BridgeInv
BY BridgeHolds, PTL DEF BridgeSpec

\* What the invariant says includes the shape of the bridge.
LEMMA BridgeShape == BridgeInv => BridgeTypeOK
BY DEF BridgeInv, PitchesOK, PitchState, HostOK, RoomOK, Commands, BoardOK, BridgeTypeOK

\* The bridge's state has the shape of its structs, its queues keep their
\* capacities, and every pending token is older than the next one.
THEOREM BridgeTypeCorrect == BridgeSpec => []BridgeTypeOK
BY BridgeShape, BridgeInvariant, PTL

\* What the invariant says fences the board while an edit of its own is pending.
LEMMA BridgeFences == BridgeInv => NoRepaintOverEdit
BY DEF BridgeInv, PitchesOK, Fenced, NoRepaintOverEdit

\* While an edit made on the board is pending, the worker has no target for the
\* board: nothing the room, the host's keys or the board send in between makes
\* stage_board_target repaint it.
THEOREM BoardEditsAreFenced == BridgeSpec => []NoRepaintOverEdit
BY BridgeFences, BridgeInvariant, PTL

\* An intent ends when a projection shows its level, by its own rejection or a
\* reset that covers it, or with the room or the board it came from.
THEOREM IntentsEndForCause == BridgeSpec => IntentEndsForCause
<1>1. BridgeInv /\ [BridgeNext]_bridgeVars => [Caused]_bridgeVars
  BY BridgeStep
<1>2. BridgeSpec => [][Caused]_bridgeVars
  BY <1>1, BridgeInvariant, PTL DEF BridgeSpec
<1> QED
  BY <1>2 DEF IntentEndsForCause, Caused

=============================================================================
