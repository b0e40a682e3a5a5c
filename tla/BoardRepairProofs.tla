------------------------- MODULE BoardRepairProofs -------------------------
(***************************************************************************)
(* Proofs about how a board joins the room, for every number of rooms,     *)
(* sessions, switches, troubles and repeated attempts: the state keeps its *)
(* shape, and an attempt of a session that is gone never keeps a later     *)
(* session out, unless the full queue refused its abort.                   *)
(*                                                                         *)
(* Such an attempt could be in the way only if the start of the later      *)
(* session overtook the abort of the earlier one.  The room's queue never  *)
(* lets it: between the starts of two sessions stands the abort of the     *)
(* first (InOrder), because the composite lets go of a session only with   *)
(* an abort, and it is bound to none when the next one asks, because       *)
(* between two sessions that ask the link went down (Parted).  A session   *)
(* whose abort was refused joins the set spent.unended, and InOrder says   *)
(* nothing of it.                                                          *)
(***************************************************************************)
EXTENDS MCNative, NativeProofs

LinkNames == {"offline", "repairing", "ready", "failed"}

CommandTo(n) ==
    [type : {"prepare", "start", "observe", "confirm", "abort"}, binding : 1..n]
        \cup [type : {"join"}, room : 0..NumRooms]

RoomEventTo(n) ==
    [type : {"bundle", "unprepared", "outbound", "terminal", "failed", "synchronized"},
     binding : 1..n, room : 0..NumRooms]
        \cup [type : {"ready", "unready", "selected"}]

BleEventTo(n) ==
    [type : {"required", "provisioned", "inbound", "closed"}, binding : 1..n]
        \cup [type : {"link"}, link : LinkNames]

FrameDown == [type : {"bundle", "repair", "fin", "ack"}, room : 0..NumRooms]

FrameUp == [type : {"capable", "repair", "fin", "ack", "written"}, room : 0..NumRooms]

CompTo(n) == [ready : BOOLEAN, binding : 0..n, requested : 0..n]

RoomTo(n) ==
    [active : 0..NumRooms, attempt : [binding : 0..n, terminal : BOOLEAN],
     queue : Seq(CommandTo(n)), events : Seq(RoomEventTo(n))]

LegTo(n) ==
    [session : 0..n, link : LinkNames, pending : 0..NumRooms, close : (SUBSET Opened) \cup {NoClose},
     awaiting : BOOLEAN, deadline : BOOLEAN, events : Seq(BleEventTo(n)),
     down : Seq(FrameDown), up : Seq(FrameUp)]

IsStart(q, i) == q[i].type = "start"

IsAbort(q, i, b) == q[i].type = "abort" /\ q[i].binding = b

IsRequired(e, i) == e[i].type = "required"

IsDown(e, i) == e[i].type = "link" /\ e[i].link \notin {"ready", "repairing"}

\* The queue q of a room whose attempt is of session a, when the composite is
\* bound to c: the abort of a session stands before the start of the next, if the
\* session is none of u, whose aborts were refused.
InOrder(q, a, c, u) ==
    /\ \A i, j \in DOMAIN q :
          i < j /\ IsStart(q, i) /\ IsStart(q, j) /\ q[i].binding \notin {q[j].binding} \cup u =>
              \E k \in DOMAIN q : i < k /\ k < j /\ IsAbort(q, k, q[i].binding)
    /\ \A j \in DOMAIN q :
          a \notin {0} \cup u /\ IsStart(q, j) /\ q[j].binding # a =>
              \E k \in DOMAIN q : k < j /\ IsAbort(q, k, a)
    /\ \A i \in DOMAIN q :
          IsStart(q, i) /\ q[i].binding \notin {c} \cup u =>
              \E k \in DOMAIN q : i < k /\ IsAbort(q, k, q[i].binding)
    /\ a \notin {0, c} \cup u => \E k \in DOMAIN q : IsAbort(q, k, a)

\* The events e of a leg with session s, when the composite is bound to c: the
\* link goes down before another session asks to be provisioned.
Parted(e, c, s) ==
    /\ \A j \in DOMAIN e :
          c # 0 /\ IsRequired(e, j) => \E k \in DOMAIN e : k < j /\ IsDown(e, k)
    /\ \A i, j \in DOMAIN e :
          i < j /\ IsRequired(e, i) /\ IsRequired(e, j) =>
              \E k \in DOMAIN e : i < k /\ k < j /\ IsDown(e, k)
    /\ s = 0 /\ c # 0 => \E k \in DOMAIN e : IsDown(e, k)
    /\ \A i \in DOMAIN e :
          s = 0 /\ IsRequired(e, i) => \E k \in DOMAIN e : i < k /\ IsDown(e, k)

Room(x, n, c, u) == x \in RoomTo(n) /\ InOrder(x.queue, x.attempt.binding, c, u)

Leg(x, n, c) ==
    /\ x \in LegTo(n)
    /\ x.session = 0 => /\ x.close = NoClose /\ ~x.awaiting /\ ~x.deadline
                        /\ x.up = <<>> /\ x.down = <<>>
    /\ Parted(x.events, c, x.session)

Counts ==
    [sessions : Nat, switches : Nat, troubles : Nat, repeats : Nat,
     unasked : SUBSET Nat, unended : SUBSET Nat]

RepairInv ==
    /\ spent \in Counts
    /\ comp \in CompTo(spent.sessions) /\ comp.requested \in {0, comp.binding}
    /\ Room(room, spent.sessions, comp.binding, spent.unended)
    /\ Leg(ble, spent.sessions, comp.binding)

-----------------------------------------------------------------------------
\* A longer sequence keeps what it held.
LEMMA Appended ==
    ASSUME NEW S, NEW q \in Seq(S), NEW x \in S
    PROVE  /\ Append(q, x) \in Seq(S)
           /\ Len(q) \in Nat
           /\ DOMAIN q = 1..Len(q) /\ DOMAIN Append(q, x) = 1..(Len(q) + 1)
           /\ \A i \in DOMAIN q : Append(q, x)[i] = q[i] /\ i < Len(q) + 1
           /\ Append(q, x)[Len(q) + 1] = x
           /\ \A i \in DOMAIN Append(q, x) : i \in DOMAIN q \/ i = Len(q) + 1
OBVIOUS

\* Any command goes behind what is fenced, if it starts no other session.
LEMMA FencedGrows ==
    ASSUME NEW S, NEW q \in Seq(S), NEW x \in S, NEW a, NEW c, NEW u, InOrder(q, a, c, u),
           x.type = "start" => x.binding = c
    PROVE  InOrder(Append(q, x), a, c, u)
<1> DEFINE p == Append(q, x)
           l == Len(q) + 1
<1>1. /\ l \in Nat /\ DOMAIN q = 1..Len(q) /\ DOMAIN p = 1..l /\ Len(q) \in Nat
      /\ \A i \in DOMAIN q : p[i] = q[i] /\ i < l
      /\ p[l] = x
      /\ \A i \in DOMAIN p : i \in DOMAIN q \/ i = l
      /\ DOMAIN q \subseteq DOMAIN p
  <2>1. Len(q) \in Nat BY Appended
  <2> QED BY <2>1, Appended
<1> HIDE DEF p, l
<1>s. \A i \in DOMAIN q : (IsStart(p, i) <=> IsStart(q, i)) /\ \A b : IsAbort(p, i, b) <=> IsAbort(q, i, b)
  BY <1>1 DEF IsStart, IsAbort
<1>2. ASSUME NEW i \in DOMAIN p, NEW j \in DOMAIN p, i < j, IsStart(p, i), IsStart(p, j),
             p[i].binding \notin {p[j].binding} \cup u
      PROVE  \E k \in DOMAIN p : i < k /\ k < j /\ IsAbort(p, k, p[i].binding)
  <2>1. i \in DOMAIN q
    <3>1. ~(i = l) BY <1>1, <1>2
    <3> QED BY <3>1, <1>1
  <2>2. CASE j \in DOMAIN q
    <3>1. PICK k \in DOMAIN q : i < k /\ k < j /\ IsAbort(q, k, q[i].binding)
      BY <2>1, <2>2, <1>2, <1>1, <1>s DEF InOrder
    <3> QED BY <3>1, <2>1, <1>1, <1>s
  <2>3. CASE j = l
    <3>1. q[i].binding \notin {c} \cup u BY <1>1, <1>2, <2>1, <2>3 DEF IsStart
    <3>2. PICK k \in DOMAIN q : i < k /\ IsAbort(q, k, q[i].binding)
      BY <3>1, <2>1, <1>2, <1>s DEF InOrder
    <3> QED BY <3>2, <2>1, <2>3, <1>1, <1>s
  <2> QED BY <2>2, <2>3, <1>1
<1>3. ASSUME NEW j \in DOMAIN p, a \notin {0} \cup u, IsStart(p, j), p[j].binding # a
      PROVE  \E k \in DOMAIN p : k < j /\ IsAbort(p, k, a)
  <2>1. CASE j \in DOMAIN q
    <3>1. PICK k \in DOMAIN q : k < j /\ IsAbort(q, k, a)
      BY <2>1, <1>3, <1>1, <1>s DEF InOrder
    <3> QED BY <3>1, <1>1, <1>s
  <2>2. CASE j = l
    <3>1. a # c BY <1>1, <1>3, <2>2 DEF IsStart
    <3>2. PICK k \in DOMAIN q : IsAbort(q, k, a) BY <3>1, <1>3 DEF InOrder
    <3> QED BY <3>2, <2>2, <1>1, <1>s
  <2> QED BY <2>1, <2>2, <1>1
<1>4. ASSUME NEW i \in DOMAIN p, IsStart(p, i), p[i].binding \notin {c} \cup u
      PROVE  \E k \in DOMAIN p : i < k /\ IsAbort(p, k, p[i].binding)
  <2>1. i \in DOMAIN q
    <3>1. i # l BY <1>1, <1>4 DEF IsStart
    <3> QED BY <3>1, <1>1
  <2>2. PICK k \in DOMAIN q : i < k /\ IsAbort(q, k, q[i].binding)
    BY <2>1, <1>4, <1>1, <1>s DEF InOrder
  <2> QED BY <2>1, <2>2, <1>1, <1>s
<1>5. a \notin {0, c} \cup u => \E k \in DOMAIN p : IsAbort(p, k, a)
  BY <1>1, <1>s DEF InOrder
<1>6. InOrder(p, a, c, u)
  BY <1>2, <1>3, <1>4, <1>5 DEF InOrder
<1> QED BY <1>6 DEF p

\* The abort of the session that the composite lets go of.
LEMMA FencedLetsGo ==
    ASSUME NEW S, NEW q \in Seq(S), NEW x \in S, NEW a, NEW c, NEW u, InOrder(q, a, c, u),
           x.type = "abort", x.binding = c
    PROVE  InOrder(Append(q, x), a, 0, u)
<1> DEFINE p == Append(q, x)
           l == Len(q) + 1
<1>1. /\ DOMAIN q \subseteq DOMAIN p /\ l \in DOMAIN p
      /\ \A i \in DOMAIN q : p[i] = q[i] /\ i < l
      /\ p[l] = x
      /\ \A i \in DOMAIN p : i \in DOMAIN q \/ i = l
  <2>1. Len(q) \in Nat BY Appended
  <2> QED BY <2>1, Appended
<1> HIDE DEF p, l
<1>2. InOrder(p, a, c, u)
  BY FencedGrows DEF p
<1>3. IsAbort(p, l, c) /\ ~IsStart(p, l)
  BY <1>1 DEF IsAbort, IsStart
<1>4. ASSUME NEW i \in DOMAIN p, IsStart(p, i), p[i].binding \notin {0} \cup u
      PROVE  \E k \in DOMAIN p : i < k /\ IsAbort(p, k, p[i].binding)
  <2>1. CASE p[i].binding = c
    <3>1. i \in DOMAIN q BY <1>1, <1>3, <1>4
    <3>2. i < l BY <1>1, <3>1
    <3> QED BY <3>2, <1>1, <1>3, <2>1
  <2>2. CASE p[i].binding # c
    BY <2>2, <1>2, <1>4 DEF InOrder
  <2> QED BY <2>1, <2>2
<1>5. ASSUME a \notin {0, 0} \cup u PROVE \E k \in DOMAIN p : IsAbort(p, k, a)
  <2>1. CASE a = c BY <2>1, <1>1, <1>3
  <2>2. CASE a # c BY <2>2, <1>2, <1>5 DEF InOrder
  <2> QED BY <2>1, <2>2
<1>6. InOrder(p, a, 0, u)
  BY <1>2, <1>4, <1>5 DEF InOrder
<1> QED BY <1>6 DEF p

\* The composite lets go of a session whose abort was refused.
LEMMA FencedForgets ==
    ASSUME NEW q, NEW a, NEW c, NEW u, InOrder(q, a, c, u)
    PROVE  InOrder(q, a, 0, u \cup {c})
BY DEF InOrder

\* A session is bound when none was.
LEMMA FencedBinds ==
    ASSUME NEW q, NEW a, NEW c, NEW u, InOrder(q, a, 0, u),
           \A i \in DOMAIN q : IsStart(q, i) => q[i].binding # 0
    PROVE  InOrder(q, a, c, u)
BY DEF InOrder

\* The rest of a sequence.
LEMMA Rested ==
    ASSUME NEW S, NEW q \in Seq(S), q # <<>>
    PROVE  /\ Head(q) \in S /\ Tail(q) \in Seq(S) /\ Head(q) = q[1] /\ 1 \in DOMAIN q
           /\ \A i \in DOMAIN Tail(q) : i + 1 \in DOMAIN q /\ Tail(q)[i] = q[i + 1] /\ i \in Nat \ {0}
           /\ \A i \in DOMAIN q : i \in Nat \ {0} /\ (i # 1 => i - 1 \in DOMAIN Tail(q))
           /\ \A i \in DOMAIN q : i # 1 => Tail(q)[i - 1] = q[i]
OBVIOUS


\* A command is done that was not the abort of the attempt, or ended it.
LEMMA FencedAdvances ==
    ASSUME NEW S, NEW q \in Seq(S), q # <<>>, NEW a, NEW b, NEW c, NEW u, InOrder(q, a, c, u),
           b = a \/ b = 0,
           b # 0 => ~(Head(q).type = "abort" /\ Head(q).binding = a)
    PROVE  InOrder(Tail(q), b, c, u)
<1> DEFINE p == Tail(q)
<1>1. /\ 1 \in DOMAIN q
      /\ \A i \in DOMAIN p : i + 1 \in DOMAIN q /\ p[i] = q[i + 1] /\ i \in Nat \ {0}
      /\ \A k \in DOMAIN q : k \in Nat \ {0} /\ (k # 1 => k - 1 \in DOMAIN p)
      /\ \A k \in DOMAIN q : k # 1 => p[k - 1] = q[k]
  BY Rested
<1>h. b # 0 => ~IsAbort(q, 1, a)
  BY Rested DEF IsAbort
<1> HIDE DEF p
<1>s. \A i \in DOMAIN p : (IsStart(p, i) <=> IsStart(q, i + 1))
  BY <1>1 DEF IsStart
<1>a. \A k \in DOMAIN q : k # 1 => \A d : IsAbort(q, k, d) => IsAbort(p, k - 1, d)
  BY <1>1 DEF IsAbort
<1>2. ASSUME NEW i \in DOMAIN p, NEW j \in DOMAIN p, i < j, IsStart(p, i), IsStart(p, j),
             p[i].binding \notin {p[j].binding} \cup u
      PROVE  \E k \in DOMAIN p : i < k /\ k < j /\ IsAbort(p, k, p[i].binding)
  <2>0. /\ i + 1 \in DOMAIN q /\ j + 1 \in DOMAIN q /\ i + 1 < j + 1
        /\ IsStart(q, i + 1) /\ IsStart(q, j + 1) /\ q[i + 1].binding \notin {q[j + 1].binding} \cup u
    BY <1>2, <1>1, <1>s
  <2>1. PICK k \in DOMAIN q : i + 1 < k /\ k < j + 1 /\ IsAbort(q, k, q[i + 1].binding)
    BY <2>0 DEF InOrder
  <2>2. k # 1 /\ i < k - 1 /\ k - 1 < j
    BY <2>1, <1>1
  <2> QED BY <2>1, <2>2, <1>1, <1>a
<1>3. ASSUME NEW j \in DOMAIN p, b \notin {0} \cup u, IsStart(p, j), p[j].binding # b
      PROVE  \E k \in DOMAIN p : k < j /\ IsAbort(p, k, b)
  <2>1. PICK k \in DOMAIN q : k < j + 1 /\ IsAbort(q, k, a)
    BY <1>3, <1>1, <1>s DEF InOrder
  <2>2. k # 1 BY <2>1, <1>h, <1>3
  <2>3. k - 1 < j BY <2>1, <1>1
  <2> QED BY <2>1, <2>2, <2>3, <1>1, <1>a, <1>3
<1>4. ASSUME NEW i \in DOMAIN p, IsStart(p, i), p[i].binding \notin {c} \cup u
      PROVE  \E k \in DOMAIN p : i < k /\ IsAbort(p, k, p[i].binding)
  <2>1. PICK k \in DOMAIN q : i + 1 < k /\ IsAbort(q, k, q[i + 1].binding)
    BY <1>4, <1>1, <1>s DEF InOrder
  <2>2. k # 1 /\ i < k - 1
    BY <2>1, <1>1
  <2> QED BY <2>1, <2>2, <1>1, <1>a
<1>5. ASSUME b \notin {0, c} \cup u PROVE \E k \in DOMAIN p : IsAbort(p, k, b)
  <2>1. PICK k \in DOMAIN q : IsAbort(q, k, a)
    BY <1>5 DEF InOrder
  <2>2. k # 1 BY <2>1, <1>h, <1>5
  <2> QED BY <2>1, <2>2, <1>1, <1>a, <1>5
<1>6. InOrder(p, b, c, u)
  BY <1>2, <1>3, <1>4, <1>5 DEF InOrder
<1> QED BY <1>6 DEF p

\* The start at the head is done, and its attempt is the room's.
LEMMA FencedStarts ==
    ASSUME NEW S, NEW q \in Seq(S), q # <<>>, NEW a, NEW c, NEW u, InOrder(q, a, c, u),
           Head(q).type = "start"
    PROVE  InOrder(Tail(q), Head(q).binding, c, u)
<1> DEFINE p == Tail(q)
           b == Head(q).binding
<1>1. /\ 1 \in DOMAIN q
      /\ \A i \in DOMAIN p : i + 1 \in DOMAIN q /\ p[i] = q[i + 1] /\ i \in Nat \ {0}
      /\ \A k \in DOMAIN q : k \in Nat \ {0} /\ (k # 1 => k - 1 \in DOMAIN p)
      /\ \A k \in DOMAIN q : k # 1 => p[k - 1] = q[k]
  BY Rested
<1>h. IsStart(q, 1) /\ q[1].binding = b
  BY Rested DEF IsStart
<1>f. InOrder(p, 0, c, u)
  BY FencedAdvances
<1> HIDE DEF p, b
<1>a. \A k \in DOMAIN q : k # 1 => \A d : IsAbort(q, k, d) => IsAbort(p, k - 1, d)
  BY <1>1 DEF IsAbort
<1>3. ASSUME NEW j \in DOMAIN p, IsStart(p, j), p[j].binding # b, b \notin u
      PROVE  \E k \in DOMAIN p : k < j /\ IsAbort(p, k, b)
  <2>1. j + 1 \in DOMAIN q /\ 1 < j + 1 /\ IsStart(q, j + 1) /\ q[j + 1].binding # b
    BY <1>1, <1>3 DEF IsStart
  <2>2. PICK k \in DOMAIN q : 1 < k /\ k < j + 1 /\ IsAbort(q, k, b)
    <3>1. 1 \in DOMAIN q /\ q[1].binding = b /\ b \notin {q[j + 1].binding} \cup u
      BY <2>1, <1>1, <1>h, <1>3
    <3> QED BY <3>1, <2>1, <1>h DEF InOrder
  <2>3. k # 1 /\ k - 1 < j
    BY <2>2, <1>1
  <2> QED BY <2>2, <2>3, <1>1, <1>a
<1>5. ASSUME b \notin {0, c} \cup u PROVE \E k \in DOMAIN p : IsAbort(p, k, b)
  <2>1. PICK k \in DOMAIN q : 1 < k /\ IsAbort(q, k, b)
    BY <1>5, <1>1, <1>h DEF InOrder
  <2>2. k # 1 BY <2>1
  <2> QED BY <2>1, <2>2, <1>1, <1>a
<1>6. InOrder(p, b, c, u)
  BY <1>f, <1>3, <1>5 DEF InOrder
<1> QED BY <1>6 DEF p, b

\* An event that asks for nothing.
LEMMA PartedGrows ==
    ASSUME NEW S, NEW e \in Seq(S), NEW x \in S, NEW c, NEW s, Parted(e, c, s),
           x.type # "required"
    PROVE  Parted(Append(e, x), c, s)
<1> DEFINE p == Append(e, x)
           l == Len(e) + 1
<1>1. /\ DOMAIN e \subseteq DOMAIN p /\ l \in DOMAIN p
      /\ \A i \in DOMAIN e : p[i] = e[i] /\ i < l
      /\ p[l] = x
      /\ \A i \in DOMAIN p : i \in DOMAIN e \/ i = l
  <2>1. Len(e) \in Nat BY Appended
  <2> QED BY <2>1, Appended
<1> HIDE DEF p, l
<1>s. \A i \in DOMAIN e : (IsRequired(p, i) <=> IsRequired(e, i)) /\ (IsDown(p, i) <=> IsDown(e, i))
  BY <1>1 DEF IsRequired, IsDown
<1>r. \A i \in DOMAIN p : IsRequired(p, i) => i \in DOMAIN e
  BY <1>1 DEF IsRequired
<1>6. Parted(p, c, s)
  BY <1>1, <1>s, <1>r DEF Parted
<1> QED BY <1>6 DEF p

\* A link that went down, whatever the session is then.
LEMMA PartedFalls ==
    ASSUME NEW S, NEW e \in Seq(S), NEW x \in S, NEW c, NEW s, NEW t, Parted(e, c, s),
           x.type = "link", x.link \notin {"ready", "repairing"}
    PROVE  Parted(Append(e, x), c, t)
<1> DEFINE p == Append(e, x)
           l == Len(e) + 1
<1>1. /\ DOMAIN e \subseteq DOMAIN p /\ l \in DOMAIN p
      /\ \A i \in DOMAIN e : p[i] = e[i] /\ i < l
      /\ p[l] = x
      /\ \A i \in DOMAIN p : i \in DOMAIN e \/ i = l
  <2>1. Len(e) \in Nat BY Appended
  <2> QED BY <2>1, Appended
<1>f. Parted(p, c, s) BY PartedGrows
<1> HIDE DEF p, l
<1>d. IsDown(p, l) BY <1>1 DEF IsDown
<1>r. \A i \in DOMAIN p : IsRequired(p, i) => i < l
  BY <1>1 DEF IsRequired
<1>6. Parted(p, c, t)
  BY <1>1, <1>d, <1>r, <1>f DEF Parted
<1> QED BY <1>6 DEF p

\* A session asks to be provisioned, when there was none.
LEMMA PartedAsks ==
    ASSUME NEW S, NEW e \in Seq(S), NEW x \in S, NEW c, NEW s, Parted(e, c, 0), s # 0
    PROVE  Parted(Append(e, x), c, s)
<1> DEFINE p == Append(e, x)
           l == Len(e) + 1
<1>1. /\ DOMAIN e \subseteq DOMAIN p /\ l \in DOMAIN p
      /\ \A i \in DOMAIN e : p[i] = e[i] /\ i < l
      /\ p[l] = x
      /\ \A i \in DOMAIN p : i \in DOMAIN e \/ i = l
      /\ ~(l < l)
  <2>1. Len(e) \in Nat BY Appended
  <2> QED BY <2>1, Appended
<1> HIDE DEF p, l
<1>s. \A i \in DOMAIN e : (IsRequired(p, i) <=> IsRequired(e, i)) /\ (IsDown(p, i) <=> IsDown(e, i))
  BY <1>1 DEF IsRequired, IsDown
<1>2. ASSUME NEW j \in DOMAIN p, c # 0, IsRequired(p, j)
      PROVE  \E k \in DOMAIN p : k < j /\ IsDown(p, k)
  <2>1. CASE j \in DOMAIN e
    <3>1. PICK k \in DOMAIN e : k < j /\ IsDown(e, k) BY <2>1, <1>2, <1>s DEF Parted
    <3> QED BY <3>1, <1>1, <1>s
  <2>2. CASE j = l
    <3>1. PICK k \in DOMAIN e : IsDown(e, k) BY <1>2 DEF Parted
    <3> QED BY <3>1, <2>2, <1>1, <1>s
  <2> QED BY <2>1, <2>2, <1>1
<1>3. ASSUME NEW i \in DOMAIN p, NEW j \in DOMAIN p, i < j, IsRequired(p, i), IsRequired(p, j)
      PROVE  \E k \in DOMAIN p : i < k /\ k < j /\ IsDown(p, k)
  <2>i. i \in DOMAIN e
    <3>1. CASE j = l BY <3>1, <1>1, <1>3
    <3>2. CASE j \in DOMAIN e
      <4>1. i # l
        <5>1. Len(e) \in Nat /\ DOMAIN e = 1..Len(e) BY Appended
        <5> QED BY <5>1, <3>2, <1>3, <1>1 DEF l
      <4> QED BY <4>1, <1>1
    <3> QED BY <3>1, <3>2, <1>1
  <2>1. CASE j \in DOMAIN e
    <3>1. PICK k \in DOMAIN e : i < k /\ k < j /\ IsDown(e, k)
      BY <2>1, <2>i, <1>3, <1>s DEF Parted
    <3> QED BY <3>1, <1>1, <1>s
  <2>2. CASE j = l
    <3>1. PICK k \in DOMAIN e : i < k /\ IsDown(e, k)
      BY <2>i, <1>3, <1>s DEF Parted
    <3> QED BY <3>1, <2>2, <1>1, <1>s
  <2> QED BY <2>1, <2>2, <1>1
<1>6. Parted(p, c, s)
  BY <1>2, <1>3 DEF Parted
<1> QED BY <1>6 DEF p

\* An event is heard: one that asks binds a session, a link that is down ends it.
LEMMA PartedAdvances ==
    ASSUME NEW S, NEW e \in Seq(S), e # <<>>, NEW c, NEW d, NEW s, Parted(e, c, s),
           d \notin {0, c} => Head(e).type = "required", IsDown(e, 1) => d = 0
    PROVE  Parted(Tail(e), d, s)
<1> DEFINE p == Tail(e)
<1>1. /\ 1 \in DOMAIN e
      /\ \A i \in DOMAIN p : i + 1 \in DOMAIN e /\ p[i] = e[i + 1] /\ i \in Nat \ {0}
      /\ \A k \in DOMAIN e : k \in Nat \ {0} /\ (k # 1 => k - 1 \in DOMAIN p)
      /\ \A k \in DOMAIN e : k # 1 => p[k - 1] = e[k]
  BY Rested
<1>h. IsRequired(e, 1) <=> Head(e).type = "required"
  BY Rested DEF IsRequired
<1> HIDE DEF p
<1>s. \A i \in DOMAIN p : IsRequired(p, i) => IsRequired(e, i + 1)
  BY <1>1 DEF IsRequired
<1>a. \A k \in DOMAIN e : k # 1 /\ IsDown(e, k) => IsDown(p, k - 1)
  BY <1>1 DEF IsDown
<1>k. \A k \in DOMAIN e, i \in DOMAIN p :
         (i + 1 < k => k # 1 /\ i < k - 1) /\ (k < i + 1 => k - 1 < i)
  BY <1>1
<1>2. ASSUME NEW j \in DOMAIN p, d # 0, IsRequired(p, j)
      PROVE  \E k \in DOMAIN p : k < j /\ IsDown(p, k)
  <2>0. j + 1 \in DOMAIN e /\ IsRequired(e, j + 1) /\ 1 < j + 1
    BY <1>1, <1>2, <1>s
  <2>1. CASE IsRequired(e, 1)
    <3>1. PICK k \in DOMAIN e : 1 < k /\ k < j + 1 /\ IsDown(e, k)
      BY <2>0, <2>1, <1>1 DEF Parted
    <3>2. k # 1 BY <3>1
    <3> QED BY <3>1, <3>2, <1>1, <1>a, <1>k
  <2>2. CASE ~IsRequired(e, 1)
    <3>1. d = c /\ ~IsDown(e, 1) BY <2>2, <1>h, <1>2
    <3>2. PICK k \in DOMAIN e : k < j + 1 /\ IsDown(e, k)
      BY <2>0, <3>1, <1>2 DEF Parted
    <3>3. k # 1 BY <3>1, <3>2
    <3> QED BY <3>2, <3>3, <1>1, <1>a, <1>k
  <2> QED BY <2>1, <2>2
<1>3. ASSUME NEW i \in DOMAIN p, NEW j \in DOMAIN p, i < j, IsRequired(p, i), IsRequired(p, j)
      PROVE  \E k \in DOMAIN p : i < k /\ k < j /\ IsDown(p, k)
  <2>0. i + 1 \in DOMAIN e /\ j + 1 \in DOMAIN e /\ i + 1 < j + 1
    BY <1>1, <1>3
  <2>1. PICK k \in DOMAIN e : i + 1 < k /\ k < j + 1 /\ IsDown(e, k)
    BY <2>0, <1>3, <1>s DEF Parted
  <2> QED BY <2>1, <1>1, <1>a, <1>k
<1>4. ASSUME s = 0, d # 0 PROVE \E k \in DOMAIN p : IsDown(p, k)
  <2>1. CASE IsRequired(e, 1)
    <3>1. PICK k \in DOMAIN e : 1 < k /\ IsDown(e, k)
      BY <2>1, <1>1, <1>4 DEF Parted
    <3>2. k # 1 BY <3>1
    <3> QED BY <3>1, <3>2, <1>1, <1>a
  <2>2. CASE ~IsRequired(e, 1)
    <3>1. d = c /\ ~IsDown(e, 1) BY <2>2, <1>h, <1>4
    <3>2. PICK k \in DOMAIN e : IsDown(e, k)
      BY <3>1, <1>4 DEF Parted
    <3> QED BY <3>1, <3>2, <1>1, <1>a
  <2> QED BY <2>1, <2>2
<1>5. ASSUME NEW i \in DOMAIN p, s = 0, IsRequired(p, i)
      PROVE  \E k \in DOMAIN p : i < k /\ IsDown(p, k)
  <2>1. PICK k \in DOMAIN e : i + 1 < k /\ IsDown(e, k)
    BY <1>5, <1>1, <1>s DEF Parted
  <2> QED BY <2>1, <1>1, <1>a, <1>k
<1>6. Parted(p, d, s)
  BY <1>2, <1>3, <1>4, <1>5 DEF Parted
<1> QED BY <1>6 DEF p


\* Who asks finds no other session bound.
LEMMA NoneBound ==
    ASSUME NEW S, NEW e \in Seq(S), e # <<>>, NEW c, NEW s, Parted(e, c, s),
           Head(e).type = "required"
    PROVE  c = 0
<1>1. 1 \in DOMAIN e /\ IsRequired(e, 1) /\ \A k \in DOMAIN e : ~(k < 1)
  BY Rested DEF IsRequired
<1> QED BY <1>1 DEF Parted

-----------------------------------------------------------------------------
(* The types.                                                             *)

\* What names a session of n sessions names one of n + 1.
LEMMA MoreSessions ==
    ASSUME NEW n \in Nat
    PROVE  /\ Seq(CommandTo(n)) \subseteq Seq(CommandTo(n + 1))
           /\ Seq(RoomEventTo(n)) \subseteq Seq(RoomEventTo(n + 1))
           /\ Seq(BleEventTo(n)) \subseteq Seq(BleEventTo(n + 1))
           /\ CompTo(n) \subseteq CompTo(n + 1)
           /\ RoomTo(n) \subseteq RoomTo(n + 1)
           /\ LegTo(n) \subseteq LegTo(n + 1)
<1>1. 1..n \subseteq 1..(n + 1) /\ 0..n \subseteq 0..(n + 1)
  OBVIOUS
<1>2. /\ CommandTo(n) \subseteq CommandTo(n + 1)
      /\ RoomEventTo(n) \subseteq RoomEventTo(n + 1)
      /\ BleEventTo(n) \subseteq BleEventTo(n + 1)
  <2>1. CommandTo(n) \subseteq CommandTo(n + 1) BY <1>1 DEF CommandTo
  <2>2. RoomEventTo(n) \subseteq RoomEventTo(n + 1) BY <1>1 DEF RoomEventTo
  <2>3. BleEventTo(n) \subseteq BleEventTo(n + 1) BY <1>1 DEF BleEventTo
  <2> QED BY <2>1, <2>2, <2>3
<1>s. ASSUME NEW S, NEW T, S \subseteq T PROVE Seq(S) \subseteq Seq(T)
  BY <1>s
<1>3. /\ Seq(CommandTo(n)) \subseteq Seq(CommandTo(n + 1))
      /\ Seq(RoomEventTo(n)) \subseteq Seq(RoomEventTo(n + 1))
      /\ Seq(BleEventTo(n)) \subseteq Seq(BleEventTo(n + 1))
  BY <1>2, <1>s
<1>4. CompTo(n) \subseteq CompTo(n + 1)
  BY <1>1 DEF CompTo
<1>5. [binding : 0..n, terminal : BOOLEAN] \subseteq [binding : 0..(n + 1), terminal : BOOLEAN]
  BY <1>1
<1>6. RoomTo(n) \subseteq RoomTo(n + 1)
  BY <1>3, <1>5 DEF RoomTo
<1>7. LegTo(n) \subseteq LegTo(n + 1)
  BY <1>1, <1>3 DEF LegTo
<1> QED BY <1>3, <1>4, <1>6, <1>7

-----------------------------------------------------------------------------
(* The functions of the leg.                                              *)

\* The events of the leg name a link or a session.
LEMMA BleEventsTyped ==
    ASSUME NEW n \in Nat
    PROVE  /\ \A l \in LinkNames : LinkEvent(l) \in BleEventTo(n)
           /\ \A b \in 1..n, t \in {"required", "provisioned", "inbound", "closed"} :
                 [type |-> t, binding |-> b] \in BleEventTo(n)
BY DEF LinkEvent, BleEventTo

\* An event of a session that asks for nothing, and no other change.
LEMMA PublishLeg ==
    ASSUME NEW n \in Nat, NEW c, NEW x, Leg(x, n, c), NEW e \in BleEventTo(n),
           e.type # "required"
    PROVE  /\ Leg(PublishBle(x, e), n, c)
           /\ PublishBle(x, e).session = x.session /\ PublishBle(x, e).close = x.close
<1> DEFINE y == PublishBle(x, e)
<1>1. x \in LegTo(n) /\ x.events \in Seq(BleEventTo(n))
  BY DEF Leg, LegTo
<1>2. Append(x.events, e) \in Seq(BleEventTo(n))
  BY <1>1
<1>3. y \in LegTo(n) /\ y.events = Append(x.events, e)
  BY <1>1, <1>2 DEF PublishBle, LegTo
<1>4. /\ y.session = x.session /\ y.close = x.close /\ y.awaiting = x.awaiting
      /\ y.deadline = x.deadline /\ y.up = x.up /\ y.down = x.down
  BY <1>1 DEF PublishBle, LegTo
<1>5. Parted(y.events, c, y.session)
  BY <1>1, <1>3, <1>4, PartedGrows DEF Leg
<1> HIDE DEF y
<1>6. Leg(y, n, c)
  BY <1>3, <1>4, <1>5 DEF Leg
<1> QED BY <1>4, <1>6 DEF y

\* What a lost session leaves: its link, and the events that were not heard.
LEMMA ResetLeg ==
    ASSUME NEW n \in Nat, NEW x \in LegTo(n)
    PROVE  /\ Reset(x) \in LegTo(n) /\ Reset(x).events = x.events /\ Reset(x).session = 0
           /\ Reset(x).close = NoClose /\ ~Reset(x).awaiting /\ ~Reset(x).deadline
           /\ Reset(x).down = <<>> /\ Reset(x).up = <<>>
<1> DEFINE x1 == [x EXCEPT !.session = 0]
           x2 == [x1 EXCEPT !.pending = NoRoom]
           x3 == [x2 EXCEPT !.close = NoClose]
           x4 == [x3 EXCEPT !.awaiting = FALSE]
           x5 == [x4 EXCEPT !.deadline = FALSE]
           x6 == [x5 EXCEPT !.down = <<>>]
           x7 == [x6 EXCEPT !.up = <<>>]
<1>0. Reset(x) = x7 BY DEF Reset
<1>e. /\ <<>> \in Seq(FrameDown) /\ <<>> \in Seq(FrameUp)
      /\ 0 \in 0..n /\ NoRoom \in 0..NumRooms /\ NoClose \in (SUBSET Opened) \cup {NoClose}
  BY BoardRepairAssumption DEF NoRoom
<1>1. x1 \in LegTo(n) /\ x1.session = 0 /\ x1.events = x.events
  BY <1>e DEF LegTo
<1> HIDE DEF x1
<1>2. x2 \in LegTo(n) /\ x2.session = 0 /\ x2.events = x.events
  BY <1>1, <1>e DEF LegTo
<1> HIDE DEF x2
<1>3. x3 \in LegTo(n) /\ x3.session = 0 /\ x3.events = x.events /\ x3.close = NoClose
  BY <1>2, <1>e DEF LegTo
<1> HIDE DEF x3
<1>4. /\ x4 \in LegTo(n) /\ x4.session = 0 /\ x4.events = x.events /\ x4.close = NoClose
      /\ ~x4.awaiting
  BY <1>3, <1>e DEF LegTo
<1> HIDE DEF x4
<1>5. /\ x5 \in LegTo(n) /\ x5.session = 0 /\ x5.events = x.events /\ x5.close = NoClose
      /\ ~x5.awaiting /\ ~x5.deadline
  BY <1>4, <1>e DEF LegTo
<1> HIDE DEF x5
<1>6. /\ x6 \in LegTo(n) /\ x6.session = 0 /\ x6.events = x.events /\ x6.close = NoClose
      /\ ~x6.awaiting /\ ~x6.deadline /\ x6.down = <<>>
  BY <1>5, <1>e DEF LegTo
<1> HIDE DEF x6
<1>7. /\ x7 \in LegTo(n) /\ x7.session = 0 /\ x7.events = x.events /\ x7.close = NoClose
      /\ ~x7.awaiting /\ ~x7.deadline /\ x7.down = <<>> /\ x7.up = <<>>
  BY <1>6, <1>e DEF LegTo
<1> HIDE DEF x7
<1> QED BY <1>0, <1>7

\* A session that is gone leaves nothing behind but its link's event.
LEMMA LostLeg ==
    ASSUME NEW n \in Nat, NEW c, NEW x, Leg(x, n, c), NEW l \in {"offline", "failed"}
    PROVE  Leg(PublishBle([Reset(x) EXCEPT !.link = l], LinkEvent(l)), n, c)
<1> DEFINE r == Reset(x)
           z == [r EXCEPT !.link = l]
           y == PublishBle(z, LinkEvent(l))
<1>1. x \in LegTo(n) /\ LinkEvent(l) \in BleEventTo(n) /\ l \in LinkNames
  BY BleEventsTyped DEF Leg, LinkNames
<1>2. /\ r \in LegTo(n) /\ r.events = x.events /\ r.session = 0
      /\ r.close = NoClose /\ ~r.awaiting /\ ~r.deadline /\ r.down = <<>> /\ r.up = <<>>
  BY <1>1, ResetLeg
<1> HIDE DEF r
<1>3. /\ z \in LegTo(n) /\ z.events = x.events /\ z.session = 0
      /\ z.close = NoClose /\ ~z.awaiting /\ ~z.deadline /\ z.down = <<>> /\ z.up = <<>>
  BY <1>1, <1>2 DEF LegTo
<1> HIDE DEF z
<1>4. x.events \in Seq(BleEventTo(n))
  BY <1>1 DEF LegTo
<1>5. Append(x.events, LinkEvent(l)) \in Seq(BleEventTo(n))
  BY <1>1, <1>4
<1>6. /\ y \in LegTo(n) /\ y.events = Append(x.events, LinkEvent(l)) /\ y.session = 0
      /\ y.close = NoClose /\ ~y.awaiting /\ ~y.deadline /\ y.down = <<>> /\ y.up = <<>>
  BY <1>3, <1>5 DEF LegTo, PublishBle
<1> HIDE DEF y
<1>7. Parted(y.events, c, y.session)
  BY <1>1, <1>4, <1>6, PartedFalls DEF Leg, LinkEvent
<1>8. Leg(y, n, c)
  BY <1>6, <1>7 DEF Leg
<1> QED BY <1>8 DEF y, z, r

\* A leg that fails, or is told to abandon a session, is a leg.
LEMMA FailLeg ==
    ASSUME NEW n \in Nat, NEW c, NEW x, Leg(x, n, c)
    PROVE  Leg(FailBle(x), n, c) /\ \A b : Leg(Abort(x, b), n, c)
<1>1. Leg(FailBle(x), n, c)
  BY LostLeg DEF FailBle
<1> QED BY <1>1 DEF Abort

\* A frame goes to the board only while there is a session.
LEMMA DownLeg ==
    ASSUME NEW n \in Nat, NEW c, NEW x, Leg(x, n, c), x.session # 0, NEW f \in FrameDown
    PROVE  Leg(Down(x, f), n, c) /\ Down(x, f).session = x.session
           /\ Down(x, f).close = x.close
<1> DEFINE y == Down(x, f)
<1>1. x \in LegTo(n) /\ x.down \in Seq(FrameDown)
  BY DEF Leg, LegTo
<1>2. Append(x.down, f) \in Seq(FrameDown)
  BY <1>1
<1>3. y \in LegTo(n) /\ y.events = x.events /\ y.session = x.session /\ y.close = x.close
  BY <1>1, <1>2 DEF Down, LegTo
<1> HIDE DEF y
<1>4. Leg(y, n, c)
  BY <1>3 DEF Leg
<1> QED BY <1>3, <1>4 DEF y

\* A bundle is sent to a session.
LEMMA BundleLeg ==
    ASSUME NEW n \in Nat, NEW c, NEW x, Leg(x, n, c), x.session # 0, NEW r \in 0..NumRooms
    PROVE  Leg(SendBundle(x, r), n, c)
<1> DEFINE y == [x EXCEPT !.pending = r]
           f == [type |-> "bundle", room |-> r]
<1>1. x \in LegTo(n)
  BY DEF Leg
<1>2. y \in LegTo(n) /\ y.events = x.events /\ y.session = x.session
  BY <1>1 DEF LegTo
<1>3. f \in FrameDown
  BY DEF FrameDown
<1> HIDE DEF y, f
<1>4. Leg(y, n, c)
  BY <1>2 DEF Leg
<1>5. Leg(Down(y, f), n, c)
  BY <1>2, <1>3, <1>4, DownLeg
<1> QED BY <1>5 DEF SendBundle, y, f

\* A repair frame is sent to a session; the first one opens the closing handshake.
LEMMA FrameLeg ==
    ASSUME NEW n \in Nat, NEW c, NEW x, Leg(x, n, c), x.session # 0, NEW r \in 0..NumRooms
    PROVE  Leg(SendFrame(x, r), n, c)
<1> DEFINE x1 == [x EXCEPT !.close = Opened]
           x2 == [x1 EXCEPT !.awaiting = FALSE]
           x3 == [x2 EXCEPT !.deadline = TRUE]
           x4 == [x3 EXCEPT !.link = "repairing"]
           p == PublishBle(x4, LinkEvent("repairing"))
           f == [type |-> "repair", room |-> r]
<1>0. x \in LegTo(n)
  BY DEF Leg
<1>1. x1 \in LegTo(n) /\ x1.session = x.session /\ x1.events = x.events
  BY <1>0 DEF LegTo
<1> HIDE DEF x1
<1>2. x2 \in LegTo(n) /\ x2.session = x.session /\ x2.events = x.events
  BY <1>1 DEF LegTo
<1> HIDE DEF x2
<1>3. x3 \in LegTo(n) /\ x3.session = x.session /\ x3.events = x.events
  BY <1>2 DEF LegTo
<1> HIDE DEF x3
<1>4. x4 \in LegTo(n) /\ x4.session = x.session /\ x4.events = x.events
  BY <1>3 DEF LegTo, LinkNames
<1> HIDE DEF x4
<1>5. Leg(x4, n, c)
  BY <1>4 DEF Leg
<1>6. LinkEvent("repairing") \in BleEventTo(n) /\ LinkEvent("repairing").type # "required"
  BY BleEventsTyped DEF LinkEvent, LinkNames
<1>7. Leg(p, n, c) /\ p.session = x.session
  BY <1>4, <1>5, <1>6, PublishLeg
<1>8. f \in FrameDown
  BY DEF FrameDown
<1>9. SendFrame(x, r) = Down(IF x.close # NoClose THEN x ELSE p, f)
  BY DEF SendFrame, p, x4, x3, x2, x1
<1> HIDE DEF p, f
<1> QED BY <1>7, <1>8, <1>9, DownLeg

\* A session publishes that its repair has closed, once nothing is left to do.
LEMMA ClosedLeg ==
    ASSUME NEW n \in Nat, NEW c, NEW x, Leg(x, n, c), NEW b \in 1..n, x.session # 0
    PROVE  Leg(MaybeClosed(x, b), n, c)
<1> DEFINE x1 == [x EXCEPT !.close = NoClose]
           x2 == [x1 EXCEPT !.awaiting = TRUE]
           e == [type |-> "closed", binding |-> b]
<1>0. x \in LegTo(n)
  BY DEF Leg
<1>1. x1 \in LegTo(n) /\ x1.session = x.session /\ x1.events = x.events
  BY <1>0 DEF LegTo
<1> HIDE DEF x1
<1>2. x2 \in LegTo(n) /\ x2.session = x.session /\ x2.events = x.events
  BY <1>1 DEF LegTo
<1> HIDE DEF x2
<1>3. Leg(x2, n, c)
  BY <1>2 DEF Leg
<1>4. e \in BleEventTo(n) /\ e.type # "required"
  BY BleEventsTyped
<1> HIDE DEF e
<1>5. Leg(PublishBle(x2, e), n, c)
  BY <1>3, <1>4, PublishLeg
<1> QED BY <1>5 DEF MaybeClosed, x2, x1, e

\* What is left to do of an open close.
LEMMA DoneLeg ==
    ASSUME NEW n \in Nat, NEW c, NEW x, Leg(x, n, c), NEW what \in Opened, what \in x.close
    PROVE  /\ Leg([x EXCEPT !.close = @ \ {what}], n, c)
           /\ [x EXCEPT !.close = @ \ {what}].session = x.session
           /\ x.session # 0
<1> DEFINE y == [x EXCEPT !.close = @ \ {what}]
<1>1. x \in LegTo(n) /\ x.close # NoClose
  BY DEF Leg, NoClose, Opened
<1>2. x.close \ {what} \in (SUBSET Opened) \cup {NoClose}
  BY <1>1 DEF LegTo
<1>3. y \in LegTo(n) /\ y.session = x.session /\ y.events = x.events
  BY <1>1, <1>2 DEF LegTo
<1>4. x.session # 0
  BY <1>1 DEF Leg
<1> HIDE DEF y
<1>5. Leg(y, n, c)
  BY <1>3, <1>4 DEF Leg
<1> QED BY <1>3, <1>4, <1>5 DEF y

\* The FIN of this side is sent once.
LEMMA FinishLeg ==
    ASSUME NEW n \in Nat, NEW c, NEW x, Leg(x, n, c), NEW b \in 1..n, FinishAccepted(x, b)
    PROVE  Leg(FinishRepair(x, b), n, c)
<1> DEFINE y == [x EXCEPT !.close = @ \ {"fin"}]
           f == [type |-> "fin", room |-> NoRoom]
           z == IF "fin" \in x.close THEN Down(y, f) ELSE x
<1>1. x.session # 0
  BY DEF FinishAccepted
<1>2. f \in FrameDown
  BY BoardRepairAssumption DEF FrameDown, NoRoom
<1>3. CASE "fin" \in x.close
  <2>1. Leg(y, n, c) /\ y.session = x.session
    BY <1>3, DoneLeg, ZenonT(60) DEF Opened
  <2> HIDE DEF y, f
  <2>2. Leg(Down(y, f), n, c) /\ Down(y, f).session # 0
    BY <2>1, <1>1, <1>2, DownLeg
  <2> QED BY <1>3, <2>2, ClosedLeg DEF FinishRepair, y, f
<1>4. CASE "fin" \notin x.close
  BY <1>4, <1>1, ClosedLeg DEF FinishRepair
<1> QED BY <1>3, <1>4

\* A repair that is complete makes the link Ready.
LEMMA CompleteLeg ==
    ASSUME NEW n \in Nat, NEW c, NEW x, Leg(x, n, c), x.session # 0
    PROVE  Leg(CompleteRepair(x), n, c)
<1> DEFINE x1 == [x EXCEPT !.awaiting = FALSE]
           x2 == [x1 EXCEPT !.deadline = FALSE]
           x3 == [x2 EXCEPT !.link = "ready"]
<1>0. x \in LegTo(n)
  BY DEF Leg
<1>1. x1 \in LegTo(n) /\ x1.session = x.session /\ x1.events = x.events
  BY <1>0 DEF LegTo
<1> HIDE DEF x1
<1>2. x2 \in LegTo(n) /\ x2.session = x.session /\ x2.events = x.events
  BY <1>1 DEF LegTo
<1> HIDE DEF x2
<1>3. x3 \in LegTo(n) /\ x3.session = x.session /\ x3.events = x.events
  BY <1>2 DEF LegTo, LinkNames
<1> HIDE DEF x3
<1>4. Leg(x3, n, c)
  BY <1>3 DEF Leg
<1>5. LinkEvent("ready") \in BleEventTo(n) /\ LinkEvent("ready").type # "required"
  BY BleEventsTyped DEF LinkEvent, LinkNames
<1>6. Leg(PublishBle(x3, LinkEvent("ready")), n, c)
  BY <1>4, <1>5, PublishLeg
<1> QED BY <1>6 DEF CompleteRepair, x3, x2, x1

-----------------------------------------------------------------------------
(* The room's queues.                                                     *)

\* An event of the room is taken from its queue.
LEMMA RoomHeard ==
    ASSUME NEW n \in Nat, NEW c, NEW u, NEW x, Room(x, n, c, u), x.events # <<>>
    PROVE  /\ Room([x EXCEPT !.events = Tail(@)], n, c, u)
           /\ Head(x.events) \in RoomEventTo(n)
<1> DEFINE y == [x EXCEPT !.events = Tail(@)]
<1>1. x \in RoomTo(n) /\ x.events \in Seq(RoomEventTo(n))
  BY DEF Room, RoomTo
<1>2. Tail(x.events) \in Seq(RoomEventTo(n)) /\ Head(x.events) \in RoomEventTo(n)
  BY <1>1, Rested
<1>3. y \in RoomTo(n) /\ y.queue = x.queue /\ y.attempt = x.attempt
  BY <1>1, <1>2 DEF RoomTo
<1> HIDE DEF y
<1>4. Room(y, n, c, u)
  BY <1>3 DEF Room
<1> QED BY <1>2, <1>4 DEF y

\* A command is queued that starts no session but the one that is bound.
LEMMA QueuedRoom ==
    ASSUME NEW n \in Nat, NEW c, NEW u, NEW x, Room(x, n, c, u), NEW k \in CommandTo(n),
           k.type = "start" => k.binding = c
    PROVE  Room([x EXCEPT !.queue = Append(@, k)], n, c, u)
<1> DEFINE y == [x EXCEPT !.queue = Append(@, k)]
<1>1. x \in RoomTo(n) /\ x.queue \in Seq(CommandTo(n))
  BY DEF Room, RoomTo
<1>2. Append(x.queue, k) \in Seq(CommandTo(n))
  BY <1>1
<1>3. y \in RoomTo(n) /\ y.queue = Append(x.queue, k) /\ y.attempt = x.attempt
  BY <1>1, <1>2 DEF RoomTo
<1> HIDE DEF y
<1>4. InOrder(Append(x.queue, k), x.attempt.binding, c, u)
  BY <1>1, FencedGrows DEF Room
<1>5. Room(y, n, c, u)
  BY <1>3, <1>4 DEF Room
<1> QED BY <1>5 DEF y

\* The composite lets go of its session with an abort.
LEMMA FreedRoom ==
    ASSUME NEW n \in Nat, NEW c \in 1..n, NEW u, NEW x, Room(x, n, c, u)
    PROVE  Room([x EXCEPT !.queue = Append(@, Command("abort", c))], n, 0, u)
<1> DEFINE k == Command("abort", c)
           y == [x EXCEPT !.queue = Append(@, k)]
<1>0. k \in CommandTo(n) /\ k.type = "abort" /\ k.binding = c
  BY DEF Command, CommandTo
<1> HIDE DEF k
<1>1. x \in RoomTo(n) /\ x.queue \in Seq(CommandTo(n))
  BY DEF Room, RoomTo
<1>2. Append(x.queue, k) \in Seq(CommandTo(n))
  BY <1>0, <1>1
<1>3. y \in RoomTo(n) /\ y.queue = Append(x.queue, k) /\ y.attempt = x.attempt
  BY <1>1, <1>2 DEF RoomTo
<1> HIDE DEF y
<1>4. InOrder(Append(x.queue, k), x.attempt.binding, 0, u)
  BY <1>0, <1>1, FencedLetsGo DEF Room
<1>5. Room(y, n, 0, u)
  BY <1>3, <1>4 DEF Room
<1> QED BY <1>5 DEF y, k

\* A room that no session is bound to takes any next one.
LEMMA BoundRoom ==
    ASSUME NEW n \in Nat, NEW c, NEW u, NEW x, Room(x, n, 0, u)
    PROVE  Room(x, n, c, u)
<1>1. x.queue \in Seq(CommandTo(n)) /\ InOrder(x.queue, x.attempt.binding, 0, u)
  BY DEF Room, RoomTo
<1>2. \A i \in DOMAIN x.queue : IsStart(x.queue, i) => x.queue[i].binding # 0
  <2>1. ASSUME NEW i \in DOMAIN x.queue PROVE x.queue[i] \in CommandTo(n)
    BY <1>1, <2>1
  <2> QED BY <2>1 DEF IsStart, CommandTo
<1> QED BY <1>1, <1>2, FencedBinds DEF Room

\* The commands of the room name a session or a room.
LEMMA CommandsTyped ==
    ASSUME NEW n \in Nat
    PROVE  /\ \A b \in 1..n, t \in {"prepare", "start", "observe", "confirm", "abort"} :
                 /\ Command(t, b) \in CommandTo(n)
                 /\ Command(t, b).type = t /\ Command(t, b).binding = b
           /\ \A r \in 0..NumRooms : [type |-> "join", room |-> r] \in CommandTo(n)
BY DEF Command, CommandTo

\* A command of the driver: the attempt it leaves, and its events.
LEMMA DoesRoom ==
    ASSUME NEW n \in Nat, NEW c, NEW u, Room(room, n, c, u), room.queue # <<>>,
           NEW a \in [binding : 0..n, terminal : BOOLEAN], NEW es \in Seq(RoomEventTo(n)),
           InOrder(Tail(room.queue), a.binding, c, u), Does(a, es)
    PROVE  Room(room', n, c, u)
<1> DEFINE x1 == [room EXCEPT !.queue = Tail(@)]
           x2 == [x1 EXCEPT !.attempt = a]
           x3 == [x2 EXCEPT !.events = @ \o es]
<1>1. room \in RoomTo(n) /\ room.queue \in Seq(CommandTo(n)) /\ room.events \in Seq(RoomEventTo(n))
  BY DEF Room, RoomTo
<1>2. Tail(room.queue) \in Seq(CommandTo(n)) /\ room.events \o es \in Seq(RoomEventTo(n))
  BY <1>1, Rested
<1>3. x1 \in RoomTo(n) /\ x1.queue = Tail(room.queue) /\ x1.events = room.events
  BY <1>1, <1>2 DEF RoomTo
<1> HIDE DEF x1
<1>4. x2 \in RoomTo(n) /\ x2.queue = Tail(room.queue) /\ x2.events = room.events /\ x2.attempt = a
  BY <1>3 DEF RoomTo
<1> HIDE DEF x2
<1>5. x3 \in RoomTo(n) /\ x3.queue = Tail(room.queue) /\ x3.attempt = a
  BY <1>2, <1>4 DEF RoomTo
<1> HIDE DEF x3
<1>6. Room(x3, n, c, u)
  BY <1>5 DEF Room
<1> QED BY <1>6 DEF Does, x3, x2, x1

\* A command that starts nothing: the attempt stays, or it ends.
LEMMA TookRoom ==
    ASSUME NEW n \in Nat, NEW c, NEW u, Room(room, n, c, u), room.queue # <<>>,
           NEW a \in [binding : 0..n, terminal : BOOLEAN], NEW es \in Seq(RoomEventTo(n)),
           a.binding \in {0, room.attempt.binding},
           a.binding # 0 => ~(/\ Head(room.queue).type = "abort"
                              /\ Head(room.queue).binding = room.attempt.binding),
           Does(a, es)
    PROVE  Room(room', n, c, u)
<1>1. room.queue \in Seq(CommandTo(n)) /\ InOrder(room.queue, room.attempt.binding, c, u)
  BY DEF Room, RoomTo
<1>2. InOrder(Tail(room.queue), a.binding, c, u)
  BY <1>1, FencedAdvances
<1> QED BY <1>2, DoesRoom

\* A command that is refused ends at most the attempt of its own session.
LEMMA RefusedRoom ==
    ASSUME NEW n \in Nat, NEW c, NEW u, Room(room, n, c, u), room.queue # <<>>, NEW b \in 1..n,
           Head(room.queue).type # "abort", Refuse(b)
    PROVE  Room(room', n, c, u)
<1>1. room.active \in 0..NumRooms /\ room.attempt \in [binding : 0..n, terminal : BOOLEAN]
  BY DEF Room, RoomTo
<1>2. Kept(b) \in [binding : 0..n, terminal : BOOLEAN] /\ Kept(b).binding \in {0, room.attempt.binding}
  BY <1>1 DEF Kept, NoAttempt
<1>3. RoomEvent("failed", b) \in RoomEventTo(n)
  BY <1>1 DEF RoomEvent, RoomEventTo
<1>4. <<RoomEvent("failed", b)>> \in Seq(RoomEventTo(n))
  BY <1>3
<1>5. Does(Kept(b), <<RoomEvent("failed", b)>>)
  BY DEF Refuse
<1> QED BY <1>2, <1>4, <1>5, TookRoom

\* A session whose abort is refused is let go of.
LEMMA ForgottenRoom ==
    ASSUME NEW n \in Nat, NEW c, NEW u, NEW x, Room(x, n, c, u)
    PROVE  Room(x, n, 0, u \cup {c})
BY FencedForgets DEF Room

\* What is refused is counted, and no other count changes.
LEMMA RefusedCounts ==
    ASSUME spent \in Counts
    PROVE  /\ Refused \in Counts
           /\ Refused.sessions = spent.sessions /\ Refused.unended = spent.unended
           /\ \A b \in Nat :
                 /\ [Refused EXCEPT !.unasked = @ \cup {b}] \in Counts
                 /\ [Refused EXCEPT !.unasked = @ \cup {b}].sessions = spent.sessions
                 /\ [Refused EXCEPT !.unasked = @ \cup {b}].unended = spent.unended
                 /\ [Refused EXCEPT !.unended = @ \cup {b}] \in Counts
                 /\ [Refused EXCEPT !.unended = @ \cup {b}].sessions = spent.sessions
                 /\ [Refused EXCEPT !.unended = @ \cup {b}].unended = spent.unended \cup {b}
<1> DEFINE s == Refused
<1>1. /\ s \in Counts /\ s.sessions = spent.sessions /\ s.unended = spent.unended
      /\ s.unasked = spent.unasked
  BY DEF Refused, Counts
<1> HIDE DEF s
<1>2. ASSUME NEW b \in Nat
      PROVE  /\ [s EXCEPT !.unasked = @ \cup {b}] \in Counts
             /\ [s EXCEPT !.unasked = @ \cup {b}].sessions = s.sessions
             /\ [s EXCEPT !.unasked = @ \cup {b}].unended = s.unended
             /\ [s EXCEPT !.unended = @ \cup {b}] \in Counts
             /\ [s EXCEPT !.unended = @ \cup {b}].sessions = s.sessions
             /\ [s EXCEPT !.unended = @ \cup {b}].unended = s.unended \cup {b}
  <2>1. s.unasked \cup {b} \in SUBSET Nat /\ s.unended \cup {b} \in SUBSET Nat
    BY <1>1 DEF Counts
  <2> QED BY <1>1, <2>1 DEF Counts
<1>3. /\ s \in Counts
      /\ s.sessions = spent.sessions /\ s.unended = spent.unended
      /\ \A b \in Nat :
            /\ [s EXCEPT !.unasked = @ \cup {b}] \in Counts
            /\ [s EXCEPT !.unasked = @ \cup {b}].sessions = spent.sessions
            /\ [s EXCEPT !.unasked = @ \cup {b}].unended = spent.unended
            /\ [s EXCEPT !.unended = @ \cup {b}] \in Counts
            /\ [s EXCEPT !.unended = @ \cup {b}].sessions = spent.sessions
            /\ [s EXCEPT !.unended = @ \cup {b}].unended = spent.unended \cup {b}
  BY <1>1, <1>2
<1> QED BY <1>3 DEF s

\* The parts of the invariant, in the state a step leads to.
LEMMA PrimedInv ==
    ASSUME NEW m \in Nat, NEW u, m = spent'.sessions, u = spent'.unended, spent' \in Counts,
           comp' \in CompTo(m), comp'.requested \in {0, comp'.binding},
           Room(room', m, comp'.binding, u), Leg(ble', m, comp'.binding)
    PROVE  RepairInv'
<1>1. /\ comp' \in CompTo(spent'.sessions)
      /\ Room(room', spent'.sessions, comp'.binding, spent'.unended)
      /\ Leg(ble', spent'.sessions, comp'.binding)
  OBVIOUS
<1> QED BY <1>1 DEF RepairInv

-----------------------------------------------------------------------------
(* The room's driver.                                                     *)

\* Every command the driver does keeps the room, and changes nothing else.
LEMMA DriverSteps ==
    ASSUME NEW n \in Nat, NEW c, NEW u, n = spent.sessions, Room(room, n, c, u), RoomDriver
    PROVE  Room(room', n, c, u) /\ UNCHANGED <<comp, ble>>
<1> DEFINE h == Head(room.queue)
           Attempts == [binding : 0..n, terminal : BOOLEAN]
<1>1. /\ room.active \in 0..NumRooms /\ room.attempt \in Attempts
      /\ room.queue \in Seq(CommandTo(n)) /\ room.events \in Seq(RoomEventTo(n))
      /\ InOrder(room.queue, room.attempt.binding, c, u)
  BY DEF Room, RoomTo
<1>e. <<>> \in Seq(RoomEventTo(n)) /\ \A e \in RoomEventTo(n) : <<e>> \in Seq(RoomEventTo(n))
  OBVIOUS
<1>2. room.queue # <<>> => h \in CommandTo(n)
  BY <1>1, Rested
<1>3. UNCHANGED <<comp, ble>>
  BY DEF RoomDriver, Prepare, Start, ObserveFrame, ConfirmClose, AbortAttempt, Switch, Took
<1>b. room.queue # <<>> /\ h.type # "join" => h.binding \in 1..n
  BY <1>2 DEF CommandTo
<1>v. \A t \in {"bundle", "unprepared", "outbound", "terminal", "failed", "synchronized"}, b \in 1..n :
         RoomEvent(t, b) \in RoomEventTo(n)
  BY <1>1 DEF RoomEvent, RoomEventTo
<1>t. \A b \in 1..n : Fresh(b) \in Attempts /\ Fresh(b).binding = b
  BY DEF Fresh
<1>n. NoAttempt \in Attempts /\ NoAttempt.binding = 0
  BY DEF NoAttempt
<1> HIDE DEF h, Attempts
<1>4. CASE Prepare
  <2>1. room.queue # <<>> /\ h.type = "prepare"
    BY <1>4 DEF Prepare, Took, h
  <2>2. PICK t \in {"unprepared", "bundle"} : Does(room.attempt, <<RoomEvent(t, h.binding)>>)
    BY <1>4 DEF Prepare, h
  <2>3. <<RoomEvent(t, h.binding)>> \in Seq(RoomEventTo(n))
    BY <2>1, <1>b, <1>v, <1>e
  <2>4. room.attempt.binding \in {0, room.attempt.binding} /\ Head(room.queue).type # "abort"
    BY <2>1 DEF h
  <2> QED BY <2>1, <2>2, <2>3, <2>4, <1>1, <1>3, TookRoom DEF Attempts
<1>5. CASE Start
  <2>1. room.queue # <<>> /\ h.type = "start" /\ h.binding \in 1..n /\ Head(room.queue).type # "abort"
    BY <1>5, <1>b DEF Start, Took, h
  <2>2. CASE Refuse(h.binding)
    BY <2>1, <2>2, <1>3, RefusedRoom
  <2>3. CASE Does(Fresh(h.binding), <<RoomEvent("outbound", h.binding)>>)
    <3>1. InOrder(Tail(room.queue), h.binding, c, u)
      BY <2>1, <1>1, FencedStarts DEF h
    <3>2. <<RoomEvent("outbound", h.binding)>> \in Seq(RoomEventTo(n))
      BY <2>1, <1>v, <1>e
    <3>3. Fresh(h.binding) \in Attempts /\ Fresh(h.binding).binding = h.binding
      BY <2>1, <1>t
    <3>4. InOrder(Tail(room.queue), Fresh(h.binding).binding, c, u)
      BY <3>1, <3>3
    <3> QED BY <2>1, <2>3, <3>2, <3>3, <3>4, <1>3, DoesRoom DEF Attempts
  <2> QED BY <1>5, <2>2, <2>3 DEF Start, h
<1>6. CASE ObserveFrame
  <2>1. room.queue # <<>> /\ h.type = "observe" /\ h.binding \in 1..n /\ Head(room.queue).type # "abort"
    BY <1>6, <1>b DEF ObserveFrame, Took, h
  <2>2. CASE Refuse(h.binding)
    BY <2>1, <2>2, <1>3, RefusedRoom
  <2>3. CASE Does([room.attempt EXCEPT !.terminal = TRUE], <<RoomEvent("terminal", h.binding)>>)
    <3>1. [room.attempt EXCEPT !.terminal = TRUE] \in Attempts
          /\ [room.attempt EXCEPT !.terminal = TRUE].binding = room.attempt.binding
      BY <1>1 DEF Attempts
    <3>2. <<RoomEvent("terminal", h.binding)>> \in Seq(RoomEventTo(n))
      BY <2>1, <1>v, <1>e
    <3> QED BY <2>1, <2>3, <3>1, <3>2, <1>3, TookRoom DEF Attempts
  <2> QED BY <1>6, <2>2, <2>3 DEF ObserveFrame, h
<1>7. CASE ConfirmClose
  <2>1. room.queue # <<>> /\ h.type = "confirm" /\ h.binding \in 1..n /\ Head(room.queue).type # "abort"
    BY <1>7, <1>b DEF ConfirmClose, Took, h
  <2>2. CASE Refuse(h.binding)
    BY <2>1, <2>2, <1>3, RefusedRoom
  <2>3. CASE Does(NoAttempt, <<RoomEvent("synchronized", h.binding)>>)
    <3>1. <<RoomEvent("synchronized", h.binding)>> \in Seq(RoomEventTo(n))
      BY <2>1, <1>v, <1>e
    <3> QED BY <2>1, <2>3, <3>1, <1>n, <1>3, TookRoom DEF Attempts
  <2>4. CASE /\ room.attempt.binding = h.binding
             /\ Does(Fresh(h.binding), <<RoomEvent("outbound", h.binding)>>)
    <3>1. <<RoomEvent("outbound", h.binding)>> \in Seq(RoomEventTo(n))
      BY <2>1, <1>v, <1>e
    <3>2. Fresh(h.binding) \in Attempts /\ Fresh(h.binding).binding \in {0, room.attempt.binding}
      BY <2>1, <2>4, <1>t
    <3> QED BY <2>1, <2>4, <3>1, <3>2, <1>3, TookRoom DEF Attempts
  <2> QED BY <1>7, <2>2, <2>3, <2>4 DEF ConfirmClose, h
<1>8. CASE AbortAttempt
  <2>1. room.queue # <<>> /\ h.type = "abort" /\ Does(Kept(h.binding), <<>>)
    BY <1>8 DEF AbortAttempt, Took, h
  <2>2. Kept(h.binding) \in Attempts /\ Kept(h.binding).binding \in {0, room.attempt.binding}
    BY <1>1, <1>n DEF Kept
  <2>3. Kept(h.binding).binding # 0 => h.binding # room.attempt.binding
    BY <1>n DEF Kept
  <2>4. Kept(h.binding).binding # 0 => ~(/\ Head(room.queue).type = "abort"
                                         /\ Head(room.queue).binding = room.attempt.binding)
    BY <2>3 DEF h
  <2> QED BY <2>1, <2>2, <2>4, <1>e, <1>3, TookRoom DEF Attempts
<1>9. CASE Switch
  <2> DEFINE leaving == <<[type |-> "unready"]>>
             opened == <<[type |-> "selected"], [type |-> "ready"]>>
  <2>1. room.queue # <<>> /\ h.type = "join" /\ h.room \in 0..NumRooms /\ Head(room.queue).type # "abort"
    BY <1>9, <1>2 DEF Switch, Took, h, CommandTo
  <2>2. leaving \in Seq(RoomEventTo(n)) /\ opened \in Seq(RoomEventTo(n))
    <3>1. \A t \in {"ready", "unready", "selected"} : [type |-> t] \in RoomEventTo(n)
      BY DEF RoomEventTo
    <3> QED BY <3>1
  <2> HIDE DEF leaving, opened
  <2>4. CASE h.room = room.active
    <3>1. PICK es \in {leaving, opened} : Does(room.attempt, es)
      BY <1>9, <2>4 DEF Switch, h, leaving, opened
    <3> QED BY <3>1, <2>1, <2>2, <1>1, <1>3, TookRoom DEF Attempts
  <2>5. CASE h.room # room.active
    <3> DEFINE x1 == [room EXCEPT !.queue = Tail(@)]
               x2 == [x1 EXCEPT !.active = h.room]
               x3 == [x2 EXCEPT !.attempt = NoAttempt]
               x4 == [x3 EXCEPT !.events = @ \o leaving \o (IF h.room = NoRoom THEN <<>> ELSE opened)]
    <3>0. room' = x4
      BY <1>9, <2>5 DEF Switch, h, leaving, opened
    <3>1. room \in RoomTo(n)
      BY DEF Room
    <3>2. Tail(room.queue) \in Seq(CommandTo(n))
      BY <1>1, <2>1, Rested
    <3>3. x1 \in RoomTo(n) /\ x1.queue = Tail(room.queue) /\ x1.events = room.events
      BY <3>1, <3>2 DEF RoomTo
    <3> HIDE DEF x1
    <3>4. x2 \in RoomTo(n) /\ x2.queue = Tail(room.queue) /\ x2.events = room.events
      BY <3>3, <2>1 DEF RoomTo
    <3> HIDE DEF x2
    <3>5. x3 \in RoomTo(n) /\ x3.queue = Tail(room.queue) /\ x3.events = room.events
          /\ x3.attempt = NoAttempt
      BY <3>4, <1>n DEF RoomTo, Attempts
    <3> HIDE DEF x3
    <3>6. x3.events \o leaving \o (IF h.room = NoRoom THEN <<>> ELSE opened) \in Seq(RoomEventTo(n))
      <4>1. x3.events \o leaving \in Seq(RoomEventTo(n))
        BY <3>5, <2>2, <1>1
      <4>2. x3.events \o leaving \o opened \in Seq(RoomEventTo(n))
        BY <4>1, <2>2
      <4>3. x3.events \o leaving \o <<>> \in Seq(RoomEventTo(n))
        BY <4>1, <1>e
      <4>4. CASE h.room = NoRoom BY <4>3, <4>4
      <4>5. CASE h.room # NoRoom BY <4>2, <4>5
      <4> QED BY <4>4, <4>5
    <3>7. x4 \in RoomTo(n) /\ x4.queue = Tail(room.queue) /\ x4.attempt = NoAttempt
      BY <3>5, <3>6 DEF RoomTo
    <3> HIDE DEF x4
    <3>8. InOrder(Tail(room.queue), 0, c, u)
      BY <1>1, <2>1, FencedAdvances
    <3>9. Room(x4, n, c, u)
      BY <3>7, <3>8, <1>n DEF Room
    <3> QED BY <3>0, <3>9, <1>3
  <2> QED BY <2>4, <2>5
<1> QED BY <1>4, <1>5, <1>6, <1>7, <1>8, <1>9 DEF RoomDriver

-----------------------------------------------------------------------------
(* The composite.                                                         *)

\* What an event of either leg leaves: the composite, the room and the leg.
Composed(n) ==
    /\ spent' \in Counts /\ spent'.sessions = n
    /\ comp' \in CompTo(n) /\ comp'.requested \in {0, comp'.binding}
    /\ Room(room', n, comp'.binding, spent'.unended) /\ Leg(ble', n, comp'.binding)

\* That is the invariant.
LEMMA ComposedInv ==
    ASSUME NEW n \in Nat, Composed(n)
    PROVE  RepairInv'
BY PrimedInv DEF Composed

\* A provisioning that is asked for is queued or refused; c and r are the composite
\* and the room as they were found.
LEMMA RequestOK ==
    ASSUME NEW n \in Nat, n = spent.sessions, spent \in Counts, NEW c \in CompTo(n),
           c.requested \in {0, c.binding}, NEW r, Room(r, n, c.binding, spent.unended),
           Leg(ble', n, c.binding), Request(c, r)
    PROVE  Composed(n)
<1> DEFINE b == c.binding
           u == spent.unended
           q == Enqueued(r, Command("prepare", b))
           asked == [c EXCEPT !.requested = b]
<1>0. b \in 0..n
  BY DEF CompTo
<1>1. /\ asked \in CompTo(n) /\ asked.requested = b /\ asked.binding = b
  BY <1>0 DEF CompTo
<1>2. CASE b # 0 /\ comp' = asked /\ room' = q /\ UNCHANGED spent
  <2>1. Command("prepare", b) \in CommandTo(n) /\ Command("prepare", b).type # "start"
    BY <1>0, <1>2, CommandsTyped
  <2>2. Room(q, n, b, u)
    BY <2>1, QueuedRoom DEF Enqueued
  <2> HIDE DEF q, asked
  <2> QED BY <1>1, <1>2, <2>2 DEF Composed
<1>3. CASE comp' = c /\ room' = r /\ UNCHANGED spent
  BY <1>3 DEF Composed
<1>4. CASE comp' = c /\ room' = r /\ spent' = [Refused EXCEPT !.unasked = @ \cup {b}]
  <2>1. b \in Nat
    BY <1>0
  <2>2. spent' \in Counts /\ spent'.sessions = n /\ spent'.unended = u
    BY <1>4, <2>1, RefusedCounts
  <2> QED BY <1>4, <2>2 DEF Composed
<1> QED BY <1>2, <1>3, <1>4 DEF Request

\* RoomLink and RoomSelected keep the session that is bound.
LEMMA HearRoomOK ==
    ASSUME NEW n \in Nat, n = spent.sessions, RepairInv, HearRoom
    PROVE  Composed(n)
<1> DEFINE r == [room EXCEPT !.events = Tail(@)]
           u == spent.unended
           forgot == [comp EXCEPT !.requested = 0]
           kept(c) == c \in CompTo(n) /\ c.binding = comp.binding /\ c.requested \in {0, c.binding}
<1>0. /\ room.events # <<>> /\ ble' = ble /\ spent \in Counts
      /\ comp \in CompTo(n) /\ comp.requested \in {0, comp.binding}
      /\ Room(room, n, comp.binding, u) /\ Leg(ble, n, comp.binding)
  BY DEF HearRoom, RepairInv
<1>1. Room(r, n, comp.binding, u)
  BY <1>0, RoomHeard
<1>2. forgot \in CompTo(n) /\ forgot.binding = comp.binding /\ forgot.requested = 0
  BY <1>0 DEF CompTo
<1>3. \E c \in {forgot, [forgot EXCEPT !.ready = TRUE], [forgot EXCEPT !.ready = FALSE]} :
         Request(c, r)
  BY DEF HearRoom, HeardRoom
<1> HIDE DEF forgot, r
<1>4. /\ kept(forgot) /\ kept([forgot EXCEPT !.ready = TRUE])
      /\ kept([forgot EXCEPT !.ready = FALSE])
  BY <1>2 DEF CompTo
<1>5. PICK c \in {forgot, [forgot EXCEPT !.ready = TRUE], [forgot EXCEPT !.ready = FALSE]} :
         Request(c, r)
  BY <1>3
<1>6. c \in CompTo(n) /\ c.binding = comp.binding /\ c.requested \in {0, c.binding}
  BY <1>4
<1>7. Room(r, n, c.binding, spent.unended) /\ Leg(ble', n, c.binding)
  BY <1>0, <1>1, <1>6
<1> QED BY <1>0, <1>5, <1>6, <1>7, RequestOK

\* One event of the room is done, and the leg is what the answer made of it.
LEMMA DeliverOK ==
    ASSUME NEW n \in Nat, n = spent.sessions, RepairInv, room.events # <<>>, NEW x,
           Leg(x, n, comp.binding), Deliver(x), comp' \in CompTo(n),
           comp'.requested \in {0, comp'.binding}, comp'.binding = comp.binding
    PROVE  Composed(n)
<1>1. Room([room EXCEPT !.events = Tail(@)], n, comp.binding, spent.unended)
  BY RoomHeard DEF RepairInv
<1>2. spent' = spent /\ spent \in Counts
  BY DEF Deliver, RepairInv
<1> QED BY <1>1, <1>2 DEF Deliver, HeardRoom, Composed

\* A repair that is fenced is aborted on both legs, or on the board's alone; r and
\* x are the room and the leg as they were found.
LEMMA FenceOK ==
    ASSUME NEW n \in Nat, n = spent.sessions, RepairInv, NEW b \in 1..n, NEW r, NEW x,
           Room(r, n, comp.binding, spent.unended), Leg(x, n, comp.binding),
           \/ room' = r
           \/ room' = Enqueued(r, Command("abort", b)),
           spent' \in {spent, Refused}, ble' = Abort(x, b), comp' = comp
    PROVE  Composed(n)
<1> DEFINE u == spent.unended
           q == Enqueued(r, Command("abort", b))
<1>0. comp \in CompTo(n) /\ comp.requested \in {0, comp.binding} /\ spent \in Counts
  BY DEF RepairInv
<1>1. Command("abort", b) \in CommandTo(n) /\ Command("abort", b).type # "start"
  BY CommandsTyped
<1>2. Room(q, n, comp.binding, u)
  BY <1>1, QueuedRoom DEF Enqueued
<1>3. Leg(Abort(x, b), n, comp.binding)
  BY FailLeg
<1>4. spent' \in Counts /\ spent'.sessions = n /\ spent'.unended = u
  BY <1>0, RefusedCounts
<1>5. Room(room', n, comp.binding, u)
  BY <1>2
<1> HIDE DEF q, u
<1> QED BY <1>0, <1>3, <1>4, <1>5 DEF Composed

\* The event of the room that is heard names a session and a room.
LEMMA Named ==
    ASSUME NEW n \in Nat, n = spent.sessions, RepairInv,
           NEW t \in {"bundle", "unprepared", "outbound", "terminal", "failed", "synchronized"},
           Answers(t)
    PROVE  /\ room.events # <<>> /\ Head(room.events).binding \in 1..n
           /\ Head(room.events).room \in 0..NumRooms
<1>1. room.events # <<>> /\ Head(room.events).type = t
  BY DEF Answers
<1>2. Head(room.events) \in RoomEventTo(n)
  BY <1>1, RoomHeard DEF RepairInv
<1> QED BY <1>1, <1>2 DEF RoomEventTo

\* What the room prepared goes to the session it was prepared for.
LEMMA HearBundleOK ==
    ASSUME NEW n \in Nat, n = spent.sessions, RepairInv, HearBundle
    PROVE  Composed(n)
<1> DEFINE e == Head(room.events)
<1>0. /\ comp \in CompTo(n) /\ comp.requested \in {0, comp.binding}
      /\ Leg(ble, n, comp.binding)
  BY DEF RepairInv
<1>1. /\ [comp EXCEPT !.requested = 0] \in CompTo(n)
      /\ [comp EXCEPT !.requested = 0].requested = 0
      /\ [comp EXCEPT !.requested = 0].binding = comp.binding
  BY <1>0 DEF CompTo
<1>2. room.events # <<>> /\ e.binding \in 1..n /\ e.room \in 0..NumRooms
  BY Named DEF HearBundle
<1> HIDE DEF e
<1>3. CASE /\ BundleAccepted(ble, e.binding, e.room)
           /\ Deliver(SendBundle(ble, e.room)) /\ comp' = comp
  <2>1. Leg(SendBundle(ble, e.room), n, comp.binding)
    BY <1>0, <1>2, <1>3, BundleLeg DEF BundleAccepted
  <2> QED BY <2>1, <1>0, <1>2, <1>3, DeliverOK
<1>4. CASE Deliver(ble) /\ comp' \in {comp, [comp EXCEPT !.requested = 0]}
  BY <1>0, <1>1, <1>2, <1>4, DeliverOK
<1> QED BY <1>3, <1>4 DEF HearBundle, e

\* The attempt's events go to the session that is bound, or fence it.
LEMMA HearAttemptOK ==
    ASSUME NEW n \in Nat, n = spent.sessions, RepairInv, HearAttempt
    PROVE  Composed(n)
<1> DEFINE e == Head(room.events)
           b == e.binding
<1>0. /\ comp \in CompTo(n) /\ comp.requested \in {0, comp.binding} /\ comp' = comp
      /\ Leg(ble, n, comp.binding) /\ Room(room, n, comp.binding, spent.unended)
  BY DEF RepairInv, HearAttempt
<1>2. room.events # <<>> /\ b \in 1..n /\ e.room \in 0..NumRooms
  BY Named DEF HearAttempt
<1> HIDE DEF e
<1>d. ASSUME NEW x, Leg(x, n, comp.binding), Deliver(x) PROVE Composed(n)
  BY <1>d, <1>0, <1>2, DeliverOK
<1>f. ASSUME Fence(HeardRoom, ble, b) PROVE Composed(n)
  <2>1. Room(HeardRoom, n, comp.binding, spent.unended)
    BY <1>0, <1>2, RoomHeard DEF HeardRoom
  <2>2. /\ room' = HeardRoom \/ room' = Enqueued(HeardRoom, Command("abort", b))
        /\ spent' \in {spent, Refused} /\ ble' = Abort(ble, b)
    BY <1>f DEF Fence
  <2> QED BY <2>1, <2>2, <1>0, <1>2, FenceOK
<1>3. CASE Answers("outbound")
  <2>1. CASE Deliver(ble) BY <2>1, <1>0, <1>d
  <2>2. CASE FrameAccepted(ble, b) /\ Deliver(SendFrame(ble, e.room))
    <3>1. Leg(SendFrame(ble, e.room), n, comp.binding)
      BY <2>2, <1>0, <1>2, FrameLeg DEF FrameAccepted
    <3> QED BY <3>1, <2>2, <1>d
  <2>3. CASE Fence(HeardRoom, ble, b) BY <2>3, <1>f
  <2> QED BY <2>1, <2>2, <2>3, <1>3 DEF HearAttempt, Answers, e
<1>4. CASE Answers("terminal")
  <2>1. CASE Deliver(ble) BY <2>1, <1>0, <1>d
  <2>2. CASE FinishAccepted(ble, b) /\ Deliver(FinishRepair(ble, b))
    <3>1. Leg(FinishRepair(ble, b), n, comp.binding)
      BY <2>2, <1>0, <1>2, FinishLeg
    <3> QED BY <3>1, <2>2, <1>d
  <2>3. CASE Fence(HeardRoom, ble, b) BY <2>3, <1>f
  <2> QED BY <2>1, <2>2, <2>3, <1>4 DEF HearAttempt, Answers, e
<1>5. CASE Answers("failed")
  <2>1. Leg(Abort(ble, b), n, comp.binding)
    BY <1>0, FailLeg
  <2>2. Deliver(ble) \/ Deliver(Abort(ble, b))
    BY <1>5 DEF HearAttempt, Answers, e
  <2> QED BY <2>1, <2>2, <1>0, <1>d
<1>6. CASE Answers("synchronized")
  <2>1. CASE Deliver(ble) BY <2>1, <1>0, <1>d
  <2>2. CASE CompleteAccepted(ble, b) /\ Deliver(CompleteRepair(ble))
    <3>1. Leg(CompleteRepair(ble), n, comp.binding)
      BY <2>2, <1>0, <1>2, CompleteLeg DEF CompleteAccepted
    <3> QED BY <3>1, <2>2, <1>d
  <2>3. CASE Fence(HeardRoom, ble, b) BY <2>3, <1>f
  <2> QED BY <2>1, <2>2, <2>3, <1>6 DEF HearAttempt, Answers, e
<1> QED BY <1>3, <1>4, <1>5, <1>6 DEF HearAttempt, e

\* The head of the leg's events is heard.
LEMMA PolledLeg ==
    ASSUME NEW n \in Nat, n = spent.sessions, RepairInv, NEW t, Polled(t), NEW d,
           d \notin {0, comp.binding} => t = "required", IsDown(ble.events, 1) => d = 0
    PROVE  Leg(HeardBle, n, d)
<1> DEFINE y == [ble EXCEPT !.events = Tail(@)]
<1>0. /\ Leg(ble, n, comp.binding) /\ ble \in LegTo(n) /\ ble.events \in Seq(BleEventTo(n))
      /\ Parted(ble.events, comp.binding, ble.session)
      /\ ble.events # <<>> /\ Head(ble.events).type = t
  BY DEF RepairInv, Leg, LegTo, Polled
<1>1. Tail(ble.events) \in Seq(BleEventTo(n))
  BY <1>0, Rested
<1>2. Parted(Tail(ble.events), d, ble.session)
  BY <1>0, PartedAdvances
<1>3. /\ y \in LegTo(n) /\ y.events = Tail(ble.events) /\ y.session = ble.session
      /\ y.close = ble.close /\ y.awaiting = ble.awaiting /\ y.deadline = ble.deadline
      /\ y.up = ble.up /\ y.down = ble.down
  BY <1>0, <1>1 DEF LegTo
<1>4. HeardBle = y
  BY DEF HeardBle
<1> HIDE DEF y
<1>5. Leg(y, n, d)
  BY <1>0, <1>2, <1>3 DEF Leg
<1> QED BY <1>4, <1>5

\* The events of the leg bind a session, serve it, or let it go.
LEMMA HearBleOK ==
    ASSUME NEW n \in Nat, n = spent.sessions, RepairInv, HearRequired \/ HearProgress \/ HearLink
    PROVE  Composed(n)
<1> DEFINE e == Head(ble.events)
           b == e.binding
           u == spent.unended
<1>0. /\ comp \in CompTo(n) /\ comp.requested \in {0, comp.binding} /\ spent \in Counts
      /\ Room(room, n, comp.binding, u) /\ Leg(ble, n, comp.binding)
      /\ ble.events \in Seq(BleEventTo(n)) /\ Parted(ble.events, comp.binding, ble.session)
      /\ comp.binding \in 0..n
  BY DEF RepairInv, Leg, LegTo, CompTo
<1>1. /\ ble.events # <<>> => e \in BleEventTo(n) /\ e = ble.events[1]
  BY <1>0, Rested
<1> HIDE DEF e, u
<1>2. CASE HearRequired
  <2> DEFINE asks == [comp EXCEPT !.binding = b, !.requested = 0]
  <2>0. /\ ble.events # <<>> /\ e.type = "required" /\ Polled("required")
        /\ Request(asks, room) /\ ble' = HeardBle
    BY <1>2 DEF HearRequired, Polled, e
  <2>1. b \in 1..n /\ ~IsDown(ble.events, 1)
    BY <2>0, <1>1 DEF BleEventTo, IsDown
  <2>2. comp.binding = 0
    BY <2>0, <1>0, NoneBound DEF e
  <2>3. Leg(ble', n, b)
    BY <2>0, <2>1, PolledLeg
  <2>4. Room(room, n, b, u)
    BY <2>2, <1>0, BoundRoom
  <2>5. asks \in CompTo(n) /\ asks.binding = b /\ asks.requested = 0
    <3>1. b \in 0..n /\ 0 \in 0..n
      BY <2>1
    <3> DEFINE y == [comp EXCEPT !.binding = b]
    <3>2. y \in CompTo(n) /\ y.binding = b
      BY <3>1, <1>0 DEF CompTo
    <3>3. asks = [y EXCEPT !.requested = 0]
      OBVIOUS
    <3> HIDE DEF y, asks
    <3> QED BY <3>1, <3>2, <3>3 DEF CompTo
  <2> HIDE DEF asks
  <2>6. /\ asks.requested \in {0, asks.binding} /\ Room(room, n, asks.binding, spent.unended)
        /\ Leg(ble', n, asks.binding)
    BY <2>3, <2>4, <2>5 DEF u
  <2> QED BY <2>0, <2>5, <2>6, <1>0, RequestOK
<1>3. CASE HearProgress
  <2>0. PICK t \in {"provisioned", "inbound", "closed"}, k \in {"start", "observe", "confirm"} :
           /\ Polled(t) /\ UNCHANGED comp
           /\ \/ ble' = HeardBle /\ UNCHANGED <<room, spent>>
              \/ /\ comp.binding = b /\ room' = Enqueued(room, Command(k, b))
                 /\ ble' = HeardBle /\ UNCHANGED spent
              \/ /\ spent' = Refused /\ ble' = Abort(HeardBle, b)
                 /\ room' = room \/ room' = Enqueued(room, Command("abort", b))
    BY <1>3 DEF HearProgress, e
  <2>1. ble.events # <<>> /\ e.type = t
    BY <2>0 DEF Polled, e
  <2>2. b \in 1..n /\ ~IsDown(ble.events, 1)
    BY <2>1, <1>1 DEF BleEventTo, IsDown
  <2>3. Leg(HeardBle, n, comp.binding)
    BY <2>0, <2>2, PolledLeg
  <2>4. CASE ble' = HeardBle /\ UNCHANGED <<room, spent>>
    BY <2>0, <2>3, <2>4, <1>0 DEF Composed, u
  <2>5. CASE /\ comp.binding = b /\ room' = Enqueued(room, Command(k, b))
             /\ ble' = HeardBle /\ UNCHANGED spent
    <3>1. Command(k, b) \in CommandTo(n) /\ Command(k, b).binding = comp.binding
      BY <2>2, <2>5, CommandsTyped
    <3>2. Room(room', n, comp.binding, u)
      BY <3>1, <2>5, <1>0, QueuedRoom DEF Enqueued
    <3> QED BY <2>0, <2>3, <2>5, <3>2, <1>0 DEF Composed, u
  <2>6. CASE /\ spent' = Refused /\ ble' = Abort(HeardBle, b)
             /\ room' = room \/ room' = Enqueued(room, Command("abort", b))
    BY <2>0, <2>2, <2>3, <2>6, <1>0, FenceOK DEF u
  <2> QED BY <2>0, <2>4, <2>5, <2>6
<1>4. CASE HearLink
  <2>0. ble.events # <<>> /\ e.type = "link" /\ Polled("link") /\ ble' = HeardBle
    BY <1>4 DEF HearLink, Polled, e
  <2>1. IsDown(ble.events, 1) <=> e.link \notin {"ready", "repairing"}
    BY <2>0, <1>1 DEF IsDown
  <2>2. CASE e.link \in {"ready", "repairing"}
    <3>1. comp' = comp /\ room' = room /\ spent' = spent
      BY <1>4, <2>2 DEF HearLink, e
    <3>2. Leg(ble', n, comp.binding)
      BY <2>0, <2>1, <2>2, PolledLeg
    <3> QED BY <3>1, <3>2, <1>0 DEF Composed, u
  <2>3. CASE e.link \notin {"ready", "repairing"}
    <3>1. /\ comp' = Unbound
          /\ \/ comp.binding = 0 /\ UNCHANGED <<room, spent>>
             \/ /\ comp.binding # 0 /\ UNCHANGED spent
                /\ room' = Enqueued(room, Command("abort", comp.binding))
             \/ /\ comp.binding # 0 /\ UNCHANGED room
                /\ spent' = [Refused EXCEPT !.unended = @ \cup {comp.binding}]
      BY <1>4, <2>3 DEF HearLink, e
    <3>2. comp' \in CompTo(n) /\ comp'.binding = 0 /\ comp'.requested = 0
      <4>1. 0 \in 0..n
        OBVIOUS
      <4> DEFINE y == [comp EXCEPT !.binding = 0]
      <4>2. y \in CompTo(n) /\ y.binding = 0
        BY <4>1, <1>0 DEF CompTo
      <4>3. comp' = [y EXCEPT !.requested = 0]
        BY <3>1 DEF Unbound
      <4> HIDE DEF y
      <4> QED BY <4>1, <4>2, <4>3 DEF CompTo
    <3>3. Leg(ble', n, 0)
      BY <2>0, PolledLeg
    <3>4. CASE comp.binding = 0 /\ UNCHANGED <<room, spent>>
      BY <3>2, <3>3, <3>4, <1>0 DEF Composed, u
    <3>5. CASE /\ comp.binding # 0 /\ UNCHANGED spent
               /\ room' = Enqueued(room, Command("abort", comp.binding))
      <4>1. comp.binding \in 1..n BY <3>5, <1>0
      <4>2. Room(room', n, 0, u)
        BY <4>1, <3>5, <1>0, FreedRoom, ZenonT(60) DEF Enqueued
      <4> QED BY <4>2, <3>2, <3>3, <3>5, <1>0 DEF Composed, u
    <3>6. CASE /\ comp.binding # 0 /\ UNCHANGED room
               /\ spent' = [Refused EXCEPT !.unended = @ \cup {comp.binding}]
      <4>1. comp.binding \in Nat BY <1>0
      <4>2. spent' \in Counts /\ spent'.sessions = n /\ spent'.unended = u \cup {comp.binding}
        BY <4>1, <3>6, <1>0, RefusedCounts DEF u
      <4>3. Room(room, n, 0, u \cup {comp.binding})
        BY <1>0, ForgottenRoom
      <4>4. Room(room', n, comp'.binding, spent'.unended)
        BY <3>2, <3>6, <4>2, <4>3
      <4> QED BY <3>2, <3>3, <4>2, <4>4 DEF Composed
    <3> QED BY <3>1, <3>4, <3>5, <3>6
  <2> QED BY <2>2, <2>3
<1> QED BY <1>2, <1>3, <1>4

-----------------------------------------------------------------------------
(* The session and the board.                                             *)

\* A frame arrives only at a session.
LEMMA ArrivedLeg ==
    ASSUME NEW n \in Nat, NEW c, Leg(ble, n, c), ble.up # <<>>
    PROVE  /\ Leg(Rest, n, c) /\ Rest.session = ble.session /\ Rest.close = ble.close
           /\ ble.session \in 1..n
<1> DEFINE y == [ble EXCEPT !.up = Tail(@)]
<1>1. ble \in LegTo(n) /\ ble.up \in Seq(FrameUp) /\ ble.session # 0
  BY DEF Leg, LegTo
<1>2. Tail(ble.up) \in Seq(FrameUp)
  BY <1>1, Rested
<1>3. y \in LegTo(n) /\ y.events = ble.events /\ y.session = ble.session /\ y.close = ble.close
  BY <1>1, <1>2 DEF LegTo
<1>4. ble.session \in 1..n
  BY <1>1 DEF LegTo
<1> HIDE DEF y
<1>5. Leg(y, n, c)
  BY <1>1, <1>3 DEF Leg
<1> QED BY <1>3, <1>4, <1>5 DEF Rest, y

\* The frames of the board keep the leg.
LEMMA HostLeg ==
    ASSUME NEW n \in Nat, NEW c, Leg(ble, n, c), HostEvents
    PROVE  Leg(ble', n, c)
<1>0. /\ ble.up # <<>> /\ Leg(Rest, n, c) /\ Rest.session = ble.session /\ Rest.close = ble.close
      /\ ble.session \in 1..n /\ ble.session # 0
  <2>1. ble.up # <<>>
    BY DEF HostEvents, HearCapability, HearFrame, HearClose, Arrives
  <2> QED BY <2>1, ArrivedLeg
<1>f. CASE ble' = FailBle(ble)
  BY <1>f, FailLeg
<1>r. LinkEvent("repairing") \in BleEventTo(n) /\ LinkEvent("repairing").type # "required"
  BY BleEventsTyped DEF LinkEvent, LinkNames
<1>1. CASE HearCapability
  <2> DEFINE x0 == Rest
             x1 == [x0 EXCEPT !.pending = NoRoom]
             x2 == [x1 EXCEPT !.link = "repairing"]
             e == [type |-> "provisioned", binding |-> ble.session]
             x3 == PublishBle(x2, e)
  <2>0. ble' = FailBle(ble) \/ ble' = PublishBle(x3, LinkEvent("repairing"))
    BY <1>1 DEF HearCapability
  <2>1. x0 \in LegTo(n) /\ x0.session = ble.session /\ Leg(x0, n, c)
    BY <1>0 DEF Leg
  <2> HIDE DEF x0
  <2>2. x1 \in LegTo(n) /\ x1.session = x0.session /\ x1.events = x0.events
    <3>1. NoRoom \in 0..NumRooms
      BY BoardRepairAssumption DEF NoRoom
    <3> QED BY <3>1, <2>1 DEF LegTo
  <2> HIDE DEF x1
  <2>3. x2 \in LegTo(n) /\ x2.session = x0.session /\ x2.events = x0.events
    BY <2>2 DEF LegTo, LinkNames
  <2> HIDE DEF x2
  <2>4. Leg(x2, n, c)
    BY <2>1, <2>3, <1>0 DEF Leg
  <2>5. e \in BleEventTo(n) /\ e.type # "required"
    BY <1>0, BleEventsTyped
  <2> HIDE DEF e
  <2>6. Leg(x3, n, c)
    BY <2>4, <2>5, PublishLeg
  <2> HIDE DEF x3
  <2>7. Leg(PublishBle(x3, LinkEvent("repairing")), n, c)
    BY <2>6, <1>r, PublishLeg
  <2> QED BY <2>0, <2>7, <1>f
<1>2. CASE HearFrame
  <2> DEFINE e == [type |-> "inbound", binding |-> ble.session]
  <2>0. ble' = FailBle(ble) \/ ble' = PublishBle(Rest, e)
    BY <1>2 DEF HearFrame
  <2>1. e \in BleEventTo(n) /\ e.type # "required"
    BY <1>0, BleEventsTyped
  <2> HIDE DEF e
  <2>2. Leg(PublishBle(Rest, e), n, c)
    BY <2>1, <1>0, PublishLeg
  <2> QED BY <2>0, <2>2, <1>f
<1>3. CASE HearClose
  <2> DEFINE done(what) == [Rest EXCEPT !.close = @ \ {what}]
             f == [type |-> "ack", room |-> NoRoom]
  <2>0. \/ ble' = FailBle(ble) \/ ble' = Rest
        \/ "remoteFin" \in ble.close /\ ble' = Down(done("remoteFin"), f)
        \/ \E what \in {"finAck", "ackSent"} :
              what \in ble.close /\ ble' = MaybeClosed(done(what), ble.session)
    BY <1>3 DEF HearClose
  <2>1. \A what \in Opened : what \in ble.close =>
           Leg(done(what), n, c) /\ done(what).session = ble.session
    BY <1>0, DoneLeg
  <2>2. f \in FrameDown
    BY BoardRepairAssumption DEF FrameDown, NoRoom
  <2> HIDE DEF done, f
  <2>3. CASE "remoteFin" \in ble.close /\ ble' = Down(done("remoteFin"), f)
    <3>1. Leg(done("remoteFin"), n, c) /\ done("remoteFin").session # 0
      BY <2>1, <2>3, <1>0 DEF Opened
    <3> QED BY <3>1, <2>2, <2>3, DownLeg
  <2>4. ASSUME NEW what \in {"finAck", "ackSent"}, what \in ble.close,
               ble' = MaybeClosed(done(what), ble.session)
        PROVE  Leg(ble', n, c)
    <3>1. Leg(done(what), n, c) /\ done(what).session # 0
      BY <2>1, <2>4, <1>0 DEF Opened
    <3> QED BY <3>1, <2>4, <1>0, ClosedLeg
  <2> QED BY <2>0, <2>3, <2>4, <1>f, <1>0
<1> QED BY <1>1, <1>2, <1>3 DEF HostEvents

\* What the board takes and answers keeps the leg.
LEMMA BoardLeg ==
    ASSUME NEW n \in Nat, NEW c, Leg(ble, n, c), BoardTakes
    PROVE  Leg(ble', n, c)
<1> DEFINE f == Head(ble.down)
           rest == [ble EXCEPT !.down = Tail(@)]
           answer(ts) == [i \in DOMAIN ts |-> [type |-> ts[i], room |-> f.room]]
           up(ts) == [rest EXCEPT !.up = @ \o answer(ts)]
           Replies == {"capable", "repair", "fin", "ack", "written"}
<1>1. /\ ble \in LegTo(n) /\ ble.down \in Seq(FrameDown) /\ ble.down # <<>>
      /\ ble.session # 0
  BY DEF Leg, LegTo, BoardTakes
<1>2. Tail(ble.down) \in Seq(FrameDown) /\ f \in FrameDown
  BY <1>1, Rested
<1>3. /\ rest \in LegTo(n) /\ rest.session = ble.session /\ rest.events = ble.events
  BY <1>1, <1>2 DEF LegTo
<1>4. f.room \in 0..NumRooms
  BY <1>2 DEF FrameDown
<1>0. ble' = rest \/ \E ts \in {<<"capable">>, <<"repair", "fin">>, <<"ack">>, <<"written">>} : ble' = up(ts)
  <2>1. f.type \in {"bundle", "repair", "fin", "ack"}
    BY <1>2 DEF FrameDown
  <2> QED BY <2>1 DEF BoardTakes
<1> HIDE DEF f, rest
<1>5. Leg(rest, n, c)
  BY <1>1, <1>3 DEF Leg
<1>6. ASSUME NEW ts \in Seq(Replies) PROVE Leg(up(ts), n, c)
  <2>1. answer(ts) \in Seq(FrameUp)
    <3>1. \A t \in Replies : [type |-> t, room |-> f.room] \in FrameUp
      BY <1>4 DEF FrameUp
    <3>2. Len(ts) \in Nat /\ DOMAIN ts = 1..Len(ts) /\ \A i \in 1..Len(ts) : ts[i] \in Replies
      OBVIOUS
    <3>3. answer(ts) \in [1..Len(ts) -> FrameUp]
      BY <3>1, <3>2
    <3> QED BY <3>2, <3>3
  <2> HIDE DEF answer
  <2>2. rest.up \o answer(ts) \in Seq(FrameUp)
    <3>1. rest.up \in Seq(FrameUp) BY <1>3 DEF LegTo
    <3> QED BY <3>1, <2>1
  <2>3. up(ts) \in LegTo(n) /\ up(ts).session = rest.session /\ up(ts).events = rest.events
    BY <1>3, <2>2 DEF LegTo
  <2> HIDE DEF up
  <2>4. Leg(up(ts), n, c)
    BY <2>3, <1>1, <1>3, <1>5 DEF Leg
  <2> QED BY <2>4
<1>7. {<<"capable">>, <<"repair", "fin">>, <<"ack">>, <<"written">>} \subseteq Seq(Replies)
  OBVIOUS
<1> HIDE DEF up, Replies
<1> QED BY <1>0, <1>5, <1>6, <1>7

\* A session opens where none is: it may ask, for nobody else will be heard to.
LEMMA OpenOK ==
    ASSUME NEW n \in Nat, n = spent.sessions, RepairInv, OpenSession
    PROVE  RepairInv'
<1> DEFINE m == n + 1
           c == comp.binding
           u == spent.unended
           x1 == [ble EXCEPT !.session = m]
           x2 == [x1 EXCEPT !.link = "repairing"]
           x3 == PublishBle(x2, LinkEvent("repairing"))
           e == [type |-> "required", binding |-> m]
           x4 == PublishBle(x3, e)
<1>0. /\ comp \in CompTo(n) /\ comp.requested \in {0, comp.binding}
      /\ Room(room, n, c, u) /\ Leg(ble, n, c) /\ ble.session = 0
      /\ spent \in Counts
      /\ comp' = comp /\ room' = room
  BY DEF RepairInv, OpenSession
<1>1. spent' \in Counts /\ spent'.sessions = m /\ spent'.unended = u
  BY <1>0 DEF OpenSession, Spending, Counts
<1>2. m \in Nat \ {0} /\ m \in 0..m /\ m \in 1..m
  OBVIOUS
<1>3. /\ comp \in CompTo(m) /\ Room(room, m, c, u) /\ ble \in LegTo(m) /\ Parted(ble.events, c, 0)
  BY <1>0, MoreSessions DEF Room, Leg
<1>4. ble' = x4
  BY DEF OpenSession
<1>r. /\ LinkEvent("repairing") \in BleEventTo(m) /\ LinkEvent("repairing").type # "required"
      /\ e \in BleEventTo(m)
  BY <1>2, BleEventsTyped DEF LinkEvent, LinkNames
<1> HIDE DEF m, e, u
<1>5. /\ x1 \in LegTo(m) /\ x1.session = m /\ x1.events = ble.events
  BY <1>2, <1>3 DEF LegTo
<1> HIDE DEF x1
<1>6. /\ x2 \in LegTo(m) /\ x2.session = m /\ x2.events = ble.events
  BY <1>5 DEF LegTo, LinkNames
<1> HIDE DEF x2
<1>7. ble.events \in Seq(BleEventTo(m))
  BY <1>3 DEF LegTo
<1>8. /\ Append(ble.events, LinkEvent("repairing")) \in Seq(BleEventTo(m))
      /\ Parted(Append(ble.events, LinkEvent("repairing")), c, 0)
  BY <1>7, <1>3, <1>r, PartedGrows
<1>9. /\ x3 \in LegTo(m) /\ x3.session = m
      /\ x3.events = Append(ble.events, LinkEvent("repairing"))
  BY <1>6, <1>8 DEF PublishBle, LegTo
<1> HIDE DEF x3
<1>10. Append(x3.events, e) \in Seq(BleEventTo(m)) /\ Parted(Append(x3.events, e), c, m)
  <2>1. x3.events \in Seq(BleEventTo(m)) /\ Parted(x3.events, c, 0) /\ m # 0
    BY <1>8, <1>9, <1>2
  <2>2. Append(x3.events, e) \in Seq(BleEventTo(m))
    BY <2>1, <1>r
  <2>3. Parted(Append(x3.events, e), c, m)
    BY <2>1, <1>r, PartedAsks
  <2> QED BY <2>2, <2>3
<1>11. x4 \in LegTo(m) /\ x4.session = m /\ x4.events = Append(x3.events, e)
  BY <1>9, <1>10 DEF PublishBle, LegTo
<1> HIDE DEF x4
<1>12. Leg(x4, m, c)
  BY <1>10, <1>11, <1>2 DEF Leg
<1>13. Leg(ble', m, comp'.binding) /\ Room(room', m, comp'.binding, u) /\ comp' \in CompTo(m)
  BY <1>0, <1>3, <1>4, <1>12
<1>14. m \in Nat /\ m = spent'.sessions /\ u = spent'.unended /\ spent' \in Counts
  BY <1>1, <1>2
<1>15. comp'.requested \in {0, comp'.binding}
  BY <1>0
<1> HIDE DEF c
<1> QED BY <1>13, <1>14, <1>15, PrimedInv

-----------------------------------------------------------------------------
(* The system.                                                            *)

\* RepairInv is inductive.
LEMMA RepairStep == RepairInv /\ [RepairNext]_repairVars => RepairInv'
<1> SUFFICES ASSUME RepairInv, [RepairNext]_repairVars PROVE RepairInv'
  OBVIOUS
<1> DEFINE n == spent.sessions
           c == comp.binding
           u == spent.unended
<1>0. /\ n \in Nat /\ spent \in Counts /\ comp \in CompTo(n) /\ comp.requested \in {0, c}
      /\ Room(room, n, c, u) /\ Leg(ble, n, c)
  BY DEF RepairInv, Counts
<1>s. \A what \in {"switches", "troubles", "repeats"} : \A bound :
         Spending(what, bound) => spent' \in Counts /\ spent'.sessions = n /\ spent'.unended = u
  BY <1>0 DEF Spending, Counts
<1>u. ASSUME Room(room', n, c, u), Leg(ble', n, c), comp' = comp, spent' \in Counts,
             spent'.sessions = n, spent'.unended = u
      PROVE  RepairInv'
  BY <1>0, <1>u, PrimedInv
<1>1. CASE Composite
  <2>1. Composed(n)
    BY <1>0, <1>1, HearRoomOK, HearBundleOK, HearAttemptOK, HearBleOK DEF Composite
  <2> QED BY <2>1, <1>0, ComposedInv
<1>2. CASE RoomDriver
  <2>1. spent' = spent \/ Spending("repeats", MaxRepeats)
    BY <1>2 DEF RoomDriver, Prepare, Start, ObserveFrame, ConfirmClose, AbortAttempt, Switch
  <2>2. spent' \in Counts /\ spent'.sessions = n /\ spent'.unended = u
    BY <2>1, <1>s, <1>0
  <2>3. Room(room', n, c, u) /\ comp' = comp /\ ble' = ble
    BY <1>0, <1>2, DriverSteps
  <2> QED BY <2>2, <2>3, <1>0, <1>u
<1>3. CASE HostEvents
  <2>1. comp' = comp /\ room' = room /\ spent' = spent
    BY <1>3 DEF HostEvents, HearCapability, HearFrame, HearClose, Arrives
  <2>2. Leg(ble', n, c)
    BY <1>0, <1>3, HostLeg
  <2> QED BY <2>1, <2>2, <1>0, <1>u
<1>4. CASE BoardTakes
  <2>1. comp' = comp /\ room' = room /\ spent' = spent
    BY <1>4 DEF BoardTakes
  <2>2. Leg(ble', n, c)
    BY <1>0, <1>4, BoardLeg
  <2> QED BY <2>1, <2>2, <1>0, <1>u
<1>5. CASE Deadline
  <2>1. spent' = spent \/ Spending("troubles", MaxTroubles)
    BY <1>5 DEF Deadline
  <2>2. spent' \in Counts /\ spent'.sessions = n /\ spent'.unended = u
    BY <2>1, <1>s, <1>0
  <2>3. comp' = comp /\ room' = room /\ Leg(ble', n, c)
    BY <1>0, <1>5, FailLeg DEF Deadline
  <2> QED BY <2>2, <2>3, <1>0, <1>u
<1>6. CASE SelectRooms
  <2>1. spent' \in Counts /\ spent'.sessions = n /\ spent'.unended = u
    BY <1>6, <1>s DEF SelectRooms
  <2>2. PICK r \in 0..NumRooms : room' = Enqueued(room, [type |-> "join", room |-> r])
    BY <1>6 DEF SelectRooms
  <2>3. Room(room', n, c, u)
    BY <2>2, <1>0, QueuedRoom, CommandsTyped DEF Enqueued
  <2> QED BY <2>1, <2>3, <1>0, <1>6, <1>u DEF SelectRooms
<1>7. CASE OpenSession
  BY <1>0, <1>7, OpenOK
<1>8. CASE LoseSession
  <2>1. Leg(ble', n, c)
    BY <1>0, <1>8, LostLeg DEF LoseSession
  <2> QED BY <2>1, <1>0, <1>8, <1>u DEF LoseSession
<1>9. CASE UNCHANGED repairVars
  BY <1>9, <1>0, <1>u DEF repairVars
<1> HIDE DEF n, c, u
<1> QED BY <1>1, <1>2, <1>3, <1>4, <1>5, <1>6, <1>7, <1>8, <1>9 DEF RepairNext

\* RepairInv holds at the start.
LEMMA RepairStart == RepairInit => RepairInv
<1> SUFFICES ASSUME RepairInit PROVE RepairInv
  OBVIOUS
<1>1. spent \in Counts /\ spent.sessions = 0 /\ spent.unended = {} /\ comp.binding = 0
  BY DEF RepairInit, Counts
<1>e. /\ <<>> \in Seq(CommandTo(0)) /\ <<>> \in Seq(RoomEventTo(0)) /\ <<>> \in Seq(BleEventTo(0))
      /\ <<>> \in Seq(FrameDown) /\ <<>> \in Seq(FrameUp)
      /\ 0 \in 0..0 /\ NoRoom \in 0..NumRooms
  BY BoardRepairAssumption DEF NoRoom
<1>2. comp \in CompTo(0) /\ comp.requested \in {0, comp.binding}
  BY <1>e DEF RepairInit, CompTo
<1>3. NoAttempt \in [binding : 0..0, terminal : BOOLEAN] /\ NoAttempt.binding = 0
  BY <1>e DEF NoAttempt
<1>4. room \in RoomTo(0)
  BY <1>e, <1>3 DEF RepairInit, RoomTo
<1>5. Room(room, 0, 0, {})
  BY <1>3, <1>4 DEF RepairInit, Room, InOrder
<1>6. ble \in LegTo(0)
  BY <1>e DEF RepairInit, LegTo, LinkNames
<1>7. Leg(ble, 0, 0)
  BY <1>6 DEF RepairInit, Leg, Parted
<1> QED BY <1>1, <1>2, <1>5, <1>7 DEF RepairInv

\* Whatever is fair, the steps of the repair keep RepairInv.
LEMMA RepairHolds == RepairInit /\ [][RepairNext]_repairVars => []RepairInv
BY RepairStart, RepairStep, PTL

\* The composite, the room and the leg keep the shape and the order of RepairInv.
THEOREM RepairInvariant == RepairSpec => []RepairInv
BY RepairHolds, PTL DEF RepairSpec

\* What the invariant says includes the shape of the state.
LEMMA RepairShape == RepairInv => RepairTypeOK
<1> SUFFICES ASSUME RepairInv PROVE RepairTypeOK
  OBVIOUS
<1> DEFINE n == spent.sessions
<1>1. /\ n \in Nat /\ comp \in CompTo(n) /\ comp.requested \in {0, comp.binding}
      /\ room \in RoomTo(n) /\ ble \in LegTo(n)
      /\ ble.session = 0 => ble.close = NoClose /\ ~ble.awaiting /\ ~ble.deadline
  BY DEF RepairInv, Room, Leg, Counts
<1> HIDE DEF n
<1>2. comp.binding \in 0..n
  BY <1>1 DEF CompTo
<1>3. room.attempt.binding \in 0..n
  BY <1>1 DEF RoomTo
<1>4. ble.link \in LinkNames /\ ble.close \in (SUBSET Opened) \cup {NoClose}
  BY <1>1 DEF LegTo
<1> QED BY <1>1, <1>2, <1>3, <1>4 DEF RepairTypeOK, LinkNames, n

\* The state has the shape of the structs; what a lost session was doing is gone.
THEOREM RepairTypeCorrect == RepairSpec => []RepairTypeOK
BY RepairShape, RepairInvariant, PTL

\* What the invariant says of the queue lets no attempt of a session that is gone
\* stand before the start of a later one.
LEMMA RepairLetsIn == RepairInv => NoAttemptInTheWay
<1> SUFFICES ASSUME RepairInv, room.queue # <<>>, Head(room.queue).type = "start",
                    room.attempt.binding \notin {0, Head(room.queue).binding} \cup spent.unended
             PROVE  FALSE
  BY DEF NoAttemptInTheWay
<1> DEFINE n == spent.sessions
           u == spent.unended
<1>1. room.queue \in Seq(CommandTo(n)) /\ InOrder(room.queue, room.attempt.binding, comp.binding, u)
  BY DEF RepairInv, Room, RoomTo
<1> HIDE DEF n
<1>2. /\ 1 \in DOMAIN room.queue /\ Head(room.queue) = room.queue[1]
      /\ \A k \in DOMAIN room.queue : ~(k < 1)
  BY <1>1, Rested
<1> QED BY <1>1, <1>2 DEF InOrder, IsStart

\* An attempt of a session that is gone never keeps a later session out, unless
\* the full queue refused the abort of that session.
THEOREM NoSessionIsKeptOut == RepairSpec => []NoAttemptInTheWay
BY RepairLetsIn, RepairInvariant, PTL

-----------------------------------------------------------------------------
(***************************************************************************)
(* The instance that TLC checks composes the four parts of the bridge.     *)
(* Its fairness is about the steps of the part that runs, so what carries  *)
(* over to it from the parts is what their steps alone say: safety.        *)
(***************************************************************************)

\* A step of the instance is a step of one part, the others stutter.
THEOREM NativeIsItsParts ==
    NativeSpec => /\ BridgeInit /\ [][BridgeNext]_bridgeVars
                  /\ RepairInit /\ [][RepairNext]_repairVars
                  /\ LinkInit /\ [][LinkNext]_linkVars
                  /\ TxInit /\ [][TxNext]_txVars
<1>1. NativeInit => BridgeInit /\ RepairInit /\ LinkInit /\ TxInit
  BY DEF NativeInit
<1>2. [NativeNext]_nativeVars => [BridgeNext]_bridgeVars
  BY DEF NativeNext, nativeVars, OnlyRepair, OnlyLink, OnlyTx
<1>3. [NativeNext]_nativeVars => [RepairNext]_repairVars
  BY DEF NativeNext, nativeVars, OnlyBridge, OnlyLink, OnlyTx
<1>4. [NativeNext]_nativeVars => [LinkNext]_linkVars
  BY DEF NativeNext, nativeVars, OnlyBridge, OnlyRepair, OnlyTx
<1>5. [NativeNext]_nativeVars => [TxNext]_txVars
  BY DEF NativeNext, nativeVars, OnlyBridge, OnlyRepair, OnlyLink
<1> QED BY <1>1, <1>2, <1>3, <1>4, <1>5, PTL DEF NativeSpec

\* The invariants of the four parts hold together in every behaviour of the instance.
THEOREM NativeInvariant == NativeSpec => [](BridgeInv /\ RepairInv /\ LinkInv /\ TxInv)
BY NativeIsItsParts, BridgeHolds, RepairHolds, LinkHolds, TxHolds, PTL

\* In every behaviour of the instance the state of the pitch bridge, of the repair
\* of a board, of its link and of the scheduler has the shape of their structs.
THEOREM NativeTypesCorrect == NativeSpec => []NativeTypeOK
<1>1. BridgeInv /\ RepairInv /\ LinkInv /\ TxInv => NativeTypeOK
  BY BridgeShape, RepairShape, LinkShape DEF NativeTypeOK, TxInv
<1> QED BY <1>1, NativeInvariant, PTL

\* In every behaviour of the instance an edit made on the board is not repainted
\* over, no attempt of a session that is gone keeps a later one out unless its abort
\* was refused, an intent ends for cause, and only a trusted board is offered an authentication.
THEOREM NativeIsSafe ==
    NativeSpec => /\ [](NoRepaintOverEdit /\ NoAttemptInTheWay)
                  /\ IntentEndsForCause
                  /\ OnlyTrustedAreOffered
<1>1. BridgeInv /\ RepairInv => NoRepaintOverEdit /\ NoAttemptInTheWay
  BY BridgeFences, RepairLetsIn
<1>2. NativeSpec => IntentEndsForCause
  <2>1. BridgeInv /\ [BridgeNext]_bridgeVars => [Caused]_bridgeVars
    BY BridgeStep
  <2>2. NativeSpec => [][Caused]_bridgeVars
    BY <2>1, NativeIsItsParts, NativeInvariant, PTL
  <2> QED BY <2>2 DEF IntentEndsForCause, Caused
<1>3. NativeSpec => OnlyTrustedAreOffered
  <2> DEFINE Step == link'.auth = "offered" /\ link.round # link'.round =>
                         link'.hello \in link'.trusted
  <2>1. LinkInv /\ [LinkNext]_linkVars => [Step]_linkVars
    BY LinkStep DEF Sound
  <2>2. NativeSpec => [][Step]_linkVars
    BY <2>1, NativeIsItsParts, NativeInvariant, PTL
  <2> QED BY <2>2 DEF OnlyTrustedAreOffered
<1> QED BY <1>1, <1>2, <1>3, NativeInvariant, PTL

=============================================================================
