----------------------------- MODULE RoomProofs -----------------------------
(***************************************************************************)
(* Proofs about the room under a window and about the window over it: the  *)
(* replicas of a room for any number of members, entries and presence      *)
(* frames, and window and host for any number of pieces, peers, voices and *)
(* changes.                                                                *)
(*                                                                         *)
(* The argument for the replicas, that what one has admitted no other      *)
(* refuses: an entry is judged by its own past alone, a replica that       *)
(* admits it holds that past, and what is held never changes.  So whatever *)
(* was valid where its author stood is valid wherever it arrives.          *)
(*                                                                         *)
(* The argument for the window, that one which has applied every event     *)
(* shows what its host holds: the snapshot the window reaches once it has  *)
(* applied the events on their way agrees with the host's.  A step of the  *)
(* host changes its snapshot as the events it sends change the window's,   *)
(* and a step of the window only moves it along.                           *)
(***************************************************************************)
EXTENDS MCRoom, RoomSessionProofs, FiniteSetTheorems, SequenceTheorems, WellFoundedInduction, TLAPS

Made == 1 .. Len(entries)

\* What a member signs; the rank, which stands for the hash, comes with storage.
Signable ==
    [op : Command \cup Capability, by : Replica \cup {Owner}, presented : SUBSET Id,
     past : SUBSET Id]

Shape ==
    /\ entries \in Seq(ReplicaEntry)
    /\ \A e \in Made : entries[e].rank \in -MaxEntries .. MaxEntries
    /\ IsFiniteSet(frames)
    /\ Len(entries) + Cardinality(frames) =< MaxEntries
    /\ history \in [Replica -> SUBSET Made]
    /\ prepared \in [Replica -> SUBSET Signable]
    /\ \A r \in Replica : \A e, f \in prepared[r] : e = f

\* An entry follows its past, and a history holds the past of all it holds.
PastsOK ==
    /\ \A e \in Made : entries[e].past \subseteq 1 .. e - 1
    /\ \A r \in Replica : \A e \in history[r] : entries[e].past \subseteq history[r]

\* Every entry was valid where its author stood; the grants of the founded room
\* were there before anybody judged them.
EntriesSound ==
    \A e \in Made :
        \/ Op(e).kind = "grant" /\ \A r \in Replica : e \in history[r]
        \/ Validate(entries[e], entries[e].past)

\* So is what a worker has prepared, whatever has been stored since.
PreparedSound ==
    \A r \in Replica : \A e \in prepared[r] : e.past \subseteq Made /\ Validate(e, e.past)

\* A frame presents a grant to its author that is part of the frame's position.
FramesSound ==
    \A f \in frames :
        /\ f.at \subseteq Made
        /\ \E g \in f.presented \cap f.at :
               Op(g).kind = "grant" /\ Op(g).to = f.by /\ Covers(Op(g).area, "pieces")

ReplicaInv == Shape /\ PastsOK /\ EntriesSound /\ PreparedSound /\ FramesSound

-----------------------------------------------------------------------------
(* Minimal elements, for the winner among concurrent writes.               *)

\* A set of numbers that is not empty has a least one.
LEMMA LeastNatural ==
    ASSUME NEW T \in SUBSET Nat, T # {}
    PROVE  \E m \in T : \A k \in T : m =< k
<1> DEFINE R == {p \in Nat \X Nat : p[1] < p[2]}
<1>1. IsWellFoundedOn(R, Nat)
    BY NatLessThanWellFounded DEF OpToRel
<1>2. \A k, m \in Nat : k < m => <<k, m>> \in R
    OBVIOUS
<1> HIDE DEF R
<1>3. PICK m \in T : \A k \in T : <<k, m>> \notin R
    BY <1>1, WFMin
<1>4. ASSUME NEW k \in T PROVE m =< k
    <2>1. k \in Nat /\ m \in Nat
        OBVIOUS
    <2>2. ~(k < m)
        BY <1>2, <1>3, <2>1, Zenon
    <2> QED BY <2>1, <2>2
<1> QED BY <1>4

\* ResolveRegister finds a write that none of the others has seen, and of those
\* the one with the largest hash.
LEMMA WinnerExists ==
    ASSUME Shape, PastsOK, NEW S \in SUBSET Made, S # {}
    PROVE  /\ ResolveRegister(S) \in S
           /\ \A v \in S : ~Ancestor(ResolveRegister(S), v)
<1> DEFINE latest == {w \in S : \A v \in S : ~Ancestor(w, v)}
<1>1. PICK w \in S : \A v \in S : v =< w
    <2> DEFINE n == Len(entries)
               T == {n - x : x \in S}
    <2>1. n \in Nat /\ S \subseteq 1 .. n
        BY DEF Shape, Made
    <2>2. T \in SUBSET Nat /\ T # {}
        <3>1. \A x \in S : n - x \in Nat
            BY <2>1
        <3> HIDE DEF n
        <3> QED BY <3>1
    <2>3. PICK m \in T : \A k \in T : m =< k
        BY <2>2, LeastNatural
    <2>4. PICK w \in S : m = n - w
        OBVIOUS
    <2>5. ASSUME NEW v \in S PROVE v =< w
        <3>1. n - w =< n - v
            BY <2>3, <2>4
        <3> QED BY <2>1, <3>1
    <2> QED BY <2>5
<1>2. w \in latest
    <2> SUFFICES ASSUME NEW v \in S, w \in entries[v].past PROVE FALSE
        BY DEF Ancestor
    <2>1. w \in 1 .. v - 1 /\ v \in Nat
        BY DEF PastsOK, Made
    <2> QED BY <1>1, <2>1
<1>3. PICK u \in latest : \A v \in latest : entries[v].rank =< entries[u].rank
    <2> DEFINE T == {MaxEntries - entries[x].rank : x \in latest}
    <2>1. \A x \in latest : entries[x].rank \in -MaxEntries .. MaxEntries
        BY DEF Shape
    <2>2. T \in SUBSET Nat /\ T # {}
        <3> HIDE DEF latest
        <3> QED BY <1>2, <2>1, ReplicaAssumption
    <2>3. PICK m \in T : \A k \in T : m =< k
        BY <2>2, LeastNatural
    <2>4. PICK u \in latest : m = MaxEntries - entries[u].rank
        OBVIOUS
    <2>5. ASSUME NEW v \in latest PROVE entries[v].rank =< entries[u].rank
        <3> HIDE DEF latest
        <3>1. MaxEntries - entries[u].rank =< MaxEntries - entries[v].rank
            BY <2>3, <2>4
        <3> QED BY <2>1, <3>1, ReplicaAssumption
    <2> QED BY <2>5
<1>4. ResolveRegister(S) \in latest
    <2>1. ResolveRegister(S) = CHOOSE x \in latest : \A v \in latest : entries[v].rank =< entries[x].rank
        BY DEF ResolveRegister
    <2> HIDE DEF latest
    <2> QED BY <1>3, <2>1, Zenon
<1> QED BY <1>4

-----------------------------------------------------------------------------
(* Judgements do not change as further entries are made.                   *)

Kept == Len(entries) =< Len(entries') /\ \A x \in Made : entries'[x] = entries[x]

\* Whether a grant holds is decided by entries that do not change.
LEMMA HoldsKept ==
    ASSUME Shape, Kept, NEW g \in Made, NEW at \in SUBSET Made, NEW known \in SUBSET Made
    PROVE  GrantHolds(g, at, known)' <=> GrantHolds(g, at, known)
<1>1. \A x \in known : Op(x)' = Op(x) /\ entries'[x].past = entries[x].past
    BY DEF Kept, Op
<1>2. Op(g)' = Op(g)
    BY DEF Kept, Op
<1>3. Revocations(g, known)' = Revocations(g, known)
    BY <1>1, <1>2 DEF Revocations
<1> QED BY <1>1, <1>3 DEF GrantHolds, Revocations

\* So is whether an actor is authorized,
LEMMA AuthorizedKept ==
    ASSUME Shape, Kept, NEW actor, NEW area, NEW presented,
           NEW at \in SUBSET Made, NEW known \in SUBSET Made
    PROVE  Authorized(actor, area, presented, at, known)'
               <=> Authorized(actor, area, presented, at, known)
<1>1. \A g \in at : Op(g)' = Op(g) /\ (GrantHolds(g, at, known)' <=> GrantHolds(g, at, known))
    BY HoldsKept DEF Op, Kept
<1> QED BY <1>1 DEF Authorized, Covers

\* which write wins,
LEMMA ResolveKept ==
    ASSUME Shape, Kept, NEW S \in SUBSET Made
    PROVE  ResolveRegister(S)' = ResolveRegister(S)
<1>1. \A x \in S : entries'[x] = entries[x]
    BY DEF Kept
<1> DEFINE latest == {w \in S : \A v \in S : ~Ancestor(w, v)}
<1>2. latest' = latest
    BY <1>1 DEF Ancestor
<1>3. \A w \in latest : (\A v \in latest : entries[v].rank =< entries[w].rank)
                       <=> (\A v \in latest : entries'[v].rank =< entries'[w].rank)
    BY <1>1
<1>4. (CHOOSE w \in latest : \A v \in latest : entries[v].rank =< entries[w].rank)
       = (CHOOSE w \in latest : \A v \in latest : entries'[v].rank =< entries'[w].rank)
    <2> HIDE DEF latest
    <2> QED BY <1>3, Zenon
<1> QED BY <1>2, <1>4 DEF ResolveRegister

\* The lock where an entry stands is settled by that entry's past.
LEMMA LockKept ==
    ASSUME Shape, PastsOK, Kept, NEW known, NEW past \in SUBSET Made
    PROVE  LockAt(known, past)' <=> LockAt(known, past)
<1> DEFINE S == Locks(past)
<1>1. S \in SUBSET Made
    BY DEF Locks
<1>2. S' = S
    BY DEF Locks, Op, Kept
<1>3. ASSUME S # {} PROVE Op(ResolveRegister(S))' = Op(ResolveRegister(S))
    <2>1. ResolveRegister(S) \in Made
        BY <1>1, <1>3, WinnerExists
    <2>2. ResolveRegister(S)' = ResolveRegister(S)
        BY <1>1, <1>2, ResolveKept
    <2> QED BY <2>1, <2>2 DEF Op, Kept
<1> QED BY <1>2, <1>3 DEF LockAt

\* and whether an entry is valid.
LEMMA ValidKept ==
    ASSUME Shape, PastsOK, Kept, NEW e, NEW known \in SUBSET Made, e.past \in SUBSET Made
    PROVE  Validate(e, known)' <=> Validate(e, known)
<1>1. \A x \in Made : Op(x)' = Op(x) /\ entries'[x].by = entries[x].by
    BY DEF Op, Kept
<1>2. ValidPresented(e)' <=> ValidPresented(e)
    BY AuthorizedKept DEF ValidPresented
<1>3. \A t, k : TargetIs(t, k, known)' <=> TargetIs(t, k, known)
    BY <1>1 DEF TargetIs
<1>4. ValidExtension(e.op, e.past, known)' <=> ValidExtension(e.op, e.past, known)
    BY <1>3, LockKept DEF ValidExtension
<1>5. ASSUME ~IsCommand(e.op) PROVE ValidCapability(e, known)' <=> ValidCapability(e, known)
    <2>1. CASE e.op.kind = "grant"
        BY <2>1, AuthorizedKept DEF ValidCapability
    <2>2. CASE e.op.kind = "revoke"
        <3>1. e.op.target \in e.past =>
                  (Authorized(e.by, Op(e.op.target).area, e.presented, e.past, e.past)'
                      <=> Authorized(e.by, Op(e.op.target).area, e.presented, e.past, e.past))
            BY <1>1, AuthorizedKept
        <3> QED BY <1>1, <1>3, <2>2, <3>1 DEF ValidCapability
    <2> QED BY <1>5, <2>1, <2>2 DEF IsCommand
<1> QED BY <1>2, <1>4, <1>5 DEF Validate, IsCommand

\* What a replica has learned beyond an entry's past does not turn the judgement.
LEMMA ValidWherePastIs ==
    ASSUME NEW e, NEW known, e.past \subseteq known, Validate(e, e.past)
    PROVE  Validate(e, known)
<1>1. \A t, k : TargetIs(t, k, e.past) => TargetIs(t, k, known)
    BY DEF TargetIs
<1>2. LockAt(known, e.past) <=> LockAt(e.past, e.past)
    BY DEF LockAt
<1>3. CASE IsCommand(e.op)
    <2>1. ValidExtension(e.op, e.past, e.past) => ValidExtension(e.op, e.past, known)
        BY <1>1, <1>2 DEF ValidExtension
    <2> QED BY <1>3, <2>1 DEF Validate
<1>4. CASE ~IsCommand(e.op)
    <2>1. CASE e.op.kind = "grant"
        BY <1>4, <2>1 DEF Validate, ValidCapability
    <2>2. CASE e.op.kind = "revoke"
        BY <1>1, <1>4, <2>2 DEF Validate, ValidCapability
    <2> QED BY <1>4, <2>1, <2>2 DEF IsCommand
<1> QED BY <1>3, <1>4

\* A judgement is about what is signed: the hash plays no part.
LEMMA ValidAsSigned ==
    ASSUME NEW e, NEW f, NEW known, f.op = e.op, f.by = e.by, f.presented = e.presented,
           f.past = e.past, Validate(e, known)
    PROVE  Validate(f, known)
<1>1. ValidPresented(e) <=> ValidPresented(f)
    BY DEF ValidPresented
<1>2. CASE e.op.kind = "grant"
    BY <1>2 DEF Validate, ValidCapability, IsCommand
<1>3. CASE e.op.kind = "revoke"
    BY <1>3 DEF Validate, ValidCapability, IsCommand
<1>4. CASE e.op.kind \notin {"grant", "revoke"}
    BY <1>1, <1>4 DEF Validate, IsCommand
<1> QED BY <1>2, <1>3, <1>4

-----------------------------------------------------------------------------
(* What a step stores was judged before.                                   *)

\* The fields a command or a capability needs.
LEMMA OpFields ==
    ASSUME NEW op \in Command \cup Capability
    PROVE  /\ op.kind \in {"put", "move", "remove", "unremove", "config", "grant", "revoke"}
           /\ op.kind \in {"put", "move"} => op.pitch \in Pitch
           /\ op.kind \in {"move", "remove"} => op.piece \in Id
           /\ op.kind = "unremove" => op.remove \in Id
           /\ op.kind = "config" => op.locked \in BOOLEAN
           /\ op.kind = "grant" => op \in Capability /\ op.path \in SUBSET Id /\ op.area \in Area
           /\ op.kind = "revoke" => op \in Capability /\ op.target \in Id
BY DEF Command, Capability

\* Entries have their identifiers, in finite number.
LEMMA MadeAreIds ==
    ASSUME Shape
    PROVE  /\ Len(entries) \in Nat
           /\ Cardinality(frames) \in Nat
           /\ Made \subseteq Id
           /\ CanSign => Len(entries) + 1 \in Id
BY FS_CardinalityType, ReplicaAssumption DEF Shape, Made, Id, CanSign

\* The types of an entry that was made.
LEMMA EntryFacts ==
    ASSUME Shape, NEW e \in Made
    PROVE  /\ entries[e] \in ReplicaEntry
           /\ Op(e) \in Command \cup Capability
           /\ entries[e].past \in SUBSET Id
<1>1. entries[e] \in ReplicaEntry
    BY DEF Shape, Made
<1> QED BY <1>1 DEF ReplicaEntry, Op

\* What a member signs has the type of an entry and the past its replica holds.
LEMMA SignedFacts ==
    ASSUME Shape, NEW r \in Replica, NEW op \in Command \cup Capability,
           NEW by \in Replica \cup {Owner}, NEW presented \in SUBSET Id,
           NEW e \in Signed(r, op, by, presented)
    PROVE  /\ e \in Signable
           /\ e.past = history[r]
           /\ e.op = op
           /\ CanSign
           /\ Validate(e, e.past)
<1>1. /\ e = [op |-> op, by |-> by, presented |-> presented, past |-> history[r]]
      /\ CanSign /\ Validate(e, history[r])
    BY DEF Signed
<1>2. history[r] \in SUBSET Id
    BY MadeAreIds DEF Shape
<1> QED BY <1>1, <1>2 DEF Signable

\* Grants are entries.
LEMMA LiveGrantsAreIds ==
    ASSUME Shape, NEW r \in Replica, NEW actor
    PROVE  LiveGrants(r, actor) \in SUBSET Id
BY MadeAreIds DEF LiveGrants, Shape

\* Edits are commands.
LEMMA EditsAreCommands ==
    ASSUME Shape, NEW r \in Replica, NEW op \in Edits(r)
    PROVE  op \in Command
<1>1. history[r] \subseteq Id
    BY MadeAreIds DEF Shape
<1> QED BY <1>1, ReplicaAssumption DEF Edits, Command

\* What becomes of the workers' prepared entries: one of them may go.
LessPrepared ==
    /\ prepared' \in [Replica -> SUBSET Signable]
    /\ \A r \in Replica : prepared'[r] \subseteq prepared[r]

\* A valid entry is stored by a replica that holds exactly its past.
Stores(r, e) ==
    /\ e \in Signable /\ e.past = history[r] /\ CanSign /\ Validate(e, e.past)
    /\ Stored(r, e)
    /\ LessPrepared
    /\ UNCHANGED frames

Prepares(r, e) ==
    /\ e \in Signable /\ e.past = history[r] /\ Validate(e, e.past)
    /\ Staged(r, e)

Inert == LessPrepared /\ UNCHANGED <<entries, history, frames>>

\* Each of the ways to author an entry ends in one of the two.
LEMMA AdmittedStores ==
    ASSUME ReplicaInv, NEW r \in Replica, NEW op \in Command \cup Capability,
           NEW by \in Replica \cup {Owner}, NEW presented \in SUBSET Id
    PROVE  /\ (\E e \in Signed(r, op, by, presented) : Admitted(r, e)) => \E e : Stores(r, e)
           /\ (\E e \in Signed(r, op, by, presented) : Staged(r, e)) => \E e : Prepares(r, e)
<1>1. Shape
    BY DEF ReplicaInv
<1>2. ASSUME NEW e \in Signed(r, op, by, presented), Admitted(r, e) PROVE Stores(r, e)
    <2>1. /\ e \in Signable /\ e.past = history[r] /\ CanSign /\ Validate(e, e.past)
        BY <1>1, SignedFacts
    <2>2. LessPrepared /\ UNCHANGED frames /\ Stored(r, e)
        BY <1>1, <1>2 DEF Admitted, LessPrepared, Shape
    <2> QED BY <2>1, <2>2 DEF Stores
<1>3. ASSUME NEW e \in Signed(r, op, by, presented), Staged(r, e) PROVE Prepares(r, e)
    BY <1>1, <1>3, SignedFacts DEF Prepares
<1> QED BY <1>2, <1>3

\* The steps of the room, by what they do to the stores.
LEMMA NextCases ==
    ASSUME ReplicaInv, ReplicaNext
    PROVE  \/ \E r \in Replica : \E e : Stores(r, e) \/ Prepares(r, e)
           \/ \E r \in Replica, e \in Made : AdmitEntry(r, e)
           \/ \E r \in Replica : Sign(r)
           \/ Inert
<1> DEFINE Authored == \E r \in Replica : \E e : Stores(r, e) \/ Prepares(r, e)
<1>1. Shape
    BY DEF ReplicaInv
<1>2. Root \in Id
    BY FS_CardinalityType, ReplicaAssumption DEF Root, Id
<1>3. ASSUME NEW r \in Replica, NEW op \in Edits(r), AuthorWith(r, op) \/ PrepareAuthor(r, op)
      PROVE  Authored
    <2>1. op \in Command \cup Capability
        BY <1>1, EditsAreCommands
    <2>2. LiveGrants(r, r) \in SUBSET Id
        BY <1>1, LiveGrantsAreIds
    <2> QED BY <1>3, <2>1, <2>2, AdmittedStores DEF AuthorWith, PrepareAuthor
<1>4. ASSUME NEW r \in Replica, GrantMember(r, r) \/ PrepareMemberGrant(r, r) PROVE Authored
    <2>1. MemberGrant(r) \in Command \cup Capability
        BY <1>2 DEF MemberGrant, Capability, Area
    <2>2. {Root} \in SUBSET Id
        BY <1>2
    <2> QED BY <1>4, <2>1, <2>2, AdmittedStores DEF GrantMember, PrepareMemberGrant
<1>5. ASSUME NEW r \in Replica, NEW to \in Replica, NEW parent \in history[r],
             Delegate(r, to, parent, "config")
      PROVE  Authored
    <2>1. parent \in Id /\ parent \in Made /\ Op(parent).kind = "grant"
        BY <1>1, <1>5, MadeAreIds DEF Delegate, LiveGrants, Shape
    <2>2. Op(parent) \in Command \cup Capability
        BY <1>1, <2>1, EntryFacts
    <2>3. Op(parent).path \cup {parent} \in SUBSET Id
        BY <2>1, <2>2, OpFields
    <2> DEFINE op == [kind |-> "grant", to |-> to, area |-> "config", parent |-> parent,
                      path |-> Op(parent).path \cup {parent}]
    <2>4. op \in Command \cup Capability
        BY <2>1, <2>3 DEF Capability, Area
    <2>5. \E e \in Signed(r, op, r, {parent}) : Admitted(r, e)
        BY <1>5 DEF Delegate
    <2> HIDE DEF op
    <2> QED BY <2>1, <2>4, <2>5, AdmittedStores
<1>6. ASSUME NEW r \in Replica, NEW target \in history[r], NEW barrier \in BOOLEAN,
             Revoke(r, Owner, target, barrier)
      PROVE  Authored
    <2>1. target \in Id
        BY <1>1, MadeAreIds DEF Shape
    <2> DEFINE op == [kind |-> "revoke", target |-> target, barrier |-> barrier]
    <2>2. op \in Command \cup Capability
        BY <2>1 DEF Capability
    <2>3. LiveGrants(r, Owner) \in SUBSET Id
        BY <1>1, LiveGrantsAreIds
    <2>4. \E e \in Signed(r, op, Owner, LiveGrants(r, Owner)) : Admitted(r, e)
        BY <1>6 DEF Revoke
    <2> HIDE DEF op
    <2> QED BY <2>2, <2>3, <2>4, AdmittedStores
<1>7. ASSUME NEW r \in Replica, CommitPrepared(r) PROVE Authored \/ Inert
    <2>1. LessPrepared /\ UNCHANGED frames
        BY <1>1, <1>7 DEF CommitPrepared, LessPrepared, Shape
    <2>2. PICK e \in prepared[r] :
              /\ CanSign
              /\ IF e.past = history[r] THEN Stored(r, e) ELSE UNCHANGED <<entries, history>>
        BY <1>7 DEF CommitPrepared
    <2>3. e \in Signable /\ Validate(e, e.past)
        BY DEF ReplicaInv, Shape, PreparedSound
    <2>4. CASE e.past = history[r]
        BY <2>1, <2>2, <2>3, <2>4 DEF Stores
    <2>5. CASE e.past # history[r]
        BY <2>1, <2>2, <2>5 DEF Inert
    <2> QED BY <2>4, <2>5
<1>8. ASSUME NEW r \in Replica, ReopenLog(r) PROVE Inert
    BY <1>1, <1>8 DEF ReopenLog, Inert, LessPrepared, Shape
<1>9. ASSUME NEW r \in Replica, SignPresence(r) \/ WorkerSignPresence(r) PROVE Sign(r)
    BY <1>9 DEF SignPresence, WorkerSignPresence
<1>10. ASSUME NEW r \in Replica, NEW frame \in frames,
              VerifyPresence(r, frame) \/ WorkerVerifyPresence(r, frame)
       PROVE  Inert
    BY <1>1, <1>10 DEF VerifyPresence, WorkerVerifyPresence, Hear, Inert, LessPrepared, Shape
<1> HIDE DEF Authored
<1>11. \/ Authored
       \/ \E r \in Replica, e \in Made : AdmitEntry(r, e)
       \/ \E r \in Replica : Sign(r)
       \/ Inert
    <2>1. PICK r \in Replica :
             \/ \E op \in Edits(r) : AuthorWith(r, op) \/ PrepareAuthor(r, op)
             \/ LiveGrants(r, r) = {} /\ (GrantMember(r, r) \/ PrepareMemberGrant(r, r))
             \/ \E to \in Replica \ {r}, parent \in history[r] :
                    Delegate(r, to, parent, "config")
             \/ \E target \in history[r], barrier \in BOOLEAN : Revoke(r, Owner, target, barrier)
             \/ \E e \in 1..Len(entries) : AdmitEntry(r, e)
             \/ CommitPrepared(r) \/ ReopenLog(r)
             \/ SignPresence(r) \/ WorkerSignPresence(r)
             \/ \E frame \in frames : VerifyPresence(r, frame) \/ WorkerVerifyPresence(r, frame)
        BY DEF ReplicaNext
    <2>2. ASSUME NEW e \in 1..Len(entries), AdmitEntry(r, e)
          PROVE  \E q \in Replica, f \in Made : AdmitEntry(q, f)
        BY <2>2 DEF Made
    <2> QED BY <1>3, <1>4, <1>5, <1>6, <1>7, <1>8, <1>9, <1>10, <2>1, <2>2, Zenon
<1> QED BY <1>11 DEF Authored

-----------------------------------------------------------------------------
(* The invariant.                                                          *)

\* What an entry is once it is stored.
LEMMA StoredFacts ==
    ASSUME Shape, NEW r \in Replica, NEW e, Stores(r, e)
    PROVE  \E n \in ReplicaEntry :
               /\ n.op = e.op /\ n.by = e.by /\ n.presented = e.presented /\ n.past = history[r]
               /\ n.rank \in -Len(entries) .. Len(entries)
               /\ entries' = Append(entries, n)
               /\ history' = [history EXCEPT ![r] = @ \cup {Len(entries) + 1}]
<1>1. PICK rank \in {-Len(entries), Len(entries)} :
          /\ entries' = Append(entries, [op |-> e.op, by |-> e.by, presented |-> e.presented,
                                         past |-> e.past, rank |-> rank])
          /\ history' = [history EXCEPT ![r] = @ \cup {Len(entries) + 1}]
    BY DEF Stores, Stored
<1> DEFINE n == [op |-> e.op, by |-> e.by, presented |-> e.presented,
                 past |-> e.past, rank |-> rank]
<1>2. Len(entries) \in Nat /\ e \in Signable /\ e.past = history[r]
    BY MadeAreIds DEF Stores
<1>3. n \in ReplicaEntry
    BY <1>2 DEF ReplicaEntry, Signable
<1>4. n.op = e.op /\ n.by = e.by /\ n.presented = e.presented /\ n.past = history[r]
    BY <1>2
<1>5. n.rank \in -Len(entries) .. Len(entries)
    BY <1>2
<1>6. entries' = Append(entries, n)
    BY <1>1
<1> HIDE DEF n
<1> QED BY <1>1, <1>3, <1>4, <1>5, <1>6

\* Appending an entry changes none before it.
LEMMA AppendKept ==
    ASSUME Shape, NEW n \in ReplicaEntry, entries' = Append(entries, n)
    PROVE  /\ Kept
           /\ entries' \in Seq(ReplicaEntry)
           /\ Len(entries') = Len(entries) + 1
           /\ Made' = Made \cup {Len(entries) + 1}
           /\ entries'[Len(entries) + 1] = n
           /\ Len(entries) + 1 \notin Made
<1>1. entries \in Seq(ReplicaEntry) /\ Len(entries) \in Nat
    BY DEF Shape
<1>2. /\ entries' \in Seq(ReplicaEntry)
      /\ Len(entries') = Len(entries) + 1
      /\ entries'[Len(entries) + 1] = n
      /\ \A x \in 1 .. Len(entries) : entries'[x] = entries[x]
    BY <1>1
<1> QED BY <1>1, <1>2 DEF Kept, Made

\* A founded room is in the invariant.
LEMMA InitKeeps ==
    ASSUME ReplicaInit
    PROVE  ReplicaInv /\ Len(entries) = Founders
<1> DEFINE n == Cardinality(Replica)
           order == CHOOSE f \in [2..(n + 1) -> Replica] :
                        \A i, j \in 2..(n + 1) : f[i] = f[j] => i = j
           grant(e) == [op |-> [kind |-> "grant", to |-> order[e], area |-> "root",
                                parent |-> Root, path |-> {Root}],
                        by |-> Owner, presented |-> {Root}, past |-> 1..(e - 1), rank |-> 0]
<1>1. n \in Nat /\ n < MaxEntries
    BY FS_CardinalityType, ReplicaAssumption
<1>2. order \in [2..(n + 1) -> Replica]
    <2>1. PICK g \in Bijection(1..n, Replica) : TRUE
        BY FS_CardinalityType, ReplicaAssumption DEF ExistsBijection
    <2> DEFINE f == [i \in 2..(n + 1) |-> g[i - 1]]
    <2>2. \A i \in 2..(n + 1) : i - 1 \in 1..n
        BY <1>1
    <2>3. /\ g \in [1..n -> Replica]
          /\ \A i, j \in 1..n : g[i] = g[j] => i = j
        BY DEF Bijection, Injection, Surjection, IsInjective
    <2>4. f \in [2..(n + 1) -> Replica]
        BY <2>2, <2>3
    <2>5. \A i, j \in 2..(n + 1) : f[i] = f[j] => i = j
        BY <1>1, <2>2, <2>3
    <2> HIDE DEF f
    <2> QED BY <2>4, <2>5, Zenon
<1>3. entries = [e \in 1..(n + 1) |-> IF e = Root THEN TrustedRoot ELSE grant(e)]
    BY Zenon DEF ReplicaInit, Founded
<1>4. TrustedRoot \in ReplicaEntry /\ 1 \in Id
    <2>1. 1 \in Id
        BY <1>1, ReplicaAssumption DEF Id
    <2>2. [kind |-> "grant", to |-> Owner, area |-> "root", parent |-> 0, path |-> {}]
              \in Capability
        BY DEF Capability, Area
    <2> QED BY <2>1, <2>2 DEF TrustedRoot, ReplicaEntry
<1>5. ASSUME NEW e \in 2..(n + 1) PROVE grant(e) \in ReplicaEntry
    <2>1. order[e] \in Replica
        BY <1>2
    <2>2. 1..(e - 1) \in SUBSET Id
        BY <1>1, ReplicaAssumption DEF Id
    <2> HIDE DEF order
    <2>3. [kind |-> "grant", to |-> order[e], area |-> "root", parent |-> Root, path |-> {Root}]
              \in Capability
        BY <1>4, <2>1 DEF Capability, Area, Root
    <2> QED BY <1>4, <2>2, <2>3 DEF ReplicaEntry, Root
<1> HIDE DEF order
<1>6. entries \in [1..(n + 1) -> ReplicaEntry]
    <2>1. \A e \in 1..(n + 1) : e = Root \/ e \in 2..(n + 1)
        BY <1>1 DEF Root
    <2> HIDE DEF grant
    <2> QED BY <1>3, <1>4, <1>5, <2>1
<1>7. entries \in Seq(ReplicaEntry) /\ Len(entries) = n + 1
    BY <1>1, <1>6
<1>8. \A e \in 1..(n + 1) : /\ entries[e].rank = 0
                            /\ entries[e].past = 1..(e - 1)
                            /\ Op(e).kind = "grant"
    BY <1>1, <1>3 DEF TrustedRoot, Root, Op
<1>9. Made = 1..(n + 1)
    BY <1>7 DEF Made
<1>10. /\ history = [r \in Replica |-> Made]
       /\ prepared = [r \in Replica |-> {}]
       /\ frames = {}
    BY DEF ReplicaInit, Made
<1>11. Shape
    <2>1. IsFiniteSet(frames) /\ Cardinality(frames) = 0
        BY <1>10, FS_EmptySet
    <2>2. \A e \in Made : entries[e].rank \in -MaxEntries .. MaxEntries
        BY <1>1, <1>8, <1>9, ReplicaAssumption
    <2>3. Len(entries) + Cardinality(frames) =< MaxEntries
        BY <1>1, <1>7, <2>1, ReplicaAssumption
    <2> QED BY <1>7, <1>10, <2>1, <2>2, <2>3 DEF Shape
<1>12. PastsOK
    BY <1>1, <1>8, <1>9, <1>10 DEF PastsOK
<1>13. EntriesSound
    BY <1>8, <1>9, <1>10 DEF EntriesSound
<1> QED BY <1>7, <1>10, <1>11, <1>12, <1>13 DEF ReplicaInv, PreparedSound, FramesSound, Founders

\* Storing an entry keeps the invariant.
LEMMA StoresKeeps ==
    ASSUME ReplicaInv, NEW r \in Replica, NEW e, Stores(r, e)
    PROVE  ReplicaInv'
<1> USE DEF ReplicaInv
<1> DEFINE new == Len(entries) + 1
<1>1. PICK n \in ReplicaEntry :
          /\ n.op = e.op /\ n.by = e.by /\ n.presented = e.presented /\ n.past = history[r]
          /\ n.rank \in -Len(entries) .. Len(entries)
          /\ entries' = Append(entries, n)
          /\ history' = [history EXCEPT ![r] = @ \cup {new}]
    BY StoredFacts
<1>2. /\ Kept
      /\ entries' \in Seq(ReplicaEntry)
      /\ Len(entries') = new
      /\ Made' = Made \cup {new}
      /\ entries'[new] = n
      /\ new \notin Made
    BY <1>1, AppendKept
<1>3. /\ e.past = history[r] /\ CanSign /\ Validate(e, e.past)
      /\ LessPrepared /\ frames' = frames
    BY DEF Stores
<1>4. Len(entries) \in Nat /\ Cardinality(frames) \in Nat
    BY MadeAreIds
<1>5. history' \in [Replica -> SUBSET Made']
    BY <1>1, <1>2 DEF Shape
<1>6. \A q \in Replica : history[q] \subseteq history'[q] /\ history[q] \subseteq Made
                         /\ history'[q] \subseteq history[q] \cup {new}
    BY <1>1 DEF Shape
<1>7. \A x \in Made : entries'[x] = entries[x] /\ Op(x)' = Op(x)
    BY <1>2 DEF Kept, Op
<1>8. Shape'
    <2>1. \A x \in Made' : entries'[x].rank \in -MaxEntries .. MaxEntries
        <3>1. n.rank \in -MaxEntries .. MaxEntries
            BY <1>1, <1>3, <1>4, ReplicaAssumption DEF CanSign
        <3> QED BY <1>2, <1>7, <3>1 DEF Shape
    <2>2. Len(entries') + Cardinality(frames') =< MaxEntries
        BY <1>2, <1>3, <1>4, ReplicaAssumption DEF CanSign
    <2>3. /\ prepared' \in [Replica -> SUBSET Signable]
          /\ \A q \in Replica : \A x, y \in prepared'[q] : x = y
        BY <1>3 DEF LessPrepared, Shape
    <2> QED BY <1>2, <1>3, <1>5, <2>1, <2>2, <2>3 DEF Shape
<1>9. PastsOK'
    <2>1. ASSUME NEW x \in Made' PROVE entries'[x].past \subseteq 1 .. x - 1
        <3>1. CASE x \in Made
            BY <1>7, <3>1 DEF PastsOK
        <3>2. CASE x = new
            BY <1>1, <1>2, <1>4, <1>6, <3>2 DEF Made
        <3> QED BY <1>2, <3>1, <3>2
    <2>2. ASSUME NEW q \in Replica, NEW x \in history'[q]
          PROVE  entries'[x].past \subseteq history'[q]
        <3>1. CASE x \in history[q]
            BY <1>6, <1>7, <3>1 DEF PastsOK
        <3>2. CASE x \notin history[q]
            <4>1. x = new /\ q = r
                BY <1>1, <3>2 DEF Shape
            <4> QED BY <1>1, <1>2, <1>6, <4>1
        <3> QED BY <3>1, <3>2
    <2> QED BY <2>1, <2>2 DEF PastsOK
<1>10. \A x : (x.past \subseteq Made /\ Validate(x, x.past)) => Validate(x, x.past)'
    <2> SUFFICES ASSUME NEW x, x.past \subseteq Made, Validate(x, x.past)
                 PROVE  Validate(x, x.past)'
        OBVIOUS
    <2> QED BY <1>2, ValidKept
<1>11. EntriesSound'
    <2> SUFFICES ASSUME NEW x \in Made'
                 PROVE  \/ Op(x)'.kind = "grant" /\ \A q \in Replica : x \in history'[q]
                        \/ Validate(entries[x], entries[x].past)'
        BY DEF EntriesSound
    <2>1. CASE x \in Made
        <3>1. entries[x].past \subseteq Made
            BY <1>4, <2>1 DEF PastsOK, Made
        <3>2. CASE Validate(entries[x], entries[x].past)
            BY <1>7, <1>10, <2>1, <3>1, <3>2
        <3> QED BY <1>6, <1>7, <2>1, <3>2 DEF EntriesSound
    <2>2. CASE x = new
        <3>1. Validate(n, n.past)
            BY <1>1, <1>3, ValidAsSigned
        <3>2. n.past \subseteq Made
            BY <1>1, <1>6
        <3> QED BY <1>2, <1>10, <2>2, <3>1, <3>2
    <2> QED BY <1>2, <2>1, <2>2
<1>12. PreparedSound'
    BY <1>2, <1>3, <1>10 DEF PreparedSound, LessPrepared
<1>13. FramesSound'
    <2> SUFFICES ASSUME NEW f \in frames
                 PROVE  /\ f.at \subseteq Made'
                        /\ \E g \in f.presented \cap f.at :
                               (Op(g).kind = "grant" /\ Op(g).to = f.by
                                   /\ Covers(Op(g).area, "pieces"))'
        BY <1>3 DEF FramesSound
    <2>1. f.at \subseteq Made
        BY DEF FramesSound
    <2>2. PICK g \in f.presented \cap f.at :
              Op(g).kind = "grant" /\ Op(g).to = f.by /\ Covers(Op(g).area, "pieces")
        BY DEF FramesSound
    <2>3. Op(g)' = Op(g)
        BY <1>7, <2>1
    <2> QED BY <1>2, <2>1, <2>2, <2>3 DEF Covers
<1> QED BY <1>8, <1>9, <1>11, <1>12, <1>13

\* A step that makes no entry keeps every judgement.
LEMMA SameJudgements ==
    ASSUME ReplicaInv, UNCHANGED entries
    PROVE  \A x : (x.past \subseteq Made /\ Validate(x, x.past)) => Validate(x, x.past)'
<1>1. Kept
    BY DEF ReplicaInv, Shape, Kept
<1> SUFFICES ASSUME NEW x, x.past \subseteq Made, Validate(x, x.past)
             PROVE  Validate(x, x.past)'
    OBVIOUS
<1> QED BY <1>1, ValidKept DEF ReplicaInv

\* Histories that grow leave entries sound.
LEMMA EntriesStaySound ==
    ASSUME ReplicaInv, UNCHANGED entries, history' \in [Replica -> SUBSET Made],
           \A r \in Replica : history[r] \subseteq history'[r]
    PROVE  EntriesSound' /\ Made' = Made
<1>1. Made' = Made /\ \A x \in Made : Op(x)' = Op(x)
    BY DEF Made, Op
<1> SUFFICES ASSUME NEW x \in Made
             PROVE  \/ Op(x)'.kind = "grant" /\ \A q \in Replica : x \in history'[q]
                    \/ Validate(entries[x], entries[x].past)'
    BY <1>1 DEF EntriesSound
<1>2. entries[x].past \subseteq Made
    BY DEF ReplicaInv, Shape, PastsOK, Made
<1>3. CASE Validate(entries[x], entries[x].past)
    BY <1>2, <1>3, SameJudgements
<1> QED BY <1>1, <1>3 DEF ReplicaInv, EntriesSound

\* So are the frames when neither they nor the entries change.
LEMMA FramesStaySound ==
    ASSUME FramesSound, UNCHANGED <<entries, frames>>
    PROVE  FramesSound'
BY DEF FramesSound, Made, Op, Covers

\* A step that stores, prepares and signs nothing keeps the invariant.
LEMMA QuietKeeps ==
    ASSUME ReplicaInv, Inert
    PROVE  ReplicaInv'
<1>1. EntriesSound' /\ Made' = Made
    BY EntriesStaySound DEF Inert, ReplicaInv, Shape
<1>2. Shape'
    BY <1>1 DEF Inert, LessPrepared, ReplicaInv, Shape
<1>3. PastsOK'
    BY <1>1 DEF Inert, ReplicaInv, PastsOK
<1>4. PreparedSound'
    BY <1>1, SameJudgements DEF Inert, LessPrepared, ReplicaInv, PreparedSound
<1>5. FramesSound'
    BY FramesStaySound DEF Inert, ReplicaInv
<1> QED BY <1>1, <1>2, <1>3, <1>4, <1>5 DEF ReplicaInv

\* Preparing an entry keeps it.
LEMMA PreparesKeeps ==
    ASSUME ReplicaInv, NEW r \in Replica, NEW e, Prepares(r, e)
    PROVE  ReplicaInv'
<1>1. /\ prepared' = [prepared EXCEPT ![r] = {e}]
      /\ UNCHANGED <<entries, history, frames>>
      /\ e \in Signable /\ e.past = history[r] /\ Validate(e, e.past)
    BY DEF Prepares, Staged
<1>2. EntriesSound' /\ Made' = Made
    BY <1>1, EntriesStaySound DEF ReplicaInv, Shape
<1>3. Shape'
    BY <1>1, <1>2 DEF ReplicaInv, Shape
<1>4. PastsOK'
    BY <1>1, <1>2 DEF ReplicaInv, PastsOK
<1>5. PreparedSound'
    <2> SUFFICES ASSUME NEW q \in Replica, NEW x \in prepared'[q]
                 PROVE  x.past \subseteq Made' /\ Validate(x, x.past)'
        BY DEF PreparedSound
    <2>1. x \in prepared[q] \/ x = e
        BY <1>1 DEF ReplicaInv, Shape
    <2>2. x.past \subseteq Made /\ Validate(x, x.past)
        BY <1>1, <2>1 DEF ReplicaInv, Shape, PreparedSound
    <2> QED BY <1>1, <1>2, <2>2, SameJudgements
<1>6. FramesSound'
    BY <1>1, FramesStaySound DEF ReplicaInv
<1> QED BY <1>2, <1>3, <1>4, <1>5, <1>6 DEF ReplicaInv

\* Admitting a remote entry keeps it.
LEMMA AdmitKeeps ==
    ASSUME ReplicaInv, NEW r \in Replica, NEW e \in Made, AdmitEntry(r, e)
    PROVE  ReplicaInv'
<1>1. /\ entries[e].past \subseteq history[r]
      /\ history' = [history EXCEPT ![r] = @ \cup {e}]
      /\ UNCHANGED <<entries, prepared, frames>>
    BY DEF AdmitEntry
<1>2. history \in [Replica -> SUBSET Made]
    BY DEF ReplicaInv, Shape
<1>3. EntriesSound' /\ Made' = Made
    BY <1>1, <1>2, EntriesStaySound
<1>4. Shape'
    BY <1>1, <1>2, <1>3 DEF ReplicaInv, Shape
<1>5. PastsOK'
    BY <1>1, <1>2, <1>3 DEF ReplicaInv, PastsOK
<1>6. PreparedSound'
    BY <1>1, <1>3, SameJudgements DEF ReplicaInv, PreparedSound
<1>7. FramesSound'
    BY <1>1, FramesStaySound DEF ReplicaInv
<1> QED BY <1>3, <1>4, <1>5, <1>6, <1>7 DEF ReplicaInv

\* Signing a presence frame keeps it.
LEMMA SignKeeps ==
    ASSUME ReplicaInv, NEW r \in Replica, Sign(r)
    PROVE  ReplicaInv'
<1> DEFINE frame == [by |-> r, at |-> history[r], presented |-> LiveGrants(r, r)]
<1>1. /\ CanSign /\ frames' = frames \cup {frame}
      /\ Authorized(r, "pieces", LiveGrants(r, r), history[r], history[r])
      /\ UNCHANGED <<entries, history, prepared>>
    BY DEF Sign
<1>2. EntriesSound' /\ Made' = Made
    BY <1>1, EntriesStaySound DEF ReplicaInv, Shape
<1>3. Shape'
    <2>1. /\ IsFiniteSet(frames') /\ Cardinality(frames') \in Nat
          /\ Cardinality(frames') =< Cardinality(frames) + 1
          /\ Cardinality(frames) \in Nat
        <3> HIDE DEF frame
        <3>1. IsFiniteSet(frames) /\ Cardinality(frames) \in Nat
            BY FS_CardinalityType DEF ReplicaInv, Shape
        <3>2. /\ IsFiniteSet(frames \cup {frame})
              /\ Cardinality(frames \cup {frame})
                     = IF frame \in frames THEN Cardinality(frames) ELSE Cardinality(frames) + 1
            BY <3>1, FS_AddElement
        <3> QED BY <1>1, <3>1, <3>2
    <2>2. Len(entries') + Cardinality(frames') =< MaxEntries
        BY <1>1, <2>1, MadeAreIds, ReplicaAssumption DEF CanSign, ReplicaInv
    <2> QED BY <1>1, <1>2, <2>1, <2>2 DEF ReplicaInv, Shape
<1>4. PastsOK'
    BY <1>1, <1>2 DEF ReplicaInv, PastsOK
<1>5. PreparedSound'
    BY <1>1, <1>2, SameJudgements DEF ReplicaInv, PreparedSound
<1>6. FramesSound'
    <2>1. ASSUME NEW f \in frames
          PROVE  /\ f.at \subseteq Made
                 /\ \E g \in f.presented \cap f.at :
                        Op(g).kind = "grant" /\ Op(g).to = f.by /\ Covers(Op(g).area, "pieces")
        BY DEF ReplicaInv, FramesSound
    <2>2. /\ frame.at \subseteq Made
          /\ \E g \in frame.presented \cap frame.at :
                 Op(g).kind = "grant" /\ Op(g).to = frame.by /\ Covers(Op(g).area, "pieces")
        BY <1>1 DEF Authorized, ReplicaInv, Shape
    <2>3. \A g : Op(g)' = Op(g)
        BY <1>1 DEF Op
    <2> HIDE DEF frame
    <2> QED BY <1>1, <1>2, <2>1, <2>2, <2>3 DEF FramesSound, Covers
<1> QED BY <1>2, <1>3, <1>4, <1>5, <1>6 DEF ReplicaInv

\* Every step of the room keeps it.
LEMMA NextKeeps ==
    ASSUME ReplicaInv, [ReplicaNext]_replicaVars
    PROVE  ReplicaInv'
<1>1. CASE UNCHANGED replicaVars
    <2>1. Inert
        BY <1>1 DEF replicaVars, Inert, LessPrepared, ReplicaInv, Shape
    <2> QED BY <2>1, QuietKeeps
<1>2. CASE ReplicaNext
    BY <1>2, NextCases, StoresKeeps, PreparesKeeps, AdmitKeeps, SignKeeps, QuietKeeps
<1> QED BY <1>1, <1>2

\* For every number of members and entries: entries are judged by their pasts.
THEOREM ReplicaInvariant == ReplicaSpec => []ReplicaInv
<1>1. ReplicaInit => ReplicaInv
    BY InitKeeps
<1>2. ReplicaInv /\ [ReplicaNext]_replicaVars => ReplicaInv'
    BY NextKeeps
<1> QED BY <1>1, <1>2, PTL DEF ReplicaSpec

\* Entries, histories and prepared commands have the shape of their structs,
\* and a history is causally closed (the part ReplicaTypeOK of RoomTypeOK).
THEOREM ReplicaTypeCorrect == ReplicaSpec => []ReplicaTypeOK
<1>1. ReplicaInv => ReplicaTypeOK
    <2> SUFFICES ASSUME ReplicaInv PROVE ReplicaTypeOK
        OBVIOUS
    <2>1. ASSUME NEW r \in Replica PROVE Cardinality(prepared[r]) =< 1
        <3>1. CASE prepared[r] = {}
            BY <3>1, FS_EmptySet
        <3>2. CASE prepared[r] # {}
            <4>1. PICK e \in prepared[r] : TRUE
                BY <3>2
            <4>2. prepared[r] = {e}
                BY DEF ReplicaInv, Shape
            <4> QED BY <4>2, FS_Singleton
        <3> QED BY <3>1, <3>2
    <2>2. \A e \in 1..Len(entries) : entries[e] \in ReplicaEntry
        BY EntryFacts DEF ReplicaInv, Made
    <2> QED BY <2>1, <2>2 DEF ReplicaTypeOK, ReplicaInv, Shape, PastsOK, Made
<1> QED BY <1>1, ReplicaInvariant, PTL

\* For every room: whatever a replica has learned meanwhile (a lock, a removal, a
\* revocation), RoomAdmissionPolicy takes the entry another replica took.
THEOREM EveryoneAdmits == ReplicaSpec => []NothingIsRefused
<1>1. ReplicaInv => NothingIsRefused
    <2> SUFFICES ASSUME ReplicaInv, NEW r \in Replica PROVE
            /\ \A e \in 1..Len(entries) \ history[r] :
                   entries[e].past \subseteq history[r] => Validate(entries[e], history[r])
            /\ \A frame \in frames :
                   /\ frame.at \subseteq history[r]
                   /\ \A x \in history[r] : Op(x).kind # "revoke"
                   => Verifies(r, frame)
        BY DEF NothingIsRefused
    <2>1. ASSUME NEW e \in 1..Len(entries) \ history[r], entries[e].past \subseteq history[r]
          PROVE  Validate(entries[e], history[r])
        <3>1. Validate(entries[e], entries[e].past)
            BY DEF ReplicaInv, EntriesSound, Made
        <3> QED BY <2>1, <3>1, ValidWherePastIs
    <2>2. ASSUME NEW frame \in frames, frame.at \subseteq history[r],
                 \A x \in history[r] : Op(x).kind # "revoke"
          PROVE  Verifies(r, frame)
        <3>1. PICK g \in frame.presented \cap frame.at :
                  Op(g).kind = "grant" /\ Op(g).to = frame.by /\ Covers(Op(g).area, "pieces")
            BY DEF ReplicaInv, FramesSound
        <3>2. GrantHolds(g, frame.at, history[r])
            BY <2>2 DEF GrantHolds, Revocations
        <3> QED BY <2>2, <3>1, <3>2 DEF Verifies, Authorized
    <2> QED BY <2>1, <2>2
<1> QED BY <1>1, ReplicaInvariant, PTL

\* The least entry that a replica lacks depends on none that it lacks.
LEMMA RepairHasNext == ReplicaInv => RepairNeverStuck
<1> SUFFICES ASSUME ReplicaInv, NEW r \in Replica, NEW e \in 1..Len(entries) \ history[r]
             PROVE  \E f \in 1..e \ history[r] :
                        entries[f].past \subseteq history[r] /\ Validate(entries[f], history[r])
    BY DEF RepairNeverStuck
<1>1. Len(entries) \in Nat /\ history[r] \subseteq Made
    BY MadeAreIds DEF ReplicaInv, Shape
<1>2. PICK f \in 1..e \ history[r] : \A k \in 1..e \ history[r] : f =< k
    <2> DEFINE T == 1..e \ history[r]
    <2>1. T \in SUBSET Nat /\ T # {}
        BY <1>1
    <2> HIDE DEF T
    <2>2. \E m \in T : \A k \in T : m =< k
        BY <2>1, LeastNatural
    <2> QED BY <2>2 DEF T
<1>3. f \in Made /\ f \in 1..e
    BY <1>1 DEF Made
<1>4. entries[f].past \subseteq history[r]
    <2> SUFFICES ASSUME NEW x \in entries[f].past, x \notin history[r] PROVE FALSE
        OBVIOUS
    <2>1. x \in 1..f - 1
        BY <1>3 DEF ReplicaInv, PastsOK
    <2>2. x \in 1..e \ history[r] /\ ~(f =< x)
        BY <1>1, <1>3, <2>1
    <2> QED BY <1>2, <2>2
<1>5. Validate(entries[f], entries[f].past)
    BY <1>3 DEF ReplicaInv, EntriesSound
<1> QED BY <1>4, <1>5, ValidWherePastIs

\* For every room: as long as a replica lacks an entry, some entry it lacks is
\* one it holds the past of and RoomAdmissionPolicy takes, so what repair offers
\* is never all to be deferred or refused.
THEOREM RepairGoesOn == ReplicaSpec => []RepairNeverStuck
BY RepairHasNext, ReplicaInvariant, PTL

-----------------------------------------------------------------------------
(* The lane implements CausalLog.                                          *)

\* Nothing of the founding is made again.
Grown == ReplicaInv /\ Founders =< Len(entries)

\* The founding members are a number.
LEMMA FoundersAreCounted == Founders \in Nat \ {0}
BY FS_CardinalityType, ReplicaAssumption DEF Founders

\* What was made before the founding ended is not counted, and an entry is counted
\* at its distance from it.
LEMMA SinceCounts ==
    /\ Since(1..Founders) = {}
    /\ \A S, e : e + Founders \in S /\ e \in Id => e \in Since(S)
    /\ \A S, T : S \subseteq T => Since(S) \subseteq Since(T)
<1>1. \A e \in Id : e + Founders \notin 1..Founders
    BY FoundersAreCounted, ReplicaAssumption DEF Id
<1> QED BY <1>1 DEF Since

\* A member that stores what it signed on top of all it holds makes an entry.
LEMMA StoresMakes ==
    ASSUME Grown, NEW r \in Replica, NEW e, Stores(r, e)
    PROVE  Replicated!Make(r) /\ Founders =< Len(entries')
<1> DEFINE m == Len(entries) + 1 - Founders
           causes == [x \in Id |-> IF x + Founders \in 1..Len(entries)
                                  THEN Since(entries[x + Founders].past) ELSE {}]
           logs == [q \in Replica |-> Since(history[q])]
<1>1. Shape /\ Len(entries) \in Nat /\ Founders \in Nat \ {0} /\ Founders =< Len(entries)
    BY MadeAreIds, FoundersAreCounted DEF Grown, ReplicaInv
<1>2. PICK n \in ReplicaEntry :
          /\ n.past = history[r]
          /\ entries' = Append(entries, n)
          /\ history' = [history EXCEPT ![r] = @ \cup {Len(entries) + 1}]
    BY <1>1, StoredFacts
<1>3. /\ Len(entries') = Len(entries) + 1
      /\ entries'[Len(entries) + 1] = n
      /\ \A x \in 1..Len(entries) : entries'[x] = entries[x]
    BY <1>1, <1>2, AppendKept DEF Kept, Made
<1>4. m \in Id /\ m + Founders = Len(entries) + 1 /\ Len(entries) + 1 \in Id
      /\ Len(entries') - Founders = m /\ m = Len(entries) - Founders + 1
    <2>1. Len(entries) + 1 \in Id
        BY <1>1, MadeAreIds DEF Stores
    <2> QED BY <1>1, <1>3, <2>1, ReplicaAssumption DEF Id
<1>5. causes' = [causes EXCEPT ![m] = Since(history[r])]
    <2>1. ASSUME NEW x \in Id, x # m PROVE causes'[x] = causes[x]
        <3>1. x + Founders # Len(entries) + 1 /\ x + Founders \in Nat
            BY <1>1, <1>4, <2>1, ReplicaAssumption DEF Id
        <3>2. x + Founders \in 1..Len(entries') <=> x + Founders \in 1..Len(entries)
            BY <1>1, <1>3, <3>1
        <3> QED BY <1>3, <3>2 DEF Since, Founders
    <2>2. causes'[m] = Since(history[r])
        <3>1. m + Founders \in 1..Len(entries')
            BY <1>1, <1>3, <1>4
        <3>2. Founders' = Founders
            BY DEF Founders
        <3>3. causes'[m] = Since(entries'[m + Founders].past)
            BY <1>4, <3>1, <3>2 DEF Since
        <3> QED BY <1>2, <1>3, <1>4, <3>3
    <2> DEFINE new == [causes EXCEPT ![m] = Since(history[r])]
    <2>3. new \in [Id -> {new[x] : x \in Id}] /\ DOMAIN causes' = Id /\ DOMAIN new = Id
        OBVIOUS
    <2>4. \A x \in Id : causes'[x] = new[x]
        BY <1>4, <2>1, <2>2
    <2> HIDE DEF new
    <2> QED BY <2>3, <2>4 DEF new
<1>6. logs' = [logs EXCEPT ![r] = @ \cup {m}]
    <2>1. history \in [Replica -> SUBSET Made]
        BY <1>1 DEF Shape
    <2>2. Since(history'[r]) = Since(history[r]) \cup {m}
        <3>1. history'[r] = history[r] \cup {Len(entries) + 1}
            BY <1>2, <2>1
        <3>2. \A x \in Id : x + Founders = Len(entries) + 1 <=> x = m
            BY <1>1, <1>4, ReplicaAssumption DEF Id
        <3> HIDE DEF m
        <3> QED BY <1>4, <3>1, <3>2 DEF Since
    <2>3. \A q \in Replica : q # r => history'[q] = history[q]
        BY <1>2, <2>1
    <2>4. logs' = [q \in Replica |-> Since(history'[q])]
        BY DEF Since, Founders
    <2> QED BY <2>2, <2>3, <2>4
<1> QED BY <1>1, <1>3, <1>4, <1>5, <1>6 DEF Replicated!Make

\* A replica that admits an entry learns it together with its causes.
LEMMA AdmitLearns ==
    ASSUME Grown, NEW r \in Replica, NEW e \in Made, AdmitEntry(r, e)
    PROVE  Replicated!Learn(r) /\ Founders =< Len(entries')
<1> DEFINE new == {x \in Id : x = e - Founders}
           causes == [x \in Id |-> IF x + Founders \in 1..Len(entries)
                                  THEN Since(entries[x + Founders].past) ELSE {}]
           logs == [q \in Replica |-> Since(history[q])]
<1>1. Shape /\ Len(entries) \in Nat /\ Founders \in Nat \ {0} /\ Founders =< Len(entries)
      /\ e \in Id /\ history \in [Replica -> SUBSET Made]
    BY MadeAreIds, FoundersAreCounted DEF Grown, ReplicaInv, Shape
<1>2. /\ entries[e].past \subseteq history[r]
      /\ history' = [history EXCEPT ![r] = @ \cup {e}]
      /\ UNCHANGED entries
    BY DEF AdmitEntry
<1>3. new \in SUBSET (1..Len(entries) - Founders)
    BY <1>1 DEF Id, Made
<1>4. ASSUME NEW x \in new PROVE causes[x] \subseteq logs[r] \cup new
    <2>1. x + Founders = e /\ x \in Id /\ x + Founders \in 1..Len(entries)
        BY <1>1 DEF Id, Made
    <2>2. causes[x] = Since(entries[e].past)
        BY <2>1
    <2> QED BY <1>2, <2>2, SinceCounts
<1>5. logs' = [logs EXCEPT ![r] = @ \cup new]
    <2>1. logs' = [q \in Replica |-> Since(history'[q])]
        BY DEF Since, Founders
    <2>2. Since(history'[r]) = Since(history[r]) \cup new
        <3>1. history'[r] = history[r] \cup {e}
            BY <1>1, <1>2
        <3>2. \A x \in Id : x + Founders = e <=> x = e - Founders
            BY <1>1, ReplicaAssumption DEF Id
        <3> QED BY <3>1, <3>2 DEF Since
    <2>3. \A q \in Replica : q # r => history'[q] = history[q]
        BY <1>1, <1>2
    <2> HIDE DEF new
    <2> QED BY <2>1, <2>2, <2>3
<1>6. causes' = causes /\ (Len(entries) - Founders)' = Len(entries) - Founders
    BY <1>2 DEF Since, Founders
<1> QED BY <1>1, <1>2, <1>3, <1>4, <1>5, <1>6 DEF Replicated!Learn

\* A step that changes no store changes nothing of the log.
LEMMA RestStutters ==
    ASSUME UNCHANGED <<entries, history>>
    PROVE  UNCHANGED Replicated!vars
BY DEF Replicated!vars, Since, Founders

\* The founded room is the empty log.
LEMMA FoundingIsEmpty == ReplicaInit => Replicated!Init /\ Grown
<1> SUFFICES ASSUME ReplicaInit PROVE Replicated!Init /\ Grown
    OBVIOUS
<1>1. ReplicaInv /\ Len(entries) = Founders /\ Founders \in Nat \ {0}
    BY InitKeeps, FoundersAreCounted
<1>2. history = [r \in Replica |-> 1..Founders]
    BY <1>1 DEF ReplicaInit
<1>3. \A x \in Id : x + Founders \notin 1..Len(entries)
    BY <1>1, ReplicaAssumption DEF Id
<1>4. Len(entries) - Founders = 0 /\ Founders =< Len(entries)
    BY <1>1
<1> QED BY <1>1, <1>2, <1>3, <1>4, SinceCounts DEF Replicated!Init, Grown

\* For every number of members and entries, and however commands are authored, the
\* lane is a causal log: an entry is made on top of all its replica holds, which
\* for a worker is what commit_prepared compares, and a replica takes an entry
\* only with its causes.
THEOREM LaneIsCausalLog == ReplicaSpec => ReplicatesCausalLog
<1>1. ReplicaInit => Replicated!Init /\ Grown
    BY FoundingIsEmpty
<1>2. Grown /\ [ReplicaNext]_replicaVars => Grown' /\ [Replicated!Next]_(Replicated!vars)
    <2> SUFFICES ASSUME Grown, [ReplicaNext]_replicaVars
                 PROVE  Grown' /\ [Replicated!Next]_(Replicated!vars)
        OBVIOUS
    <2>1. ReplicaInv'
        BY NextKeeps DEF Grown
    <2>2. ASSUME NEW r \in Replica, NEW e, Stores(r, e)
          PROVE  Replicated!Next /\ Founders =< Len(entries')
        BY <2>2, StoresMakes DEF Replicated!Next
    <2>3. ASSUME NEW r \in Replica, NEW e \in Made, AdmitEntry(r, e)
          PROVE  Replicated!Next /\ Founders =< Len(entries')
        BY <2>3, AdmitLearns DEF Replicated!Next
    <2>4. ASSUME UNCHANGED <<entries, history>>
          PROVE  UNCHANGED Replicated!vars /\ Founders =< Len(entries')
        BY <2>4, RestStutters DEF Grown
    <2>5. \/ \E r \in Replica : \E e : Stores(r, e)
          \/ \E r \in Replica, e \in Made : AdmitEntry(r, e)
          \/ UNCHANGED <<entries, history>>
        <3>1. CASE ReplicaNext
            BY <3>1, NextCases DEF Grown, Prepares, Staged, Sign, Inert
        <3>2. CASE UNCHANGED replicaVars
            BY <3>2 DEF replicaVars
        <3> QED BY <3>1, <3>2
    <2>6. Founders' = Founders
        BY DEF Founders
    <2> QED BY <2>1, <2>2, <2>3, <2>4, <2>5, <2>6 DEF Grown
<1> QED BY <1>1, <1>2, PTL DEF ReplicaSpec, ReplicatesCausalLog, Replicated!Spec



-----------------------------------------------------------------------------
(* What the author of the newest entry is shown.                           *)

\* The replica holds the newest entry and, apart from it, just that entry's past.
NewestHere(r) ==
    LET e == Len(entries)
    IN  /\ e \in Made
        /\ history[r] = entries[e].past \cup {e}
        /\ IsCommand(Op(e)) => Validate(entries[e], entries[e].past)

\* Nothing a replica holds has seen the newest entry, which has seen all else, so
\* it wins every register it writes.
LEMMA NewestWins ==
    ASSUME ReplicaInv, NEW r \in Replica, NewestHere(r)
    PROVE  /\ \A x \in history[r] : ~Ancestor(Len(entries), x)
           /\ \A x \in history[r] : x # Len(entries) => Ancestor(x, Len(entries))
           /\ \A S \in SUBSET history[r] : Len(entries) \in S => ResolveRegister(S) = Len(entries)
<1> DEFINE e == Len(entries)
<1>1. history[r] = entries[e].past \cup {e} /\ e \in Made /\ history[r] \subseteq Made
    BY DEF NewestHere, ReplicaInv, Shape
<1>2. ASSUME NEW x \in history[r], Ancestor(e, x) PROVE FALSE
    <2>1. x \in 1 .. e /\ e \in entries[x].past
        BY <1>1, <1>2 DEF Made, Ancestor
    <2>2. entries[x].past \subseteq 1 .. x - 1
        BY <1>1 DEF ReplicaInv, PastsOK
    <2>3. e \in 1 .. x - 1
        BY <2>1, <2>2
    <2>4. e \in Nat /\ x \in Nat
        BY <2>1, MadeAreIds DEF ReplicaInv
    <2> HIDE DEF e
    <2> QED BY <2>1, <2>3, <2>4
<1>3. \A x \in history[r] : x # e => Ancestor(x, e)
    BY <1>1 DEF Ancestor
<1>4. ASSUME NEW S \in SUBSET history[r], e \in S PROVE ResolveRegister(S) = e
    <2>1. /\ ResolveRegister(S) \in S
          /\ \A v \in S : ~Ancestor(ResolveRegister(S), v)
        BY <1>1, <1>4, WinnerExists DEF ReplicaInv
    <2> QED BY <1>3, <1>4, <2>1
<1> QED BY <1>2, <1>3, <1>4

\* A command that was authorised where its author stood is authorised in the
\* author's view: its past holds no revocation of the grant it presents.
LEMMA NewestCounts ==
    ASSUME ReplicaInv, NEW r \in Replica, NewestHere(r), IsCommand(Op(Len(entries)))
    PROVE  Len(entries) \in ExtensionCommands(history[r])
<1> DEFINE e == Len(entries)
           past == entries[e].past
<1>1. history[r] = past \cup {e}
    BY DEF NewestHere
<1>2. ValidPresented(entries[e])
    BY DEF NewestHere, Validate, Op
<1>3. PICK g \in entries[e].presented :
          /\ Op(g).kind = "grant" /\ Op(g).to = entries[e].by /\ g \in past
          /\ Covers(Op(g).area, CommandArea(Op(e)))
          /\ GrantHolds(g, past, past)
    BY <1>2 DEF ValidPresented, Authorized, Op
<1>4. Revocations(g, past) = {}
    BY <1>3 DEF GrantHolds, Revocations
<1>5. Revocations(g, history[r]) = {}
    BY <1>1, <1>4 DEF Revocations, IsCommand
<1>6. GrantHolds(g, past \cup {e}, history[r])
    BY <1>5 DEF GrantHolds
<1>7. CurrentlyAuthorized(e, history[r])
    BY <1>3, <1>6 DEF CurrentlyAuthorized, Authorized
<1> QED BY <1>1, <1>7 DEF ExtensionCommands

\* The view in terms of the commands that count.
PlaceOf(p, known) == Op(ResolveRegister(Assertions(p, ExtensionCommands(known)))).pitch

LockOf(known) ==
    /\ Locks(ExtensionCommands(known)) # {}
    /\ Op(ResolveRegister(Locks(ExtensionCommands(known)))).locked

\* What the view of a room shows of pieces and configuration.
LEMMA ViewFacts ==
    ASSUME NEW known, NEW active
    PROVE  /\ \A p : p \in DOMAIN RoomView(known, active).pieces <=>
                   /\ p \in ExtensionCommands(known) /\ Op(p).kind = "put"
                   /\ Assertions(p, ExtensionCommands(known)) # {}
                   /\ PlaceOf(p, known).tuning = active
           /\ \A p \in DOMAIN RoomView(known, active).pieces :
                  RoomView(known, active).pieces[p] = PlaceOf(p, known)
           /\ RoomView(known, active).locked = LockOf(known)
<1> DEFINE commands == ExtensionCommands(known)
           puts == {e \in commands : Op(e).kind = "put" /\ Assertions(e, commands) # {}}
           pieces == [p \in puts |-> PlaceOf(p, known)]
           shown == {p \in puts : PlaceOf(p, known).tuning = active}
<1>1. MaterializeExtension(known) = [pieces |-> pieces, locked |-> LockOf(known)]
    BY DEF MaterializeExtension, PlaceOf, LockOf
<1>2. {p \in DOMAIN pieces : pieces[p].tuning = active} = shown
    <2> HIDE DEF puts
    <2> QED OBVIOUS
<1>3. [p \in shown |-> pieces[p]] = [p \in shown |-> PlaceOf(p, known)]
    <2> HIDE DEF puts
    <2> QED OBVIOUS
<1>4. RoomView(known, active)
          = [pieces |-> [p \in shown |-> PlaceOf(p, known)], locked |-> LockOf(known)]
    <2> HIDE DEF pieces, shown
    <2> QED BY <1>1, <1>2, <1>3 DEF RoomView
<1>5. /\ RoomView(known, active).pieces = [p \in shown |-> PlaceOf(p, known)]
      /\ RoomView(known, active).locked = LockOf(known)
    <2> HIDE DEF shown
    <2> QED BY <1>4
<1>6. \A p : p \in shown <=> /\ p \in commands /\ Op(p).kind = "put"
                             /\ Assertions(p, commands) # {}
                             /\ PlaceOf(p, known).tuning = active
    <2> HIDE DEF commands
    <2> QED OBVIOUS
<1> HIDE DEF shown
<1> QED BY <1>5, <1>6

\* Where the newest entry is all that is new, its effect is what is shown.
LEMMA NewestIsShown ==
    ASSUME ReplicaInv, NEW r \in Replica, NewestHere(r), NEW active
    PROVE  NewestShows(r, active)
<1> DEFINE e == Len(entries)
           op == Op(e)
           known == history[r]
           commands == ExtensionCommands(known)
           view == RoomView(known, active)
           at(p) == p \in DOMAIN view.pieces /\ view.pieces[p] = op.pitch
<1>1. /\ e \in Made /\ known = entries[e].past \cup {e} /\ commands \subseteq known
      /\ IsCommand(op) => Validate(entries[e], entries[e].past)
      /\ e \notin entries[e].past
    <2>1. e \notin entries[e].past
        BY MadeAreIds DEF NewestHere, ReplicaInv, PastsOK
    <2> QED BY <2>1 DEF NewestHere, ExtensionCommands
<1>2. /\ \A x \in known : ~Ancestor(e, x)
      /\ \A x \in known : x # e => Ancestor(x, e)
      /\ \A S \in SUBSET known : e \in S => ResolveRegister(S) = e
    BY NewestWins
<1>3. IsCommand(op) => e \in commands
    BY NewestCounts
<1>4. \A put : Assertions(put, commands) \in SUBSET known
    BY <1>1 DEF Assertions
<1>5. \A put : e \in Assertions(put, commands) => PlaceOf(put, known) = op.pitch
    BY <1>2, <1>4 DEF PlaceOf
<1>6. op.kind = "put" => (at(e) <=> op.pitch.tuning = active)
    <2> SUFFICES ASSUME op.kind = "put" PROVE at(e) <=> op.pitch.tuning = active
        OBVIOUS
    <2>1. e \in commands
        BY <1>3 DEF IsCommand
    <2>2. e \in Assertions(e, commands)
        BY <1>1, <1>2, <2>1 DEF Assertions, EffectiveRemoves
    <2>3. PlaceOf(e, known) = op.pitch
        BY <1>5, <2>2
    <2> HIDE DEF commands, known, e, op
    <2> QED BY <2>1, <2>2, <2>3, ViewFacts DEF commands, op
<1>7. op.kind = "move" =>
          \/ op.piece \notin commands
          \/ op.pitch.tuning # Op(op.piece).pitch.tuning
          \/ op.pitch.tuning # active
          \/ at(op.piece)
    <2> SUFFICES ASSUME op.kind = "move", op.piece \in commands,
                        op.pitch.tuning = Op(op.piece).pitch.tuning, op.pitch.tuning = active
                 PROVE  at(op.piece)
        OBVIOUS
    <2>1. e \in commands
        BY <1>3 DEF IsCommand
    <2>2. e \in Assertions(op.piece, commands)
        BY <1>1, <1>2, <2>1 DEF Assertions, EffectiveRemoves
    <2>3. PlaceOf(op.piece, known) = op.pitch
        BY <1>5, <2>2
    <2>4. Op(op.piece).kind = "put"
        BY <1>1 DEF Validate, IsCommand, ValidExtension, TargetIs, Op
    <2> HIDE DEF commands, known, e, op
    <2> QED BY <2>2, <2>3, <2>4, ViewFacts DEF commands
<1>8. op.kind = "remove" => op.piece \notin DOMAIN view.pieces
    <2> SUFFICES ASSUME op.kind = "remove" PROVE op.piece \notin DOMAIN view.pieces
        OBVIOUS
    <2>1. e \in commands
        BY <1>3 DEF IsCommand
    <2>2. e \in EffectiveRemoves(commands)
        BY <1>1, <1>2, <2>1 DEF EffectiveRemoves
    <2>3. op.piece \in entries[e].past
        BY <1>1 DEF Validate, IsCommand, ValidExtension, TargetIs, Op
    <2>4. ASSUME NEW x \in Assertions(op.piece, commands) PROVE FALSE
        <3>1. x \in known /\ ~Ancestor(x, e)
            BY <1>1, <2>2 DEF Assertions
        <3>2. x = e
            BY <1>2, <3>1
        <3> QED BY <1>1, <2>3, <3>2 DEF Assertions
    <2>5. Assertions(op.piece, commands) = {}
        BY <2>4
    <2> HIDE DEF commands, known, e, op
    <2> QED BY <2>5, ViewFacts DEF commands
<1>9. op.kind = "config" => view.locked = op.locked
    <2> SUFFICES ASSUME op.kind = "config" PROVE view.locked = op.locked
        OBVIOUS
    <2>1. e \in Locks(commands) /\ Locks(commands) \in SUBSET known
        BY <1>1, <1>3 DEF Locks, IsCommand
    <2>2. ResolveRegister(Locks(commands)) = e
        BY <1>2, <2>1
    <2>3. op.locked \in BOOLEAN
        BY <1>1, EntryFacts, OpFields DEF ReplicaInv
    <2>4. LockOf(known) = op.locked
        BY <2>1, <2>2, <2>3 DEF LockOf
    <2> HIDE DEF known, e, op
    <2> QED BY <2>4, ViewFacts
<1> HIDE DEF commands
<1> QED BY <1>6, <1>7, <1>8, <1>9 DEF NewestShows, commands

\* Once an entry has been stored, whoever holds it is its author.
LEMMA StoredIsNewest ==
    ASSUME ReplicaInv, [ReplicaNext]_replicaVars, entries' # entries,
           NEW q \in Replica, Len(entries') \in history'[q]
    PROVE  NewestHere(q)'
<1>0. PICK r \in Replica : \E e : Stores(r, e)
    BY NextCases DEF Prepares, Staged, AdmitEntry, Sign, Inert, replicaVars
<1>1. PICK e : Stores(r, e)
    BY <1>0
<1>2. PICK n \in ReplicaEntry :
          /\ n.past = history[r]
          /\ entries' = Append(entries, n)
          /\ history' = [history EXCEPT ![r] = @ \cup {Len(entries) + 1}]
    BY <1>1, StoredFacts DEF ReplicaInv
<1>3. /\ Len(entries') = Len(entries) + 1
      /\ Made' = Made \cup {Len(entries) + 1}
      /\ entries'[Len(entries) + 1] = n
      /\ Len(entries) + 1 \notin Made
    BY <1>2, AppendKept DEF ReplicaInv
<1>4. q = r /\ history'[q] = n.past \cup {Len(entries')}
    BY <1>2, <1>3 DEF ReplicaInv, Shape
<1>5. ReplicaInv'
    BY <1>1, StoresKeeps
<1>6. (IsCommand(Op(Len(entries))) => Validate(entries[Len(entries)], entries[Len(entries)].past))'
    BY <1>3, <1>5 DEF ReplicaInv, EntriesSound, IsCommand
<1> QED BY <1>2, <1>3, <1>4, <1>6 DEF NewestHere

\* For every room: over whatever others did before it or beside it, and with
\* whatever hashes, a member's view shows its own command once it is admitted.
THEOREM OwnEditsShow == ReplicaSpec => OwnEditShows
<1> DEFINE here == \A r \in Replica : Len(entries) \in history[r] => NewestHere(r)
           shows == \A r \in Replica : Len(entries) \in history[r] =>
                        \A active \in {p.tuning : p \in Pitch} : NewestShows(r, active)
<1>1. ReplicaInv /\ here => shows
    BY NewestIsShown
<1>2. ReplicaInv /\ [ReplicaNext]_replicaVars => [entries' # entries => here']_replicaVars
    BY StoredIsNewest
<1>3. OwnEditShows <=> [][entries' # entries => shows']_replicaVars
    BY DEF OwnEditShows
<1> HIDE DEF here, shows
<1> QED BY <1>1, <1>2, <1>3, ReplicaInvariant, PTL DEF ReplicaSpec

-----------------------------------------------------------------------------
(***************************************************************************)
(* Window and host.                                                        *)
(***************************************************************************)

WindowEvent ==
    [type : {"snapshot"}, snapshot : Snapshot]
        \cup [type : {"room"}, room : RoomName \cup {NoName}]
        \cup [type : {"piece"}, piece : Piece, spot : Spot \cup {Gone}]
        \cup [type : {"config"}, locked : BOOLEAN]
        \cup [type : {"voice"}, voice : Voice]
        \cup [type : {"peer"}, peer : Peer, path : Path \cup {Gone}]

\* The snapshots a window goes through as it applies events.
Trail(w, from, events) ==
    /\ w \in [0 .. Len(events) -> Snapshot]
    /\ w[0] = from
    /\ \A k \in 1 .. Len(events) : w[k] = Delta(w[k - 1], events[k])

Reaches(from, events, to) == \E w : Trail(w, from, events) /\ w[Len(events)] = to

\* A window's snapshot shows the host's, but for what the host dropped silently.
VoicesAgree(shown, held) ==
    \A a \in Peer \cup {Self} :
        /\ Rows(shown, a) = {} <=> Rows(held, a) = {}
        /\ \A v \in Heard(shown, a) : \E i \in DOMAIN held : held[i] = v

Agrees(w, host, dropped) ==
    /\ w.room = host.room /\ w.pieces = host.pieces
    /\ "locked" \in dropped \/ w.locked = host.locked
    /\ "peers" \in dropped \/ w.peers = host.peers
    /\ "voices" \in dropped \/ VoicesAgree(w.voices, host.voices)

\* A session of a singer has one row.
OneRow(V) ==
    \A i, j \in DOMAIN V : V[i].author = V[j].author /\ V[i].session = V[j].session => i = j

WindowInv ==
    /\ snapshot \in Snapshot /\ window \in Snapshot
    /\ loop \in [peers : [Peer -> Path \cup {Gone}], session : Nat, sequence : Nat]
    /\ forgotten \subseteq {"voices", "peers", "locked"}
    /\ OneRow(snapshot.voices)
    /\ channel \in Seq(WindowEvent)
    /\ \E end \in Snapshot : Reaches(window, channel, end) /\ Agrees(end, snapshot, forgotten)

-----------------------------------------------------------------------------
(* Trails.                                                                 *)

\* Put keeps the type of the rows; a row to overwrite is the first of them.
LEMMA PutFacts ==
    ASSUME NEW V \in Seq(Voice), NEW voice \in Voice, NEW rows \in SUBSET DOMAIN V
    PROVE  /\ Put(V, voice, rows) \in Seq(Voice)
           /\ rows = {} => Put(V, voice, rows) = Append(V, voice)
           /\ rows # {} => \E i \in rows : /\ \A j \in rows : i =< j
                                           /\ Put(V, voice, rows) = [V EXCEPT ![i] = voice]
<1>1. CASE rows = {}
    BY <1>1 DEF Put
<1>2. CASE rows # {}
    <2>1. rows \in SUBSET Nat
        OBVIOUS
    <2>2. \E i \in rows : \A j \in rows : i =< j
        BY <1>2, <2>1, LeastNatural
    <2> DEFINE first == CHOOSE i \in rows : \A j \in rows : i =< j
    <2>3. first \in rows /\ \A j \in rows : first =< j
        BY <2>2
    <2>4. Put(V, voice, rows) = [V EXCEPT ![first] = voice]
        BY <1>2 DEF Put
    <2> HIDE DEF first
    <2>5. [V EXCEPT ![first] = voice] \in Seq(Voice)
        <3>1. Len(V) \in Nat /\ V \in [1 .. Len(V) -> Voice]
            OBVIOUS
        <3>2. [V EXCEPT ![first] = voice] \in [1 .. Len(V) -> Voice]
            BY <3>1
        <3> QED BY <3>1, <3>2, SeqDef
    <2> QED BY <1>2, <2>3, <2>4, <2>5
<1> QED BY <1>1, <1>2

\* A snapshot is what its five fields are.
LEMMA SnapshotFields ==
    ASSUME NEW w \in Snapshot
    PROVE  /\ w = [room |-> w.room, pieces |-> w.pieces, locked |-> w.locked,
                   voices |-> w.voices, peers |-> w.peers]
           /\ w.room \in RoomName \cup {NoName}
           /\ w.pieces \in [Piece -> Spot \cup {Gone}]
           /\ w.locked \in BOOLEAN
           /\ w.voices \in Seq(Voice)
           /\ w.peers \in [Peer -> Path \cup {Gone}]
BY DEF Snapshot, Layout

\* The snapshot with these fields.
Snap(room, pieces, locked, rows, peers) ==
    [room |-> room, pieces |-> pieces, locked |-> locked, voices |-> rows, peers |-> peers]

\* A snapshot made of fields has them.
LEMMA SnapType ==
    ASSUME NEW r \in RoomName \cup {NoName}, NEW p \in [Piece -> Spot \cup {Gone}],
           NEW l \in BOOLEAN, NEW v \in Seq(Voice), NEW q \in [Peer -> Path \cup {Gone}]
    PROVE  /\ Snap(r, p, l, v, q) \in Snapshot
           /\ Snap(r, p, l, v, q).room = r /\ Snap(r, p, l, v, q).pieces = p
           /\ Snap(r, p, l, v, q).locked = l /\ Snap(r, p, l, v, q).voices = v
           /\ Snap(r, p, l, v, q).peers = q
BY DEF Snap, Snapshot, Layout

\* The snapshots that differ from one in a single field.
LEMMA SnapOf ==
    ASSUME NEW w \in Snapshot
    PROVE  /\ \A a \in [Piece -> Spot \cup {Gone}] :
                  LET u == Snap(w.room, a, w.locked, w.voices, w.peers)
                  IN  /\ u \in Snapshot /\ u.room = w.room /\ u.pieces = a /\ u.locked = w.locked
                      /\ u.voices = w.voices /\ u.peers = w.peers
           /\ \A a \in [Peer -> Path \cup {Gone}] :
                  LET u == Snap(w.room, w.pieces, w.locked, w.voices, a)
                  IN  /\ u \in Snapshot /\ u.room = w.room /\ u.pieces = w.pieces
                      /\ u.locked = w.locked /\ u.voices = w.voices /\ u.peers = a
           /\ \A a \in Seq(Voice) :
                  LET u == Snap(w.room, w.pieces, w.locked, a, w.peers)
                  IN  /\ u \in Snapshot /\ u.room = w.room /\ u.pieces = w.pieces
                      /\ u.locked = w.locked /\ u.voices = a /\ u.peers = w.peers
BY SnapshotFields, SnapType

\* The snapshot of a room just entered.
LEMMA SnapEntered ==
    ASSUME NEW room \in RoomName \cup {NoName}, NEW p \in [Piece -> Spot \cup {Gone}], NEW l \in BOOLEAN
    PROVE  LET u == Snap(room, p, l, <<>>, Empty.peers)
           IN  /\ u \in Snapshot /\ u.room = room /\ u.pieces = p /\ u.locked = l
               /\ u.voices = <<>> /\ u.peers = Empty.peers
<1>1. <<>> \in Seq(Voice) /\ Empty.peers \in [Peer -> Path \cup {Gone}]
    BY DEF Empty, Gone
<1>2. ASSUME NEW none \in Seq(Voice), NEW q \in [Peer -> Path \cup {Gone}]
      PROVE  LET u == Snap(room, p, l, none, q)
             IN  /\ u \in Snapshot /\ u.room = room /\ u.pieces = p /\ u.locked = l
                 /\ u.voices = none /\ u.peers = q
    BY SnapType
<1> QED BY <1>1, <1>2, Zenon

\* Changing one field makes that snapshot.
LEMMA SnapExcept ==
    ASSUME NEW w \in Snapshot, NEW x
    PROVE  /\ w = Snap(w.room, w.pieces, w.locked, w.voices, w.peers)
           /\ [w EXCEPT !.room = x] = Snap(x, w.pieces, w.locked, w.voices, w.peers)
           /\ [w EXCEPT !.pieces = x] = Snap(w.room, x, w.locked, w.voices, w.peers)
           /\ [w EXCEPT !.locked = x] = Snap(w.room, w.pieces, x, w.voices, w.peers)
           /\ [w EXCEPT !.voices = x] = Snap(w.room, w.pieces, w.locked, x, w.peers)
           /\ [w EXCEPT !.peers = x] = Snap(w.room, w.pieces, w.locked, w.voices, x)
BY DEF Snap, Snapshot

\* The fields of the empty snapshot.
LEMMA EmptyFacts ==
    /\ Empty \in Snapshot
    /\ Empty.room = NoName /\ Empty.pieces = [p \in Piece |-> Gone] /\ Empty.locked = FALSE
    /\ Empty.voices = <<>> /\ Empty.peers = [q \in Peer |-> Gone]
BY DEF Empty, Snapshot, Layout, Gone

\* apply_native_delta, one line for each kind of event.
LEMMA DeltaSnapshot ==
    ASSUME NEW w, NEW to
    PROVE  Delta(w, [type |-> "snapshot", snapshot |-> to]) = to
BY DEF Delta

\* What each event does to a snapshot: a room is entered,
LEMMA DeltaEnter ==
    ASSUME NEW w \in Snapshot, NEW room \in RoomName, NoName \notin RoomName
    PROVE  Delta(w, RoomChanged(room)) = Snap(room, w.pieces, w.locked, w.voices, w.peers)
<1>1. Delta(w, RoomChanged(room)) = [w EXCEPT !.room = room]
    BY DEF Delta, RoomChanged
<1> QED BY <1>1, SnapExcept

\* a room is left,
LEMMA DeltaLeave ==
    ASSUME NEW w \in Snapshot
    PROVE  Delta(w, RoomChanged(NoName)) = Snap(NoName, Empty.pieces, w.locked, <<>>, Empty.peers)
<1>1. Delta(w, RoomChanged(NoName)) = [Empty EXCEPT !.locked = w.locked]
    BY DEF Delta, RoomChanged
<1>2. \A x : [Empty EXCEPT !.locked = x] =
                 Snap(Empty.room, Empty.pieces, x, Empty.voices, Empty.peers)
    BY EmptyFacts, SnapExcept
<1> QED BY <1>1, <1>2, EmptyFacts, Zenon

\* a piece is put or dropped,
LEMMA DeltaPiece ==
    ASSUME NEW w \in Snapshot, NEW p \in Piece, NEW spot
    PROVE  Delta(w, PieceEvent(p, spot)) =
               Snap(w.room, [w.pieces EXCEPT ![p] = spot], w.locked, w.voices, w.peers)
<1>1. Delta(w, PieceEvent(p, spot)) = [w EXCEPT !.pieces[p] = spot]
    BY DEF Delta, PieceEvent
<1>2. @ = [w EXCEPT !.pieces = [w.pieces EXCEPT ![p] = spot]]
    BY DEF Snapshot
<1> QED BY <1>1, <1>2, SnapExcept

ConfigChanged(locked) == [type |-> "config", locked |-> locked]

\* the configuration changes,
LEMMA DeltaConfig ==
    ASSUME NEW w \in Snapshot, NEW locked
    PROVE  Delta(w, ConfigChanged(locked)) = Snap(w.room, w.pieces, locked, w.voices, w.peers)
<1>1. Delta(w, ConfigChanged(locked)) = [w EXCEPT !.locked = locked]
    BY DEF Delta, ConfigChanged
<1> QED BY <1>1, SnapExcept

VoiceChanged(voice) == [type |-> "voice", voice |-> voice]

\* a voice changes,
LEMMA DeltaVoice ==
    ASSUME NEW w \in Snapshot, NEW voice
    PROVE  Delta(w, VoiceChanged(voice)) =
               Snap(w.room, w.pieces, w.locked,
                    Put(w.voices, voice, Rows(w.voices, voice.author)), w.peers)
<1>1. Delta(w, VoiceChanged(voice)) =
          [w EXCEPT !.voices = Put(w.voices, voice, Rows(w.voices, voice.author))]
    BY DEF Delta, VoiceChanged
<1> QED BY <1>1, SnapExcept

PeerChanged(q, path) == [type |-> "peer", peer |-> q, path |-> path]

\* the path to a peer changes.
LEMMA DeltaPeer ==
    ASSUME NEW w \in Snapshot, NEW q \in Peer, NEW path
    PROVE  Delta(w, PeerChanged(q, path)) =
               Snap(w.room, w.pieces, w.locked, w.voices, [w.peers EXCEPT ![q] = path])
<1>1. Delta(w, PeerChanged(q, path)) = [w EXCEPT !.peers[q] = path]
    BY DEF Delta, PeerChanged
<1>2. @ = [w EXCEPT !.peers = [w.peers EXCEPT ![q] = path]]
    BY DEF Snapshot
<1> QED BY <1>1, <1>2, SnapExcept

\* What a host sends is an event.
LEMMA EventTypes ==
    /\ \A s \in Snapshot : [type |-> "snapshot", snapshot |-> s] \in WindowEvent
    /\ \A r \in RoomName \cup {NoName} : RoomChanged(r) \in WindowEvent
    /\ \A p \in Piece, spot \in Spot \cup {Gone} : PieceEvent(p, spot) \in WindowEvent
    /\ \A l \in BOOLEAN : ConfigChanged(l) \in WindowEvent
    /\ \A v \in Voice : VoiceChanged(v) \in WindowEvent
    /\ \A q \in Peer, path \in Path \cup {Gone} : PeerChanged(q, path) \in WindowEvent
<1> USE DEF WindowEvent
<1>1. \A s \in Snapshot : [type |-> "snapshot", snapshot |-> s] \in WindowEvent
    OBVIOUS
<1>2. \A r \in RoomName \cup {NoName} : RoomChanged(r) \in WindowEvent
    BY DEF RoomChanged
<1>3. \A p \in Piece, spot \in Spot \cup {Gone} : PieceEvent(p, spot) \in WindowEvent
    BY DEF PieceEvent
<1>4. \A l \in BOOLEAN : ConfigChanged(l) \in WindowEvent
    BY DEF ConfigChanged
<1>5. \A v \in Voice : VoiceChanged(v) \in WindowEvent
    BY DEF VoiceChanged
<1>6. \A q \in Peer, path \in Path \cup {Gone} : PeerChanged(q, path) \in WindowEvent
    BY DEF PeerChanged
<1> HIDE DEF WindowEvent
<1> QED BY <1>1, <1>2, <1>3, <1>4, <1>5, <1>6

-----------------------------------------------------------------------------
(* Reaching a snapshot.                                                    *)

\* No events lead nowhere else.
LEMMA ReachesNothing ==
    ASSUME NEW from \in Snapshot, NEW to
    PROVE  Reaches(from, <<>>, to) <=> to = from
<1>1. Trail([k \in {0} |-> from], from, <<>>)
    BY DEF Trail
<1>2. ASSUME NEW w, Trail(w, from, <<>>) PROVE w[0] = from
    BY <1>2 DEF Trail
<1> QED BY <1>1, <1>2 DEF Reaches

\* One event leads to its delta.
LEMMA ReachesOne ==
    ASSUME NEW from \in Snapshot, NEW e, Delta(from, e) \in Snapshot
    PROVE  Reaches(from, <<e>>, Delta(from, e))
<1> DEFINE w == [k \in 0 .. 1 |-> IF k = 0 THEN from ELSE Delta(from, e)]
<1>1. w \in [0 .. 1 -> Snapshot] /\ w[0] = from /\ w[1] = Delta(from, e)
    OBVIOUS
<1> HIDE DEF w
<1>2. Len(<<e>>) = 1 /\ <<e>>[1] = e
    OBVIOUS
<1>3. Trail(w, from, <<e>>)
    BY <1>1, <1>2 DEF Trail
<1> QED BY <1>1, <1>2, <1>3 DEF Reaches

\* Events lead on from where others have led.
LEMMA ReachesJoin ==
    ASSUME NEW E1 \in Seq(WindowEvent), NEW E2 \in Seq(WindowEvent), NEW from, NEW mid, NEW to,
           Reaches(from, E1, mid), Reaches(mid, E2, to)
    PROVE  Reaches(from, E1 \o E2, to)
<1>1. PICK w1 : Trail(w1, from, E1) /\ w1[Len(E1)] = mid
    BY DEF Reaches
<1>2. PICK w2 : Trail(w2, mid, E2) /\ w2[Len(E2)] = to
    BY DEF Reaches
<1> DEFINE n == Len(E1)
           m == Len(E2)
           w == [k \in 0 .. n + m |-> IF k =< n THEN w1[k] ELSE w2[k - n]]
<1>3. n \in Nat /\ m \in Nat
    OBVIOUS
<1>4. /\ w1 \in [0 .. n -> Snapshot] /\ w1[0] = from /\ w1[n] = mid
      /\ \A k \in 1 .. n : w1[k] = Delta(w1[k - 1], E1[k])
    BY <1>1 DEF Trail
<1>5. /\ w2 \in [0 .. m -> Snapshot] /\ w2[0] = mid /\ w2[m] = to
      /\ \A k \in 1 .. m : w2[k] = Delta(w2[k - 1], E2[k])
    BY <1>2 DEF Trail
<1>6. /\ E1 \o E2 \in Seq(WindowEvent) /\ Len(E1 \o E2) = n + m
      /\ \A i \in 1 .. n : (E1 \o E2)[i] = E1[i]
      /\ \A i \in (n + 1) .. (n + m) : (E1 \o E2)[i] = E2[i - n]
    BY <1>3
<1> HIDE DEF n, m
<1>7. w \in [0 .. n + m -> Snapshot]
    <2>1. ASSUME NEW k \in 0 .. n + m PROVE (IF k =< n THEN w1[k] ELSE w2[k - n]) \in Snapshot
        <3>1. CASE k =< n
            BY <1>3, <1>4, <3>1
        <3>2. CASE ~(k =< n)
            <4>1. k - n \in 0 .. m
                BY <1>3, <3>2
            <4> QED BY <1>5, <3>2, <4>1
        <3> QED BY <3>1, <3>2
    <2> QED BY <2>1
<1>8. w[0] = from /\ w[n + m] = to
    <2>1. CASE m = 0
        BY <1>3, <1>4, <1>5, <2>1
    <2>2. CASE m # 0
        BY <1>3, <1>4, <1>5, <2>2
    <2> QED BY <2>1, <2>2
<1>9. ASSUME NEW k \in 1 .. n + m PROVE w[k] = Delta(w[k - 1], (E1 \o E2)[k])
    <2>1. CASE k =< n
        <3>1. k \in 1 .. n /\ k - 1 \in 0 .. n + m /\ k - 1 =< n
            BY <1>3, <2>1
        <3> QED BY <1>3, <1>4, <1>6, <2>1, <3>1
    <2>2. CASE k = n + 1
        <3>1. k - 1 = n /\ k - n = 1 /\ 1 \in 1 .. m /\ k \in (n + 1) .. (n + m)
              /\ n \in 0 .. n + m /\ k \in 0 .. n + m /\ ~(k =< n) /\ n =< n
            BY <1>3, <2>2
        <3>2. w[k] = w2[1] /\ w[k - 1] = w1[n]
            BY <3>1
        <3>3. w2[1] = Delta(w2[0], E2[1])
            <4>1. 1 - 1 = 0
                OBVIOUS
            <4> QED BY <1>5, <3>1, <4>1
        <3>4. (E1 \o E2)[k] = E2[1]
            BY <1>6, <3>1
        <3> QED BY <1>4, <1>5, <3>2, <3>3, <3>4
    <2>3. CASE k > n + 1
        <3>1. /\ k - n \in 1 .. m /\ k \in (n + 1) .. (n + m) /\ (k - 1) - n = (k - n) - 1
              /\ k - 1 \in 0 .. n + m /\ k \in 0 .. n + m /\ ~(k =< n) /\ ~(k - 1 =< n)
            BY <1>3, <2>3
        <3>2. w[k] = w2[k - n] /\ w[k - 1] = w2[(k - n) - 1]
            BY <3>1
        <3> QED BY <1>5, <1>6, <3>1, <3>2
    <2>4. k =< n \/ k = n + 1 \/ k > n + 1
        BY <1>3
    <2> QED BY <2>1, <2>2, <2>3, <2>4
<1> HIDE DEF w
<1>10. Trail(w, from, E1 \o E2)
    BY <1>6, <1>7, <1>8, <1>9 DEF Trail
<1> QED BY <1>6, <1>8, <1>10 DEF Reaches

\* The events that follow the first lead on from its delta.
LEMMA ReachesTail ==
    ASSUME NEW E1 \in Seq(WindowEvent), E1 # <<>>, NEW from, NEW to, Reaches(from, E1, to)
    PROVE  /\ Reaches(Delta(from, Head(E1)), Tail(E1), to)
           /\ Delta(from, Head(E1)) \in Snapshot
<1>1. PICK w : Trail(w, from, E1) /\ w[Len(E1)] = to
    BY DEF Reaches
<1> DEFINE n == Len(E1)
           u == [k \in 0 .. n - 1 |-> w[k + 1]]
<1>2. /\ n \in Nat \ {0} /\ Head(E1) = E1[1] /\ Len(Tail(E1)) = n - 1
      /\ \A i \in 1 .. n - 1 : Tail(E1)[i] = E1[i + 1]
    BY HeadTailProperties
<1>3. /\ w \in [0 .. n -> Snapshot] /\ w[0] = from /\ w[n] = to
      /\ \A k \in 1 .. n : w[k] = Delta(w[k - 1], E1[k])
    BY <1>1 DEF Trail
<1> HIDE DEF n
<1>4. w[1] = Delta(from, Head(E1)) /\ w[1] \in Snapshot
    <2>1. 1 \in 1 .. n /\ 1 - 1 = 0 /\ 1 \in 0 .. n
        BY <1>2
    <2> QED BY <1>2, <1>3, <2>1
<1>5. u \in [0 .. n - 1 -> Snapshot] /\ u[0] = w[1] /\ u[n - 1] = to
    BY <1>2, <1>3
<1>6. ASSUME NEW k \in 1 .. n - 1 PROVE u[k] = Delta(u[k - 1], Tail(E1)[k])
    <2>1. /\ k + 1 \in 1 .. n /\ (k + 1) - 1 = k /\ (k - 1) + 1 = k
          /\ k \in 0 .. n - 1 /\ k - 1 \in 0 .. n - 1
        BY <1>2
    <2>2. u[k] = w[k + 1] /\ u[k - 1] = w[k]
        BY <2>1
    <2> QED BY <1>2, <1>3, <2>1, <2>2
<1> HIDE DEF u
<1>7. Trail(u, w[1], Tail(E1))
    BY <1>2, <1>5, <1>6 DEF Trail
<1> QED BY <1>2, <1>4, <1>5, <1>7 DEF Reaches

\* Each piece that changes is announced once more than never, in some order.
LEMMA PieceEventsOrdered ==
    ASSUME NEW view \in Layout, IsFiniteSet(Piece)
    PROVE  /\ Cardinality(PieceEvents(view)) \in Nat
           /\ \E s \in [1 .. Cardinality(PieceEvents(view)) -> PieceEvents(view)] :
                  {s[i] : i \in 1 .. Cardinality(PieceEvents(view))} = PieceEvents(view)
<1> DEFINE D == {x \in Piece : view[x] # snapshot.pieces[x]}
           T == PieceEvents(view)
           f == [x \in D |-> PieceEvent(x, view[x])]
<1>1. IsFiniteSet(D)
    BY FS_Subset
<1>2. f \in Surjection(D, T)
    BY DEF PieceEvents, Surjection
<1>3. IsFiniteSet(T)
    BY <1>1, <1>2, FS_Surjection DEF ExistsSurjection
<1> HIDE DEF T
<1>4. Cardinality(T) \in Nat /\ ExistsBijection(1 .. Cardinality(T), T)
    BY <1>3, FS_CardinalityType
<1>5. PICK s : s \in Bijection(1 .. Cardinality(T), T)
    BY <1>4 DEF ExistsBijection
<1>6. s \in [1 .. Cardinality(T) -> T] /\ \A t \in T : \E i \in 1 .. Cardinality(T) : s[i] = t
    BY <1>5 DEF Bijection, Surjection
<1>7. {s[i] : i \in 1 .. Cardinality(T)} = T
    BY <1>6
<1> QED BY <1>4, <1>6, <1>7 DEF T

\* A window that holds the old pieces holds the new ones when it has heard of all
\* that changed, in whatever order.
LEMMA PiecesReached ==
    ASSUME NEW w \in Snapshot, NEW host \in Snapshot, w.pieces = host.pieces,
           NEW view \in Layout, NEW n \in Nat, NEW D \in SUBSET Piece,
           NEW order, order \in [1 .. n -> {PieceEvent(p, view[p]) : p \in D}],
           {order[i] : i \in 1 .. n} = {PieceEvent(p, view[p]) : p \in D},
           \A p \in Piece : p \notin D => view[p] = host.pieces[p]
    PROVE  /\ order \in Seq(WindowEvent)
           /\ Reaches(w, order, Snap(w.room, view, w.locked, w.voices, w.peers))
<1> DEFINE After(k) == [p \in Piece |-> IF \E i \in 1 .. k : order[i].piece = p
                                         THEN view[p] ELSE w.pieces[p]]
           t == [k \in 0 .. n |-> Snap(w.room, After(k), w.locked, w.voices, w.peers)]
<1>0. /\ w.room \in RoomName \cup {NoName} /\ w.pieces \in [Piece -> Spot \cup {Gone}]
      /\ w.locked \in BOOLEAN /\ w.voices \in Seq(Voice) /\ w.peers \in [Peer -> Path \cup {Gone}]
      /\ view \in [Piece -> Spot \cup {Gone}]
      /\ w = Snap(w.room, w.pieces, w.locked, w.voices, w.peers)
    BY SnapshotFields, SnapExcept DEF Layout
<1>1. ASSUME NEW i \in 1 .. n
      PROVE  /\ order[i].piece \in D
             /\ order[i] = PieceEvent(order[i].piece, view[order[i].piece])
    BY DEF PieceEvent
<1>2. ASSUME NEW p \in D PROVE \E i \in 1 .. n : order[i].piece = p
    <2>1. PieceEvent(p, view[p]) \in {order[i] : i \in 1 .. n}
        OBVIOUS
    <2>2. PICK i \in 1 .. n : order[i] = PieceEvent(p, view[p])
        BY <2>1
    <2> QED BY <2>2 DEF PieceEvent
<1>3. order \in Seq(WindowEvent)
    <2>1. ASSUME NEW i \in 1 .. n PROVE order[i] \in WindowEvent
        <3>1. view[order[i].piece] \in Spot \cup {Gone}
            BY <1>0, <1>1
        <3> QED BY <1>1, <3>1, EventTypes
    <2>2. order \in [1 .. n -> WindowEvent]
        BY <2>1
    <2> QED BY <2>2, SeqDef
<1>4. Len(order) = n
    BY <1>3
<1>5. ASSUME NEW k \in 0 .. n PROVE After(k) \in [Piece -> Spot \cup {Gone}]
    BY <1>0
<1>6. t \in [0 .. n -> Snapshot]
    BY <1>0, <1>5, SnapType, ZenonT(60)
<1>7. After(0) = w.pieces
    <2>1. 1 .. 0 = {}
        OBVIOUS
    <2> QED BY <1>0, <2>1
<1>8. After(n) = view
    BY <1>0, <1>1, <1>2
<1>9. ASSUME NEW k \in 1 .. n
      PROVE  After(k) = [After(k - 1) EXCEPT ![order[k].piece] = view[order[k].piece]]
    <2> DEFINE x == order[k].piece
    <2>1. 1 .. k = (1 .. k - 1) \cup {k}
        OBVIOUS
    <2>2. \A p : (\E i \in 1 .. k : order[i].piece = p)
                     <=> (\E i \in 1 .. k - 1 : order[i].piece = p) \/ p = x
        BY <2>1
    <2>3. x \in Piece
        BY <1>1
    <2> HIDE DEF x
    <2>4. After(k) = [p \in Piece |-> IF (\E i \in 1 .. k - 1 : order[i].piece = p) \/ p = x
                                         THEN view[p] ELSE w.pieces[p]]
        BY <2>2
    <2>5. @ = [After(k - 1) EXCEPT ![x] = view[x]]
        BY <2>3
    <2> QED BY <2>4, <2>5 DEF x
<1> HIDE DEF After
<1>10. ASSUME NEW k \in 1 .. n PROVE t[k] = Delta(t[k - 1], order[k])
    <2>1. k - 1 \in 0 .. n /\ k \in 0 .. n
        OBVIOUS
    <2> DEFINE a == After(k - 1)
               u == Snap(w.room, a, w.locked, w.voices, w.peers)
               x == order[k].piece
    <2>2. /\ u \in Snapshot /\ u.room = w.room /\ u.pieces = a /\ u.locked = w.locked
          /\ u.voices = w.voices /\ u.peers = w.peers
        <3>1. a \in [Piece -> Spot \cup {Gone}]
            BY <1>5, <2>1
        <3> HIDE DEF a, t
        <3> QED BY <3>1, SnapOf
    <2>3. t[k - 1] = u /\ t[k] = Snap(w.room, After(k), w.locked, w.voices, w.peers)
        BY <2>1
    <2>4. x \in Piece /\ order[k] = PieceEvent(x, view[x])
        BY <1>1
    <2> HIDE DEF u, x, t
    <2>5. Delta(u, PieceEvent(x, view[x])) =
              Snap(w.room, [After(k - 1) EXCEPT ![x] = view[x]], w.locked, w.voices, w.peers)
        BY <2>2, <2>4, DeltaPiece
    <2> QED BY <1>9, <2>3, <2>4, <2>5 DEF x
<1>11. t[0] = w /\ t[n] = Snap(w.room, view, w.locked, w.voices, w.peers)
    BY <1>0, <1>7, <1>8
<1> HIDE DEF t
<1>12. Trail(t, w, order)
    BY <1>4, <1>6, <1>10, <1>11 DEF Trail
<1> QED BY <1>3, <1>4, <1>11, <1>12 DEF Reaches

Bootstrap(order) ==
    [i \in DOMAIN order |-> [type |-> "peer", peer |-> order[i], path |-> "connecting"]]

Connecting(peers, found) == [q \in Peer |-> IF q \in found THEN "connecting" ELSE peers[q]]

\* The same for peers that are all shown as connecting.
LEMMA PeersReached ==
    ASSUME NEW w \in Snapshot, NEW n \in Nat, NEW D \in SUBSET Peer,
           NEW order, order \in [1 .. n -> D], {order[i] : i \in 1 .. n} = D
    PROVE  /\ Bootstrap(order) \in Seq(WindowEvent)
           /\ Reaches(w, Bootstrap(order),
                      Snap(w.room, w.pieces, w.locked, w.voices, Connecting(w.peers, D)))
<1> DEFINE events == Bootstrap(order)
           final == Connecting(w.peers, D)
           After(k) == [q \in Peer |-> IF \E i \in 1 .. k : order[i] = q
                                        THEN "connecting" ELSE w.peers[q]]
           t == [k \in 0 .. n |-> Snap(w.room, w.pieces, w.locked, w.voices, After(k))]
<1>0. /\ w.room \in RoomName \cup {NoName} /\ w.pieces \in [Piece -> Spot \cup {Gone}]
      /\ w.locked \in BOOLEAN /\ w.voices \in Seq(Voice) /\ w.peers \in [Peer -> Path \cup {Gone}]
      /\ w = Snap(w.room, w.pieces, w.locked, w.voices, w.peers)
      /\ "connecting" \in Path \cup {Gone}
    BY SnapshotFields, SnapExcept DEF Path
<1>1. ASSUME NEW i \in 1 .. n
      PROVE  order[i] \in Peer /\ events[i] = PeerChanged(order[i], "connecting")
    BY DEF PeerChanged, Bootstrap
<1>2. ASSUME NEW q \in D PROVE \E i \in 1 .. n : order[i] = q
    <2>1. q \in {order[i] : i \in 1 .. n}
        OBVIOUS
    <2> QED BY <2>1
<1>3. events \in Seq(WindowEvent)
    <2>1. DOMAIN events = 1 .. n
        BY DEF Bootstrap
    <2>2. ASSUME NEW i \in 1 .. n PROVE events[i] \in WindowEvent
        BY <1>0, <1>1, EventTypes
    <2>3. events \in [1 .. n -> WindowEvent]
        BY <2>1, <2>2 DEF Bootstrap
    <2> QED BY <2>3, SeqDef
<1>4. Len(events) = n
    <2>1. DOMAIN events = 1 .. n
        BY DEF Bootstrap
    <2> QED BY <1>3, <2>1
<1> HIDE DEF events
<1>5. ASSUME NEW k \in 0 .. n PROVE After(k) \in [Peer -> Path \cup {Gone}]
    BY <1>0
<1>6. t \in [0 .. n -> Snapshot]
    BY <1>0, <1>5, SnapType, ZenonT(60)
<1>7. After(0) = w.peers
    <2>1. 1 .. 0 = {}
        OBVIOUS
    <2> QED BY <1>0, <2>1
<1>8. After(n) = final
    <2>1. \A q : (\E i \in 1 .. n : order[i] = q) <=> q \in D
        BY <1>2
    <2> QED BY <2>1 DEF Connecting
<1>9. ASSUME NEW k \in 1 .. n
      PROVE  After(k) = [After(k - 1) EXCEPT ![order[k]] = "connecting"]
    <2> DEFINE x == order[k]
    <2>1. 1 .. k = (1 .. k - 1) \cup {k}
        OBVIOUS
    <2>2. \A q : (\E i \in 1 .. k : order[i] = q)
                     <=> (\E i \in 1 .. k - 1 : order[i] = q) \/ q = x
        BY <2>1
    <2>3. x \in Peer
        BY <1>1
    <2> HIDE DEF x
    <2>4. After(k) = [q \in Peer |-> IF (\E i \in 1 .. k - 1 : order[i] = q) \/ q = x
                                        THEN "connecting" ELSE w.peers[q]]
        BY <2>2
    <2>5. @ = [After(k - 1) EXCEPT ![x] = "connecting"]
        BY <2>3
    <2> QED BY <2>4, <2>5 DEF x
<1> HIDE DEF After, final
<1>10. ASSUME NEW k \in 1 .. n PROVE t[k] = Delta(t[k - 1], events[k])
    <2>1. k - 1 \in 0 .. n /\ k \in 0 .. n
        OBVIOUS
    <2> DEFINE a == After(k - 1)
               u == Snap(w.room, w.pieces, w.locked, w.voices, a)
               x == order[k]
    <2>2. /\ u \in Snapshot /\ u.room = w.room /\ u.pieces = w.pieces /\ u.locked = w.locked
          /\ u.voices = w.voices /\ u.peers = a
        <3>1. a \in [Peer -> Path \cup {Gone}]
            BY <1>5, <2>1
        <3> HIDE DEF a, t
        <3> QED BY <3>1, SnapOf
    <2>3. t[k - 1] = u /\ t[k] = Snap(w.room, w.pieces, w.locked, w.voices, After(k))
        BY <2>1
    <2>4. x \in Peer /\ events[k] = PeerChanged(x, "connecting")
        BY <1>1
    <2> HIDE DEF u, x, t
    <2>5. Delta(u, PeerChanged(x, "connecting")) =
              Snap(w.room, w.pieces, w.locked, w.voices, [After(k - 1) EXCEPT ![x] = "connecting"])
        BY <2>2, <2>4, DeltaPeer
    <2> QED BY <1>9, <2>3, <2>4, <2>5 DEF x
<1>11. t[0] = w /\ t[n] = Snap(w.room, w.pieces, w.locked, w.voices, final)
    BY <1>0, <1>7, <1>8
<1> HIDE DEF t
<1>12. Trail(t, w, events)
    BY <1>4, <1>6, <1>10, <1>11 DEF Trail
<1>13. Reaches(w, events, Snap(w.room, w.pieces, w.locked, w.voices, final))
    BY <1>4, <1>11, <1>12 DEF Reaches
<1> QED BY <1>3, <1>13 DEF events, final

\* Applying a new view and hearing of it come to the same pieces and lock.
LEMMA ViewReached ==
    ASSUME NEW w \in Snapshot, snapshot \in Snapshot, w.pieces = snapshot.pieces,
           NEW view \in Layout, NEW locked \in BOOLEAN, WindowAssumption
    PROVE  /\ ViewEvents(view, locked) \in Seq(WindowEvent)
           /\ \E l \in BOOLEAN :
                  /\ l = IF locked = snapshot.locked THEN w.locked ELSE locked
                  /\ Reaches(w, ViewEvents(view, locked), Snap(w.room, view, l, w.voices, w.peers))
<1> DEFINE D == {x \in Piece : view[x] # snapshot.pieces[x]}
           T == PieceEvents(view)
           n == Cardinality(T)
           order == CHOOSE s \in [1 .. n -> T] : {s[i] : i \in 1 .. n} = T
           rest == IF locked = snapshot.locked THEN <<>> ELSE <<ConfigChanged(locked)>>
           u == Snap(w.room, view, w.locked, w.voices, w.peers)
           v == Snap(w.room, view, locked, w.voices, w.peers)
<1>1. T = {PieceEvent(p, view[p]) : p \in D}
    BY DEF PieceEvents
<1>2. /\ n \in Nat
      /\ order \in [1 .. n -> T] /\ {order[i] : i \in 1 .. n} = T
    BY PieceEventsOrdered DEF WindowAssumption
<1>3. ViewEvents(view, locked) = order \o rest
    BY DEF ViewEvents, ConfigChanged
<1>4. \A p \in Piece : p \notin D => view[p] = snapshot.pieces[p]
    OBVIOUS
<1>5. D \in SUBSET Piece
    OBVIOUS
<1> HIDE DEF D, T, n, order
<1>6. order \in Seq(WindowEvent) /\ Reaches(w, order, u)
    <2>1. /\ order \in [1 .. n -> {PieceEvent(p, view[p]) : p \in D}]
          /\ {order[i] : i \in 1 .. n} = {PieceEvent(p, view[p]) : p \in D}
        BY <1>1, <1>2, Zenon
    <2> QED BY <1>2, <1>4, <1>5, <2>1, PiecesReached, ZenonT(60)
<1>7. /\ u \in Snapshot /\ v \in Snapshot /\ u.room = w.room /\ u.pieces = view
      /\ u.locked = w.locked /\ u.voices = w.voices /\ u.peers = w.peers
    BY SnapshotFields, SnapType, SMTT(60) DEF Layout
<1>8. CASE locked = snapshot.locked
    <2>1. rest = <<>> /\ rest \in Seq(WindowEvent)
        BY <1>8
    <2>2. ViewEvents(view, locked) = order
        BY <1>3, <1>6, <2>1, ConcatEmptySeq
    <2>3. w.locked \in BOOLEAN
        BY SnapshotFields
    <2> QED BY <1>6, <1>8, <2>2, <2>3
<1>9. CASE locked # snapshot.locked
    <2>1. rest = <<ConfigChanged(locked)>> /\ rest \in Seq(WindowEvent)
        BY <1>9, EventTypes
    <2>2. Delta(u, ConfigChanged(locked)) = v
        <3> HIDE DEF u, v
        <3>1. Delta(u, ConfigChanged(locked)) = Snap(u.room, u.pieces, locked, u.voices, u.peers)
            BY <1>7, DeltaConfig
        <3> QED BY <1>7, <3>1 DEF v
    <2> HIDE DEF u, v, rest
    <2>3. Reaches(u, rest, v)
        BY <1>7, <2>1, <2>2, ReachesOne
    <2>4. ViewEvents(view, locked) \in Seq(WindowEvent) /\ Reaches(w, ViewEvents(view, locked), v)
        BY <1>3, <1>6, <2>1, <2>3, ReachesJoin, ConcatProperties
    <2> QED BY <1>9, <2>4 DEF v
<1> QED BY <1>8, <1>9

-----------------------------------------------------------------------------
(* Rows of voices.                                                         *)

\* U is V with the voice written to row j: the first of the rows to overwrite, or
\* a new one if there are none.
Written(V, U, voice, rows, j) ==
    /\ j \in 1 .. Len(U) /\ U[j] = voice
    /\ \A i \in 1 .. Len(U) : i # j => i \in 1 .. Len(V) /\ U[i] = V[i]
    /\ \A i \in 1 .. Len(V) : i \in 1 .. Len(U)
    /\ rows = {} => j \notin 1 .. Len(V)
    /\ rows # {} => j \in rows /\ \A i \in rows : j =< i

\* The singer's row that is kept up to date is the voice's, others' rows are as before.
Overwrites(V, U, voice) ==
    /\ U \in Seq(Voice)
    /\ Rows(U, voice.author) # {} /\ Heard(U, voice.author) \subseteq {voice}
    /\ \A a : a # voice.author => Rows(U, a) = Rows(V, a) /\ Heard(U, a) = Heard(V, a)

\* The voice has a row of its own, others' rows are as before.
Records(V, U, voice) ==
    /\ U \in Seq(Voice) /\ OneRow(U)
    /\ \E j \in DOMAIN U : U[j] = voice
    /\ Rows(U, voice.author) # {}
    /\ \A a : a # voice.author => Rows(U, a) = Rows(V, a)
    /\ \A i \in DOMAIN V : V[i].author # voice.author => i \in DOMAIN U /\ U[i] = V[i]

\* Put writes the voice to one place and leaves every other row alone.
LEMMA PutShape ==
    ASSUME NEW V \in Seq(Voice), NEW voice \in Voice, NEW rows \in SUBSET DOMAIN V
    PROVE  /\ Put(V, voice, rows) \in Seq(Voice)
           /\ \E j : Written(V, Put(V, voice, rows), voice, rows, j)
<1> DEFINE U == Put(V, voice, rows)
<1>1. Len(V) \in Nat /\ DOMAIN V = 1 .. Len(V)
    OBVIOUS
<1>2. U \in Seq(Voice)
    BY PutFacts
<1> SUFFICES \E j : Written(V, U, voice, rows, j)
    BY <1>2
<1>3. CASE rows = {}
    <2>1. U = Append(V, voice)
        BY <1>3, PutFacts
    <2> HIDE DEF U
    <2>2. /\ Len(U) = Len(V) + 1 /\ U[Len(V) + 1] = voice
          /\ \A i \in 1 .. Len(V) : U[i] = V[i]
        BY <2>1
    <2>3. Len(V) + 1 \in 1 .. Len(U) /\ Len(V) + 1 \notin 1 .. Len(V)
        BY <1>1, <2>2
    <2>4. \A i \in 1 .. Len(U) : i # Len(V) + 1 => i \in 1 .. Len(V)
        BY <1>1, <2>2
    <2>5. \A i \in 1 .. Len(V) : i \in 1 .. Len(U)
        BY <1>1, <2>2
    <2> QED BY <1>3, <2>2, <2>3, <2>4, <2>5 DEF Written
<1>4. CASE rows # {}
    <2>1. PICK j \in rows : (\A i \in rows : j =< i) /\ U = [V EXCEPT ![j] = voice]
        BY <1>4, PutFacts
    <2> HIDE DEF U
    <2>2. j \in 1 .. Len(V)
        BY <1>1
    <2>3. Len(U) = Len(V) /\ \A i \in 1 .. Len(V) : U[i] = IF i = j THEN voice ELSE V[i]
        BY <2>1, <2>2, ExceptSeq
    <2> QED BY <1>4, <2>1, <2>2, <2>3 DEF Written
<1> QED BY <1>3, <1>4

\* The window overwrites the first row of the singer: that is the row it keeps up
\* to date, and no other singer's rows change.
LEMMA WindowPut ==
    ASSUME NEW V \in Seq(Voice), NEW voice \in Voice
    PROVE  Overwrites(V, Put(V, voice, Rows(V, voice.author)), voice)
<1> DEFINE U == Put(V, voice, Rows(V, voice.author))
           mine == Rows(V, voice.author)
<1>0. Len(V) \in Nat /\ DOMAIN V = 1 .. Len(V)
    OBVIOUS
<1>1. mine \in SUBSET DOMAIN V
    BY DEF Rows
<1>2. U \in Seq(Voice) /\ \E j : Written(V, U, voice, mine, j)
    BY <1>1, PutShape
<1>h. PICK j : Written(V, U, voice, mine, j)
    BY <1>2
<1> HIDE DEF U
<1>3. /\ j \in 1 .. Len(U) /\ U[j] = voice
      /\ \A i \in 1 .. Len(U) : i # j => i \in 1 .. Len(V) /\ U[i] = V[i]
      /\ \A i \in 1 .. Len(V) : i \in 1 .. Len(U)
      /\ mine = {} => j \notin 1 .. Len(V)
      /\ mine # {} => j \in mine /\ \A i \in mine : j =< i
    BY <1>h DEF Written
<1>4. DOMAIN U = 1 .. Len(U) /\ Len(U) \in Nat
    BY <1>2
<1>5. j \in Rows(U, voice.author)
    BY <1>3, <1>4 DEF Rows
<1>6. ASSUME NEW i \in Rows(U, voice.author), \A k \in Rows(U, voice.author) : i =< k
      PROVE  U[i] = voice
    <2>1. i \in 1 .. Len(U) /\ i =< j /\ U[i].author = voice.author
        BY <1>4, <1>5, <1>6 DEF Rows
    <2>2. SUFFICES ASSUME i # j PROVE FALSE
        BY <1>3
    <2>3. i \in mine
        BY <1>0, <1>3, <2>1, <2>2 DEF Rows
    <2>4. j =< i
        BY <1>3, <2>3
    <2>5. i \in Nat /\ j \in Nat
        BY <1>3, <1>4, <2>1
    <2> QED BY <2>1, <2>2, <2>4, <2>5
<1>7. Heard(U, voice.author) \subseteq {voice}
    BY <1>6 DEF Heard
<1>8. ASSUME NEW a, a # voice.author
      PROVE  Rows(U, a) = Rows(V, a) /\ Heard(U, a) = Heard(V, a)
    <2>1. ASSUME NEW i \in Rows(V, a) PROVE i \in Rows(U, a)
        <3>1. i \in 1 .. Len(V) /\ V[i].author = a
            BY <1>0 DEF Rows
        <3>2. i # j
            BY <1>3, <1>8, <3>1 DEF Rows
        <3> QED BY <1>3, <1>4, <3>1, <3>2 DEF Rows
    <2>2. ASSUME NEW i \in Rows(U, a) PROVE i \in Rows(V, a) /\ U[i] = V[i]
        <3>1. i \in 1 .. Len(U) /\ U[i].author = a
            BY <1>4 DEF Rows
        <3>2. i # j
            BY <1>3, <1>8, <3>1
        <3> QED BY <1>0, <1>3, <3>1, <3>2 DEF Rows
    <2>3. Rows(U, a) = Rows(V, a)
        BY <2>1, <2>2
    <2>4. Heard(U, a) = Heard(V, a)
        <3> DEFINE F == {x \in Rows(U, a) : \A k \in Rows(U, a) : x =< k}
        <3>1. Heard(U, a) = {U[i] : i \in F} /\ Heard(V, a) = {V[i] : i \in F}
            BY <2>3, Zenon DEF Heard
        <3>2. \A i \in F : U[i] = V[i]
            BY <2>2
        <3> HIDE DEF F
        <3> QED BY <3>1, <3>2
    <2> QED BY <2>3, <2>4
<1>9. Overwrites(V, U, voice)
    BY <1>2, <1>5, <1>7, <1>8 DEF Overwrites
<1> QED BY <1>9 DEF U

\* The host keeps a row for each session of a singer.
LEMMA HostPut ==
    ASSUME NEW V \in Seq(Voice), OneRow(V), NEW voice \in Voice
    PROVE  Records(V, Put(V, voice, {i \in Rows(V, voice.author) : V[i].session = voice.session}),
                   voice)
<1> DEFINE rows == {i \in Rows(V, voice.author) : V[i].session = voice.session}
           U == Put(V, voice, rows)
<1>0. Len(V) \in Nat /\ DOMAIN V = 1 .. Len(V)
    OBVIOUS
<1>1. rows \in SUBSET DOMAIN V
    BY DEF Rows
<1>2. U \in Seq(Voice) /\ \E j : Written(V, U, voice, rows, j)
    BY <1>1, PutShape
<1>h. PICK j : Written(V, U, voice, rows, j)
    BY <1>2
<1> HIDE DEF U, rows
<1>3. /\ j \in 1 .. Len(U) /\ U[j] = voice
      /\ \A i \in 1 .. Len(U) : i # j => i \in 1 .. Len(V) /\ U[i] = V[i]
      /\ \A i \in 1 .. Len(V) : i \in 1 .. Len(U)
      /\ rows = {} => j \notin 1 .. Len(V)
      /\ rows # {} => j \in rows /\ \A i \in rows : j =< i
    BY <1>h DEF Written
<1>4. DOMAIN U = 1 .. Len(U)
    BY <1>2
<1>5. j \in Rows(U, voice.author)
    BY <1>3, <1>4 DEF Rows
<1>6. ASSUME NEW i \in DOMAIN V, V[i].author # voice.author PROVE i # j
    BY <1>0, <1>3, <1>6 DEF Rows, rows
<1>7. ASSUME NEW i \in DOMAIN V, V[i].author # voice.author PROVE i \in DOMAIN U /\ U[i] = V[i]
    BY <1>0, <1>3, <1>4, <1>6, <1>7
<1>8. ASSUME NEW a, a # voice.author PROVE Rows(U, a) = Rows(V, a)
    <2>1. ASSUME NEW i \in Rows(V, a) PROVE i \in Rows(U, a)
        BY <1>7, <1>8 DEF Rows
    <2>2. ASSUME NEW i \in Rows(U, a) PROVE i \in Rows(V, a)
        <3>1. i \in 1 .. Len(U) /\ U[i].author = a
            BY <1>4 DEF Rows
        <3>2. i # j
            BY <1>3, <1>8, <3>1
        <3> QED BY <1>0, <1>3, <3>1, <3>2 DEF Rows
    <2> QED BY <2>1, <2>2
<1>9. OneRow(U)
    <2>1. ASSUME NEW i \in 1 .. Len(U), i # j
          PROVE  ~(U[i].author = voice.author /\ U[i].session = voice.session)
        <3>1. i \in 1 .. Len(V) /\ U[i] = V[i]
            BY <1>3, <2>1
        <3>2. SUFFICES ASSUME V[i].author = voice.author, V[i].session = voice.session PROVE FALSE
            BY <3>1
        <3>3. i \in rows
            BY <1>0, <3>1, <3>2 DEF Rows, rows
        <3>4. j \in rows /\ V[j].author = voice.author /\ V[j].session = voice.session /\ j \in DOMAIN V
            BY <1>3, <3>3 DEF Rows, rows
        <3> QED BY <1>0, <2>1, <3>1, <3>2, <3>4 DEF OneRow
    <2>2. ASSUME NEW i \in 1 .. Len(U), NEW k \in 1 .. Len(U), i # j, k # j,
                 U[i].author = U[k].author, U[i].session = U[k].session
          PROVE  i = k
        BY <1>0, <1>3, <2>2 DEF OneRow
    <2>3. ASSUME NEW i \in 1 .. Len(U), NEW k \in 1 .. Len(U),
                 U[i].author = U[k].author, U[i].session = U[k].session
          PROVE  i = k
        <3>1. CASE i # j /\ k # j
            BY <2>2, <2>3, <3>1
        <3>2. CASE i = j
            BY <1>3, <2>1, <2>3, <3>2
        <3>3. CASE k = j
            BY <1>3, <2>1, <2>3, <3>3
        <3> QED BY <3>1, <3>2, <3>3
    <2> QED BY <1>4, <2>3 DEF OneRow
<1>10. Records(V, U, voice)
    BY <1>2, <1>3, <1>4, <1>5, <1>7, <1>8, <1>9 DEF Records
<1> QED BY <1>10 DEF U, rows

\* Voices agree with themselves.
LEMMA VoicesAgreeRefl ==
    ASSUME NEW V
    PROVE  VoicesAgree(V, V)
BY DEF VoicesAgree, Heard, Rows

\* They still agree when the same voice is put on both sides.
LEMMA VoicesAgreePut ==
    ASSUME NEW shown \in Seq(Voice), NEW held \in Seq(Voice), OneRow(held), NEW voice \in Voice,
           VoicesAgree(shown, held)
    PROVE  VoicesAgree(Put(shown, voice, Rows(shown, voice.author)),
                       Put(held, voice, {i \in Rows(held, voice.author) :
                                             held[i].session = voice.session}))
<1> DEFINE S == Put(shown, voice, Rows(shown, voice.author))
           H == Put(held, voice, {i \in Rows(held, voice.author) : held[i].session = voice.session})
<1>1. Overwrites(shown, S, voice)
    BY WindowPut
<1>2. Records(held, H, voice)
    BY HostPut
<1> HIDE DEF S, H
<1>3. ASSUME NEW a \in Peer \cup {Self}
      PROVE  /\ Rows(S, a) = {} <=> Rows(H, a) = {}
             /\ \A v \in Heard(S, a) : \E i \in DOMAIN H : H[i] = v
    <2>1. CASE a = voice.author
        BY <1>1, <1>2, <2>1 DEF Overwrites, Records
    <2>2. CASE a # voice.author
        <3>1. Rows(S, a) = {} <=> Rows(H, a) = {}
            BY <1>1, <1>2, <2>2 DEF VoicesAgree, Overwrites, Records
        <3>2. ASSUME NEW v \in Heard(S, a) PROVE \E i \in DOMAIN H : H[i] = v
            <4>1. v \in Heard(shown, a)
                BY <1>1, <2>2, <3>2 DEF Overwrites
            <4>2. v.author = a
                BY <4>1 DEF Heard, Rows
            <4>3. PICK i \in DOMAIN held : held[i] = v
                BY <4>1 DEF VoicesAgree
            <4> QED BY <1>2, <2>2, <4>2, <4>3 DEF Records
        <3> QED BY <3>1, <3>2
    <2> QED BY <2>1, <2>2
<1>4. VoicesAgree(S, H)
    BY <1>3 DEF VoicesAgree
<1> QED BY <1>4 DEF S, H

-----------------------------------------------------------------------------
(* The invariant.                                                          *)

\* A step of the host that leaves the window alone keeps its promise if what is
\* sent takes a window that agrees with the old snapshot to one that agrees with the new.
LEMMA HostStep ==
    ASSUME WindowInv, UNCHANGED window, NEW events, events \in Seq(WindowEvent), Emit(events),
           snapshot' \in Snapshot, OneRow(snapshot'.voices),
           forgotten' \subseteq {"voices", "peers", "locked"},
           loop' \in [peers : [Peer -> Path \cup {Gone}], session : Nat, sequence : Nat],
           \A w \in Snapshot :
               Agrees(w, snapshot, forgotten) =>
                   \E u \in Snapshot : Reaches(w, events, u) /\ Agrees(u, snapshot', forgotten')
    PROVE  WindowInv'
<1>1. PICK end \in Snapshot : Reaches(window, channel, end) /\ Agrees(end, snapshot, forgotten)
    BY DEF WindowInv
<1>2. PICK u \in Snapshot : Reaches(end, events, u) /\ Agrees(u, snapshot', forgotten')
    BY <1>1
<1>3. channel \in Seq(WindowEvent) /\ channel' = channel \o events
    BY DEF WindowInv, Emit
<1>4. channel' \in Seq(WindowEvent)
    BY <1>3, ConcatProperties
<1>5. Reaches(window, channel', u)
    BY <1>1, <1>2, <1>3, ReachesJoin
<1>6. window' = window /\ window \in Snapshot
    BY DEF WindowInv
<1>7. Reaches(window', channel', u)
    BY <1>5, <1>6
<1> QED BY <1>2, <1>4, <1>6, <1>7 DEF WindowInv

\* apply_room_view.
LEMMA ApplyViewStep ==
    ASSUME WindowAssumption, WindowInv, UNCHANGED <<window, loop>>,
           NEW view \in Layout, NEW locked \in BOOLEAN, ApplyRoomView(view, locked)
    PROVE  WindowInv'
<1> DEFINE events == ViewEvents(view, locked)
<1>1. /\ snapshot \in Snapshot /\ OneRow(snapshot.voices)
      /\ forgotten \subseteq {"voices", "peers", "locked"}
      /\ loop \in [peers : [Peer -> Path \cup {Gone}], session : Nat, sequence : Nat]
    BY DEF WindowInv
<1>2. snapshot' = Snap(snapshot.room, view, locked, snapshot.voices, snapshot.peers)
    <2>1. snapshot' = [[snapshot EXCEPT !.pieces = view] EXCEPT !.locked = locked]
        BY DEF ApplyRoomView
    <2>2. [snapshot EXCEPT !.pieces = view] =
              Snap(snapshot.room, view, snapshot.locked, snapshot.voices, snapshot.peers)
        BY <1>1, SnapExcept
    <2> QED BY <2>1, <2>2 DEF Snap
<1>3. /\ snapshot' \in Snapshot /\ snapshot'.room = snapshot.room /\ snapshot'.pieces = view
      /\ snapshot'.locked = locked /\ snapshot'.voices = snapshot.voices
      /\ snapshot'.peers = snapshot.peers
    BY <1>1, <1>2, SnapshotFields, SnapType DEF Layout
<1>4. /\ Emit(events)
      /\ forgotten' = IF locked = snapshot.locked THEN forgotten ELSE forgotten \ {"locked"}
    BY DEF ApplyRoomView
<1>5. ASSUME NEW w \in Snapshot, Agrees(w, snapshot, forgotten)
      PROVE  /\ events \in Seq(WindowEvent)
             /\ \E u \in Snapshot : Reaches(w, events, u) /\ Agrees(u, snapshot', forgotten')
    <2>1. /\ w.room = snapshot.room /\ w.pieces = snapshot.pieces
          /\ "locked" \in forgotten \/ w.locked = snapshot.locked
          /\ "peers" \in forgotten \/ w.peers = snapshot.peers
          /\ "voices" \in forgotten \/ VoicesAgree(w.voices, snapshot.voices)
        BY <1>5 DEF Agrees
    <2>2. /\ events \in Seq(WindowEvent)
          /\ \E l \in BOOLEAN :
                 /\ l = IF locked = snapshot.locked THEN w.locked ELSE locked
                 /\ Reaches(w, events, Snap(w.room, view, l, w.voices, w.peers))
        BY <1>1, <2>1, ViewReached
    <2>3. PICK l \in BOOLEAN :
                 /\ l = IF locked = snapshot.locked THEN w.locked ELSE locked
                 /\ Reaches(w, events, Snap(w.room, view, l, w.voices, w.peers))
        BY <2>2
    <2> DEFINE u == Snap(w.room, view, l, w.voices, w.peers)
    <2>4. /\ u \in Snapshot /\ u.room = w.room /\ u.pieces = view
          /\ u.locked = l /\ u.voices = w.voices /\ u.peers = w.peers
        BY SnapshotFields, SnapType DEF Layout
    <2> HIDE DEF u
    <2>5. Agrees(u, snapshot', forgotten')
        BY <1>1, <1>3, <1>4, <2>1, <2>3, <2>4 DEF Agrees
    <2> QED BY <2>2, <2>3, <2>4, <2>5 DEF u
<1>6. events \in Seq(WindowEvent)
    BY <1>5 DEF WindowInv
<1> HIDE DEF events
<1> QED BY <1>1, <1>3, <1>4, <1>5, <1>6, HostStep

\* apply_presence: a fresh frame, shown on both sides.
LEMMA ShowStep ==
    ASSUME WindowInv, UNCHANGED <<window, forgotten>>, NEW voice \in Voice, Show(voice),
           loop' \in [peers : [Peer -> Path \cup {Gone}], session : Nat, sequence : Nat]
    PROVE  WindowInv'
<1> DEFINE rows == {i \in Rows(snapshot.voices, voice.author) :
                        snapshot.voices[i].session = voice.session}
           V == Put(snapshot.voices, voice, rows)
<1>1. /\ snapshot \in Snapshot /\ OneRow(snapshot.voices)
      /\ forgotten \subseteq {"voices", "peers", "locked"}
      /\ channel \in Seq(WindowEvent)
    BY DEF WindowInv
<1>2. CASE UNCHANGED <<snapshot, channel>>
    BY <1>2 DEF WindowInv
<1>3. CASE snapshot' = [snapshot EXCEPT !.voices = Put(@, voice, rows)]
           /\ Emit(<<[type |-> "voice", voice |-> voice]>>)
    <2>1. Records(snapshot.voices, V, voice)
        BY <1>1, SnapshotFields, HostPut
    <2>2. snapshot' = Snap(snapshot.room, snapshot.pieces, snapshot.locked, V, snapshot.peers)
        <3>1. snapshot' = [snapshot EXCEPT !.voices = V]
            BY <1>1, <1>3 DEF Snapshot
        <3> QED BY <1>1, <3>1, SnapExcept
    <2> HIDE DEF V, rows
    <2>3. /\ snapshot' \in Snapshot /\ snapshot'.room = snapshot.room
          /\ snapshot'.pieces = snapshot.pieces /\ snapshot'.locked = snapshot.locked
          /\ snapshot'.voices = V /\ snapshot'.peers = snapshot.peers
        BY <1>1, <2>1, <2>2, SnapOf DEF Records
    <2>4. Emit(<<VoiceChanged(voice)>>) /\ VoiceChanged(voice) \in WindowEvent
        BY <1>3, EventTypes DEF VoiceChanged
    <2>5. ASSUME NEW w \in Snapshot, Agrees(w, snapshot, forgotten)
          PROVE  \E u \in Snapshot : Reaches(w, <<VoiceChanged(voice)>>, u)
                                     /\ Agrees(u, snapshot', forgotten')
        <3> DEFINE P == Put(w.voices, voice, Rows(w.voices, voice.author))
                   u == Snap(w.room, w.pieces, w.locked, P, w.peers)
        <3>1. Overwrites(w.voices, P, voice)
            BY SnapshotFields, WindowPut
        <3>2. "voices" \in forgotten \/ VoicesAgree(P, V)
            <4>1. "voices" \in forgotten \/ VoicesAgree(w.voices, snapshot.voices)
                BY <2>5 DEF Agrees
            <4>2. w.voices \in Seq(Voice) /\ snapshot.voices \in Seq(Voice)
                BY <1>1, SnapshotFields
            <4> QED BY <1>1, <4>1, <4>2, VoicesAgreePut, SMTT(60) DEF V, rows
        <3>3. Delta(w, VoiceChanged(voice)) = u
            BY DeltaVoice
        <3> HIDE DEF P
        <3>4. /\ u \in Snapshot /\ u.room = w.room /\ u.pieces = w.pieces
              /\ u.locked = w.locked /\ u.voices = P /\ u.peers = w.peers
            BY <3>1, SnapOf DEF Overwrites
        <3> HIDE DEF u
        <3>5. Reaches(w, <<VoiceChanged(voice)>>, u)
            BY <3>3, <3>4, ReachesOne
        <3>6. Agrees(u, snapshot', forgotten')
            BY <2>3, <2>5, <3>2, <3>4 DEF Agrees
        <3> QED BY <3>4, <3>5, <3>6
    <2>6. <<VoiceChanged(voice)>> \in Seq(WindowEvent)
        BY <2>4
    <2>7. OneRow(snapshot'.voices) /\ forgotten' \subseteq {"voices", "peers", "locked"}
        BY <1>1, <2>1, <2>3 DEF Records
    <2> QED BY <2>3, <2>4, <2>5, <2>6, <2>7, HostStep
<1>4. UNCHANGED <<snapshot, channel>>
      \/ /\ snapshot' = [snapshot EXCEPT !.voices = Put(@, voice, rows)]
         /\ Emit(<<[type |-> "voice", voice |-> voice]>>)
    BY DEF Show
<1> QED BY <1>2, <1>3, <1>4

\* update_peer, and an expired peer.
LEMMA PeerStep ==
    ASSUME WindowInv, UNCHANGED <<window, forgotten>>, NEW q \in Peer, NEW path \in Path \cup {Gone},
           snapshot' = [snapshot EXCEPT !.peers[q] = path], Emit(<<PeerChanged(q, path)>>),
           loop' \in [peers : [Peer -> Path \cup {Gone}], session : Nat, sequence : Nat]
    PROVE  WindowInv'
<1> DEFINE Q == [snapshot.peers EXCEPT ![q] = path]
<1>1. /\ snapshot \in Snapshot /\ OneRow(snapshot.voices)
      /\ forgotten \subseteq {"voices", "peers", "locked"}
    BY DEF WindowInv
<1>2. Q \in [Peer -> Path \cup {Gone}]
    BY <1>1, SnapshotFields
<1>3. snapshot' = Snap(snapshot.room, snapshot.pieces, snapshot.locked, snapshot.voices, Q)
    <2>1. snapshot' = [snapshot EXCEPT !.peers = Q]
        BY <1>1 DEF Snapshot
    <2> HIDE DEF Q
    <2> QED BY <1>1, <2>1, SnapExcept
<1> HIDE DEF Q
<1>4. /\ snapshot' \in Snapshot /\ snapshot'.room = snapshot.room
      /\ snapshot'.pieces = snapshot.pieces /\ snapshot'.locked = snapshot.locked
      /\ snapshot'.voices = snapshot.voices /\ snapshot'.peers = Q
    <2> DEFINE N == Snap(snapshot.room, snapshot.pieces, snapshot.locked, snapshot.voices, Q)
    <2>1. /\ N \in Snapshot /\ N.room = snapshot.room /\ N.pieces = snapshot.pieces
          /\ N.locked = snapshot.locked /\ N.voices = snapshot.voices /\ N.peers = Q
        BY <1>1, <1>2, SnapOf
    <2> HIDE DEF N
    <2>2. snapshot' = N
        BY <1>3 DEF N
    <2> QED BY <2>1, <2>2, Zenon
<1>5. ASSUME NEW w \in Snapshot, Agrees(w, snapshot, forgotten)
      PROVE  \E u \in Snapshot : Reaches(w, <<PeerChanged(q, path)>>, u)
                                 /\ Agrees(u, snapshot', forgotten')
    <2> DEFINE R == [w.peers EXCEPT ![q] = path]
               u == Snap(w.room, w.pieces, w.locked, w.voices, R)
    <2>1. R \in [Peer -> Path \cup {Gone}]
        BY SnapshotFields
    <2>2. "peers" \in forgotten \/ R = Q
        BY <1>5 DEF Agrees, Q
    <2>3. Delta(w, PeerChanged(q, path)) = u
        BY DeltaPeer
    <2> HIDE DEF R
    <2>4. /\ u \in Snapshot /\ u.room = w.room /\ u.pieces = w.pieces
          /\ u.locked = w.locked /\ u.voices = w.voices /\ u.peers = R
        BY <2>1, SnapOf
    <2> HIDE DEF u
    <2>5. Reaches(w, <<PeerChanged(q, path)>>, u)
        BY <2>3, <2>4, ReachesOne
    <2>6. Agrees(u, snapshot', forgotten')
        BY <1>4, <1>5, <2>2, <2>4 DEF Agrees
    <2> QED BY <2>4, <2>5, <2>6
<1>6. <<PeerChanged(q, path)>> \in Seq(WindowEvent)
    BY EventTypes
<1>7. OneRow(snapshot'.voices) /\ forgotten' \subseteq {"voices", "peers", "locked"}
    BY <1>1, <1>4
<1> QED BY <1>4, <1>5, <1>6, <1>7, HostStep

\* The room task's own table.
LEMMA LoopTypes ==
    ASSUME loop \in [peers : [Peer -> Path \cup {Gone}], session : Nat, sequence : Nat]
    PROVE  /\ FreshLoop \in [peers : [Peer -> Path \cup {Gone}], session : Nat, sequence : Nat]
           /\ \A q \in Peer, path \in Path \cup {Gone} :
                  [loop EXCEPT !.peers[q] = path]
                      \in [peers : [Peer -> Path \cup {Gone}], session : Nat, sequence : Nat]
           /\ \A session \in Nat :
                  /\ Number(session)
                         \in [peers : [Peer -> Path \cup {Gone}], session : Nat, sequence : Nat]
                  /\ Number(session).sequence \in Nat
<1>1. FreshLoop \in [peers : [Peer -> Path \cup {Gone}], session : Nat, sequence : Nat]
    BY DEF FreshLoop
<1>2. ASSUME NEW q \in Peer, NEW path \in Path \cup {Gone}
      PROVE  [loop EXCEPT !.peers[q] = path]
                 \in [peers : [Peer -> Path \cup {Gone}], session : Nat, sequence : Nat]
    OBVIOUS
<1>3. ASSUME NEW session \in Nat
      PROVE  /\ Number(session)
                    \in [peers : [Peer -> Path \cup {Gone}], session : Nat, sequence : Nat]
             /\ Number(session).sequence \in Nat
    <2>1. loop.sequence + 1 \in Nat /\ 0 \in Nat
        OBVIOUS
    <2> QED BY <2>1 DEF Number
<1> QED BY <1>1, <1>2, <1>3

\* A peer that is discovered keeps the invariant.
LEMMA DiscoverStep ==
    ASSUME WindowInv, UNCHANGED window, NEW q \in Peer, Discover(q)
    PROVE  WindowInv'
<1>1. "connecting" \in Path \cup {Gone}
    BY DEF Path
<1>2. loop' \in [peers : [Peer -> Path \cup {Gone}], session : Nat, sequence : Nat]
    <2>1. loop' = [loop EXCEPT !.peers[q] = IF loop.peers[q] = Gone THEN "connecting"
                                            ELSE loop.peers[q]]
        BY DEF Discover, WindowInv
    <2>2. (IF loop.peers[q] = Gone THEN "connecting" ELSE loop.peers[q]) \in Path \cup {Gone}
        BY <1>1 DEF WindowInv
    <2> QED BY <2>1, <2>2, LoopTypes DEF WindowInv
<1>3. /\ snapshot' = [snapshot EXCEPT !.peers[q] = "connecting"]
      /\ Emit(<<PeerChanged(q, "connecting")>>) /\ UNCHANGED forgotten
    BY DEF Discover, UpdatePeer, PeerChanged
<1> QED BY <1>1, <1>2, <1>3, PeerStep

\* So does a path that changes and is sent on,
LEMMA PathStep ==
    ASSUME WindowInv, UNCHANGED window, NEW q \in Peer, NEW path \in Path \cup {Gone},
           loop' = [loop EXCEPT !.peers[q] = path], UpdatePeer(q, path)
    PROVE  WindowInv'
<1>1. loop' \in [peers : [Peer -> Path \cup {Gone}], session : Nat, sequence : Nat]
    BY LoopTypes DEF WindowInv
<1>2. /\ snapshot' = [snapshot EXCEPT !.peers[q] = path]
      /\ Emit(<<PeerChanged(q, path)>>) /\ UNCHANGED forgotten
    BY DEF UpdatePeer, PeerChanged
<1> QED BY <1>1, <1>2, PeerStep

\* launch_room: the peers of the ticket, then the room.
LEMMA BrowserEnterStep ==
    ASSUME WindowAssumption, WindowInv, NEW room \in RoomName, NEW bootstrap \in SUBSET Peer,
           BrowserEnter(room, bootstrap)
    PROVE  WindowInv'
<1>1. /\ snapshot \in Snapshot /\ OneRow(snapshot.voices)
      /\ forgotten \subseteq {"voices", "peers", "locked"}
      /\ loop \in [peers : [Peer -> Path \cup {Gone}], session : Nat, sequence : Nat]
    BY DEF WindowInv
<1>2. PICK order \in {s \in [1 .. Cardinality(bootstrap) -> bootstrap] :
                          {s[i] : i \in 1 .. Cardinality(bootstrap)} = bootstrap} :
          Emit([i \in DOMAIN order |->
                   [type |-> "peer", peer |-> order[i], path |-> "connecting"]]
               \o <<RoomChanged(room)>>)
    BY DEF BrowserEnter
<1> DEFINE n == Cardinality(bootstrap)
           found == Bootstrap(order)
           events == found \o <<RoomChanged(room)>>
<1>3. n \in Nat
    BY FS_Subset, FS_CardinalityType DEF WindowAssumption
<1>4. <<RoomChanged(room)>> \in Seq(WindowEvent)
    BY EventTypes
<1>5. UNCHANGED window /\ Emit(events)
    BY <1>2 DEF BrowserEnter, Changes, Bootstrap
<1>6. snapshot' = Snap(room, snapshot.pieces, snapshot.locked, <<>>, Empty.peers)
    BY <1>1 DEF BrowserEnter, Snap, Snapshot
<1>7. /\ snapshot' \in Snapshot /\ snapshot'.room = room /\ snapshot'.pieces = snapshot.pieces
      /\ snapshot'.locked = snapshot.locked /\ snapshot'.voices = <<>>
      /\ snapshot'.peers = Empty.peers
    BY <1>1, <1>6, SnapshotFields, SnapEntered
<1>8. forgotten' = forgotten \cup Dropped({"voices", "peers"})
                       \cup (IF bootstrap = {} THEN {} ELSE {"peers"})
    BY DEF BrowserEnter
<1>9. /\ "voices" \in forgotten' \/ ("voices" \notin forgotten /\ snapshot.voices = <<>>)
      /\ "peers" \in forgotten'
             \/ ("peers" \notin forgotten /\ snapshot.peers = Empty.peers /\ bootstrap = {})
      /\ "locked" \in forgotten => "locked" \in forgotten'
      /\ forgotten' \subseteq {"voices", "peers", "locked"}
    BY <1>1, <1>8 DEF Dropped
<1>10. loop' \in [peers : [Peer -> Path \cup {Gone}], session : Nat, sequence : Nat]
    <2>1. loop' = [FreshLoop EXCEPT
                      !.peers = [q \in Peer |-> IF q \in bootstrap THEN "connecting" ELSE Gone]]
        BY DEF BrowserEnter
    <2>2. [q \in Peer |-> IF q \in bootstrap THEN "connecting" ELSE Gone]
              \in [Peer -> Path \cup {Gone}]
        BY DEF Path
    <2> QED BY <2>1, <2>2 DEF FreshLoop
<1>11. ASSUME NEW w \in Snapshot, Agrees(w, snapshot, forgotten)
       PROVE  /\ events \in Seq(WindowEvent)
              /\ \E u \in Snapshot : Reaches(w, events, u) /\ Agrees(u, snapshot', forgotten')
    <2> DEFINE Q == Connecting(w.peers, bootstrap)
               v == Snap(w.room, w.pieces, w.locked, w.voices, Q)
               u == Snap(room, w.pieces, w.locked, w.voices, Q)
    <2>1. order \in [1 .. n -> bootstrap] /\ {order[i] : i \in 1 .. n} = bootstrap
        OBVIOUS
    <2>2. found \in Seq(WindowEvent) /\ Reaches(w, found, v)
        BY <1>3, <2>1, PeersReached
    <2>3. Q \in [Peer -> Path \cup {Gone}]
        BY SnapshotFields DEF Path, Connecting
    <2>4. bootstrap = {} => Q = w.peers
        BY SnapshotFields DEF Connecting
    <2> HIDE DEF Q, found
    <2>5. /\ v \in Snapshot /\ v.room = w.room /\ v.pieces = w.pieces /\ v.locked = w.locked
          /\ v.voices = w.voices /\ v.peers = Q
        BY <2>3, SnapOf
    <2>6. /\ u \in Snapshot /\ u.room = room /\ u.pieces = w.pieces /\ u.locked = w.locked
          /\ u.voices = w.voices /\ u.peers = Q
        BY <2>3, SnapshotFields, SnapType
    <2> HIDE DEF v
    <2>7. Delta(v, RoomChanged(room)) = u
        BY <2>5, DeltaEnter DEF WindowAssumption
    <2> HIDE DEF u
    <2>8. Reaches(v, <<RoomChanged(room)>>, u)
        BY <2>5, <2>6, <2>7, ReachesOne
    <2>9. events \in Seq(WindowEvent) /\ Reaches(w, events, u)
        BY <1>4, <2>2, <2>8, ReachesJoin, ConcatProperties
    <2>10. /\ w.pieces = snapshot.pieces
           /\ "locked" \in forgotten \/ w.locked = snapshot.locked
           /\ "peers" \in forgotten \/ w.peers = snapshot.peers
           /\ "voices" \in forgotten \/ VoicesAgree(w.voices, snapshot.voices)
        BY <1>11 DEF Agrees
    <2>11. Agrees(u, snapshot', forgotten')
        BY <1>7, <1>9, <2>4, <2>6, <2>10 DEF Agrees
    <2> QED BY <2>6, <2>9, <2>11
<1>12. events \in Seq(WindowEvent)
    BY <1>11 DEF WindowInv
<1>13. OneRow(snapshot'.voices)
    BY <1>7 DEF OneRow
<1> HIDE DEF events
<1> QED BY <1>5, <1>7, <1>9, <1>10, <1>11, <1>12, <1>13, HostStep

\* start_room_v5: the room, then the recovered view.
LEMMA DesktopEnterStep ==
    ASSUME WindowAssumption, WindowInv, NEW room \in RoomName, NEW view \in Layout,
           NEW locked \in BOOLEAN, DesktopEnter(room, view, locked)
    PROVE  WindowInv'
<1> DEFINE later == ViewEvents(view, locked)
           events == <<RoomChanged(room)>> \o later
<1>1. /\ snapshot \in Snapshot /\ OneRow(snapshot.voices)
      /\ forgotten \subseteq {"voices", "peers", "locked"}
      /\ loop \in [peers : [Peer -> Path \cup {Gone}], session : Nat, sequence : Nat]
    BY DEF WindowInv
<1>2. UNCHANGED window /\ Emit(events) /\ loop' = FreshLoop
    BY DEF DesktopEnter, Changes
<1>3. <<RoomChanged(room)>> \in Seq(WindowEvent)
    BY EventTypes
<1>4. snapshot' = Snap(room, view, locked, <<>>, Empty.peers)
    BY <1>1 DEF DesktopEnter, Snap, Snapshot
<1>5. /\ snapshot' \in Snapshot /\ snapshot'.room = room /\ snapshot'.pieces = view
      /\ snapshot'.locked = locked /\ snapshot'.voices = <<>> /\ snapshot'.peers = Empty.peers
    BY <1>4, SnapEntered DEF Layout
<1>6. forgotten' = (forgotten \cup Dropped({"voices", "peers"}))
                       \ (IF locked = snapshot.locked THEN {} ELSE {"locked"})
    BY DEF DesktopEnter
<1>7. /\ "voices" \in forgotten' \/ ("voices" \notin forgotten /\ snapshot.voices = <<>>)
      /\ "peers" \in forgotten' \/ ("peers" \notin forgotten /\ snapshot.peers = Empty.peers)
      /\ "locked" \in forgotten /\ locked = snapshot.locked => "locked" \in forgotten'
      /\ forgotten' \subseteq {"voices", "peers", "locked"}
    BY <1>1, <1>6 DEF Dropped
<1>8. loop' \in [peers : [Peer -> Path \cup {Gone}], session : Nat, sequence : Nat]
    BY <1>1, <1>2, LoopTypes
<1>9. ASSUME NEW w \in Snapshot, Agrees(w, snapshot, forgotten)
      PROVE  /\ events \in Seq(WindowEvent)
             /\ \E u \in Snapshot : Reaches(w, events, u) /\ Agrees(u, snapshot', forgotten')
    <2>1. /\ w.pieces = snapshot.pieces
          /\ "locked" \in forgotten \/ w.locked = snapshot.locked
          /\ "peers" \in forgotten \/ w.peers = snapshot.peers
          /\ "voices" \in forgotten \/ VoicesAgree(w.voices, snapshot.voices)
        BY <1>9 DEF Agrees
    <2> DEFINE v == Snap(room, w.pieces, w.locked, w.voices, w.peers)
    <2>2. /\ v \in Snapshot /\ v.room = room /\ v.pieces = w.pieces /\ v.locked = w.locked
          /\ v.voices = w.voices /\ v.peers = w.peers
        BY SnapshotFields, SnapType
    <2>3. Delta(w, RoomChanged(room)) = v
        BY DeltaEnter DEF WindowAssumption
    <2> HIDE DEF v
    <2>4. Reaches(w, <<RoomChanged(room)>>, v)
        BY <2>2, <2>3, ReachesOne
    <2>5. /\ later \in Seq(WindowEvent)
          /\ \E l \in BOOLEAN :
                 /\ l = IF locked = snapshot.locked THEN v.locked ELSE locked
                 /\ Reaches(v, later, Snap(v.room, view, l, v.voices, v.peers))
        BY <1>1, <2>1, <2>2, ViewReached
    <2>6. PICK l \in BOOLEAN :
                 /\ l = IF locked = snapshot.locked THEN v.locked ELSE locked
                 /\ Reaches(v, later, Snap(v.room, view, l, v.voices, v.peers))
        BY <2>5
    <2> DEFINE u == Snap(v.room, view, l, v.voices, v.peers)
    <2> HIDE DEF later
    <2>7. /\ u \in Snapshot /\ u.room = v.room /\ u.pieces = view
          /\ u.locked = l /\ u.voices = v.voices /\ u.peers = v.peers
        BY <2>2, SnapshotFields, SnapType DEF Layout
    <2>8. Reaches(v, later, u)
        BY <2>6
    <2> HIDE DEF u
    <2>9. events \in Seq(WindowEvent) /\ Reaches(w, events, u)
        BY <1>3, <2>4, <2>5, <2>8, ReachesJoin, ConcatProperties
    <2>10. Agrees(u, snapshot', forgotten')
        BY <1>5, <1>7, <2>1, <2>2, <2>6, <2>7 DEF Agrees
    <2> QED BY <2>7, <2>9, <2>10
<1>10. events \in Seq(WindowEvent)
    BY <1>9 DEF WindowInv
<1>11. OneRow(snapshot'.voices)
    BY <1>5 DEF OneRow
<1> HIDE DEF events
<1> QED BY <1>2, <1>5, <1>7, <1>8, <1>9, <1>10, <1>11, HostStep

\* Leaving: the window empties all but the lock.
LEMMA LeaveStep ==
    ASSUME WindowInv, UNCHANGED window, NEW locked \in BOOLEAN,
           snapshot' = Snap(NoName, Empty.pieces, locked, <<>>, Empty.peers),
           loop' = FreshLoop, Emit(<<RoomChanged(NoName)>>),
           forgotten' \subseteq {"voices", "peers", "locked"},
           "locked" \in forgotten' \/ ("locked" \notin forgotten /\ locked = snapshot.locked)
    PROVE  WindowInv'
<1>1. loop' \in [peers : [Peer -> Path \cup {Gone}], session : Nat, sequence : Nat]
    BY LoopTypes DEF WindowInv
<1>2. Empty.pieces \in [Piece -> Spot \cup {Gone}] /\ NoName \in RoomName \cup {NoName}
    BY EmptyFacts
<1>3. \A l \in BOOLEAN :
          LET u == Snap(NoName, Empty.pieces, l, <<>>, Empty.peers)
          IN  /\ u \in Snapshot /\ u.room = NoName /\ u.pieces = Empty.pieces /\ u.locked = l
              /\ u.voices = <<>> /\ u.peers = Empty.peers
    BY <1>2, SnapEntered
<1>4. /\ snapshot' \in Snapshot /\ snapshot'.room = NoName /\ snapshot'.pieces = Empty.pieces
      /\ snapshot'.locked = locked /\ snapshot'.voices = <<>> /\ snapshot'.peers = Empty.peers
    BY <1>3, Zenon
<1>5. <<RoomChanged(NoName)>> \in Seq(WindowEvent)
    BY EventTypes
<1>6. ASSUME NEW w \in Snapshot, Agrees(w, snapshot, forgotten)
      PROVE  \E u \in Snapshot : Reaches(w, <<RoomChanged(NoName)>>, u)
                                 /\ Agrees(u, snapshot', forgotten')
    <2> DEFINE u == Snap(NoName, Empty.pieces, w.locked, <<>>, Empty.peers)
    <2>1. w.locked \in BOOLEAN
        BY SnapshotFields
    <2>2. /\ u \in Snapshot /\ u.room = NoName /\ u.pieces = Empty.pieces /\ u.locked = w.locked
          /\ u.voices = <<>> /\ u.peers = Empty.peers
        BY <1>3, <2>1, Zenon
    <2>3. Delta(w, RoomChanged(NoName)) = u
        BY DeltaLeave
    <2> HIDE DEF u
    <2>4. Reaches(w, <<RoomChanged(NoName)>>, u)
        BY <2>2, <2>3, ReachesOne
    <2>5. VoicesAgree(u.voices, snapshot'.voices)
        BY <1>4, <2>2, VoicesAgreeRefl
    <2>6. Agrees(u, snapshot', forgotten')
        BY <1>4, <1>6, <2>2, <2>5 DEF Agrees
    <2> QED BY <2>2, <2>4, <2>6
<1>7. OneRow(snapshot'.voices)
    BY <1>4 DEF OneRow
<1> QED BY <1>1, <1>4, <1>5, <1>6, <1>7, HostStep

\* a window that registers,
LEMMA RegisterStep ==
    ASSUME WindowInv, Register
    PROVE  WindowInv'
<1> DEFINE event == [type |-> "snapshot", snapshot |-> snapshot]
<1>1. /\ snapshot \in Snapshot /\ OneRow(snapshot.voices)
      /\ loop \in [peers : [Peer -> Path \cup {Gone}], session : Nat, sequence : Nat]
    BY DEF WindowInv
<1>2. /\ channel' = <<event>> /\ window' = Empty /\ forgotten' = {}
      /\ snapshot' = snapshot /\ loop' = loop
    BY DEF Register
<1>3. event \in WindowEvent /\ Delta(Empty, event) = snapshot
    BY <1>1, EventTypes, DeltaSnapshot
<1> HIDE DEF event
<1>4. <<event>> \in Seq(WindowEvent) /\ Reaches(Empty, <<event>>, snapshot)
    BY <1>1, <1>3, EmptyFacts, ReachesOne
<1>5. Agrees(snapshot, snapshot, {})
    BY VoicesAgreeRefl DEF Agrees
<1> QED BY <1>1, <1>2, <1>4, <1>5, EmptyFacts DEF WindowInv

\* an event the window applies,
LEMMA ApplyStep ==
    ASSUME WindowInv, ApplyNativeEvent
    PROVE  WindowInv'
<1>1. PICK end \in Snapshot : Reaches(window, channel, end) /\ Agrees(end, snapshot, forgotten)
    BY DEF WindowInv
<1>2. /\ channel # <<>> /\ window' = Delta(window, Head(channel)) /\ channel' = Tail(channel)
      /\ UNCHANGED <<snapshot, loop, forgotten>>
    BY DEF ApplyNativeEvent
<1>3. channel \in Seq(WindowEvent)
    BY DEF WindowInv
<1>4. Reaches(window', channel', end) /\ window' \in Snapshot
    BY <1>1, <1>2, <1>3, ReachesTail
<1>5. channel' \in Seq(WindowEvent)
    BY <1>2, <1>3, HeadTailProperties
<1> QED BY <1>1, <1>2, <1>4, <1>5 DEF WindowInv

\* The desktop forgets the lock, the browser keeps it.
LEMMA LeavingSteps ==
    ASSUME WindowInv, BrowserLeave \/ DesktopLeave
    PROVE  WindowInv'
<1>0. snapshot \in Snapshot /\ forgotten \subseteq {"voices", "peers", "locked"}
    BY DEF WindowInv
<1>1. CASE BrowserLeave
    <2>1. snapshot' = [Empty EXCEPT !.locked = snapshot.locked]
        BY <1>1 DEF BrowserLeave
    <2>2. \A x : [Empty EXCEPT !.locked = x] =
                     Snap(Empty.room, Empty.pieces, x, Empty.voices, Empty.peers)
        BY EmptyFacts, SnapExcept
    <2>3. snapshot' = Snap(NoName, Empty.pieces, snapshot.locked, <<>>, Empty.peers)
        BY <2>1, <2>2, EmptyFacts, Zenon
    <2>4. snapshot.locked \in BOOLEAN
        BY <1>0, SnapshotFields
    <2>5. /\ UNCHANGED window /\ loop' = FreshLoop /\ Emit(<<RoomChanged(NoName)>>)
          /\ forgotten' = forgotten \ {"voices", "peers"}
        BY <1>1 DEF BrowserLeave, Changes
    <2>6. /\ forgotten' \subseteq {"voices", "peers", "locked"}
          /\ "locked" \in forgotten' \/ "locked" \notin forgotten
        BY <1>0, <2>5
    <2> QED BY <2>3, <2>4, <2>5, <2>6, LeaveStep
<1>2. CASE DesktopLeave
    <2>1. snapshot' = Empty
        BY <1>2 DEF DesktopLeave
    <2>2. Empty = Snap(NoName, Empty.pieces, FALSE, <<>>, Empty.peers)
        BY DEF Empty, Snap
    <2>3. /\ UNCHANGED window /\ loop' = FreshLoop /\ Emit(<<RoomChanged(NoName)>>)
          /\ forgotten' = (forgotten \ {"voices", "peers"}) \cup Dropped({"locked"})
        BY <1>2 DEF DesktopLeave, Changes
    <2>4. Dropped({"locked"}) = IF snapshot.locked THEN {"locked"} ELSE {}
        BY DEF Dropped
    <2>5. snapshot.locked \in BOOLEAN
        BY <1>0, SnapshotFields
    <2>6. /\ forgotten' \subseteq {"voices", "peers", "locked"}
          /\ "locked" \in forgotten' \/ ("locked" \notin forgotten /\ FALSE = snapshot.locked)
        BY <1>0, <2>3, <2>4, <2>5
    <2> QED BY <2>1, <2>2, <2>3, <2>6, LeaveStep
<1> QED BY <1>1, <1>2

\* the member's own voice,
LEMMA VoiceSteps ==
    ASSUME WindowAssumption, WindowInv, NEW session \in 1 .. MaxSession, NEW signed \in BOOLEAN,
           SetVoicePreview(session, signed)
    PROVE  WindowInv'
<1>0. UNCHANGED <<window, forgotten>> /\ loop' = Number(session)
    BY DEF SetVoicePreview, Changes
<1>1. session \in Nat /\ loop \in [peers : [Peer -> Path \cup {Gone}], session : Nat, sequence : Nat]
    BY DEF WindowInv
<1>2. /\ loop' \in [peers : [Peer -> Path \cup {Gone}], session : Nat, sequence : Nat]
      /\ loop'.sequence \in Nat
    BY <1>0, <1>1, LoopTypes
<1>3. CASE signed
    <2> DEFINE voice == [author |-> Self, session |-> session, sequence |-> loop'.sequence]
    <2>1. Show(voice)
        BY <1>3 DEF SetVoicePreview
    <2>2. loop'.sequence =< MaxFrame
        BY <1>0 DEF SetVoicePreview
    <2>3. loop'.sequence \in 0 .. MaxFrame
        BY <1>2, <2>2 DEF WindowAssumption
    <2>4. voice \in Voice
        <3>1. [session |-> session, sequence |-> loop'.sequence] \in VoiceFrame
            BY <2>3 DEF VoiceFrame
        <3> QED BY <3>1 DEF Voice
    <2> HIDE DEF voice
    <2> QED BY <1>0, <1>2, <2>1, <2>4, ShowStep
<1>4. CASE ~signed
    <2>1. UNCHANGED <<snapshot, channel>>
        BY <1>4 DEF SetVoicePreview
    <2> QED BY <1>0, <1>2, <2>1 DEF WindowInv
<1> QED BY <1>3, <1>4

\* a peer's voice,
LEMMA PresenceStep ==
    ASSUME WindowInv, NEW q \in Peer, NEW frame \in VoiceFrame, ReceivePresence(q, frame)
    PROVE  WindowInv'
<1> DEFINE voice == [author |-> q, session |-> frame.session, sequence |-> frame.sequence]
<1>1. UNCHANGED <<window, loop, forgotten>> /\ Show(voice)
    BY DEF ReceivePresence, Changes
<1>2. voice \in Voice
    BY DEF Voice
<1> HIDE DEF voice
<1>3. loop' \in [peers : [Peer -> Path \cup {Gone}], session : Nat, sequence : Nat]
    BY <1>1 DEF WindowInv
<1> QED BY <1>1, <1>2, <1>3, ShowStep

\* and whatever is heard of a peer.
LEMMA PeerSteps ==
    ASSUME WindowInv, NEW q \in Peer,
           \/ Discover(q) \/ NeighborDown(q) \/ MdnsExpired(q)
           \/ \E path \in Path : NeighborUp(q, path) \/ PathRefresh(q, path)
    PROVE  WindowInv'
<1>1. CASE Discover(q)
    <2>1. UNCHANGED window
        BY <1>1 DEF Discover, Changes
    <2> QED BY <1>1, <2>1, DiscoverStep
<1>2. CASE NeighborDown(q)
    <2>1. /\ UNCHANGED window /\ loop' = [loop EXCEPT !.peers[q] = "disconnected"]
          /\ UpdatePeer(q, "disconnected")
        BY <1>2 DEF NeighborDown, Changes
    <2>2. "disconnected" \in Path \cup {Gone}
        BY DEF Path
    <2> QED BY <2>1, <2>2, PathStep
<1>3. CASE MdnsExpired(q)
    <2>1. /\ UNCHANGED window /\ loop' = [loop EXCEPT !.peers[q] = Gone]
          /\ UpdatePeer(q, Gone)
        BY <1>3 DEF MdnsExpired, Changes, UpdatePeer
    <2> QED BY <2>1, PathStep
<1>4. ASSUME NEW path \in Path, NeighborUp(q, path) \/ PathRefresh(q, path) PROVE WindowInv'
    <2>1. /\ UNCHANGED window /\ loop' = [loop EXCEPT !.peers[q] = path]
          /\ UpdatePeer(q, path)
        BY <1>4 DEF NeighborUp, PathRefresh, Changes
    <2> QED BY <2>1, PathStep
<1> QED BY <1>1, <1>2, <1>3, <1>4

\* Host and window start in the invariant.
LEMMA WindowInvInit ==
    ASSUME WindowInit
    PROVE  WindowInv
<1>1. /\ snapshot = Empty /\ loop = FreshLoop /\ window = Empty /\ channel = <<>> /\ forgotten = {}
    BY DEF WindowInit
<1>2. FreshLoop \in [peers : [Peer -> Path \cup {Gone}], session : Nat, sequence : Nat]
    BY DEF FreshLoop
<1>3. OneRow(Empty.voices) /\ Agrees(Empty, Empty, {})
    BY EmptyFacts, VoicesAgreeRefl DEF OneRow, Agrees
<1>4. Reaches(Empty, <<>>, Empty)
    BY EmptyFacts, ReachesNothing
<1>5. channel \in Seq(WindowEvent)
    BY <1>1
<1>6. \E end \in Snapshot : Reaches(window, channel, end) /\ Agrees(end, snapshot, forgotten)
    BY <1>1, <1>3, <1>4, EmptyFacts
<1> QED BY <1>1, <1>2, <1>3, <1>5, <1>6, EmptyFacts DEF WindowInv

\* Every step keeps it.
LEMMA WindowInvKept ==
    ASSUME WindowAssumption, WindowInv, [WindowNext]_windowVars
    PROVE  WindowInv'
<1>1. ASSUME NEW view \in Layout, NEW locked \in BOOLEAN,
             Browse(view, locked) \/ DesktopView(view, locked)
      PROVE  WindowInv'
    <2>1. ApplyRoomView(view, locked) /\ UNCHANGED <<window, loop>>
        BY <1>1 DEF Browse, DesktopView, Changes
    <2> QED BY <2>1, ApplyViewStep
<1>2. ASSUME NEW session \in 1 .. MaxSession, NEW signed \in BOOLEAN,
             BrowserVoice(session, signed) \/ DesktopVoice(session, signed)
      PROVE  WindowInv'
    BY <1>2, VoiceSteps DEF BrowserVoice, DesktopVoice
<1>3. ASSUME NEW q \in Peer,
             \/ \E frame \in VoiceFrame : ReceivePresence(q, frame)
             \/ Discover(q) \/ NeighborDown(q) \/ MdnsExpired(q)
             \/ \E path \in Path : NeighborUp(q, path) \/ PathRefresh(q, path)
      PROVE  WindowInv'
    BY <1>3, PresenceStep, PeerSteps
<1>4. ASSUME NEW room \in RoomName,
             \/ \E bootstrap \in SUBSET Peer : BrowserEnter(room, bootstrap)
             \/ \E view \in Layout, locked \in BOOLEAN : DesktopEnter(room, view, locked)
      PROVE  WindowInv'
    BY <1>4, BrowserEnterStep, DesktopEnterStep
<1>5. CASE BrowserLeave \/ DesktopLeave
    BY <1>5, LeavingSteps
<1>6. CASE Register
    BY <1>6, RegisterStep
<1>7. CASE ApplyNativeEvent
    BY <1>7, ApplyStep
<1>8. CASE UNCHANGED windowVars
    BY <1>8 DEF WindowInv, windowVars
<1> QED BY <1>1, <1>2, <1>3, <1>4, <1>5, <1>6, <1>7, <1>8 DEF WindowNext

\* The invariant: what the window will show, once it has applied the events on their
\* way, agrees with the host's snapshot (emit, apply_native_delta).
THEOREM WindowInvariant == WindowSpec => []WindowInv
<1>1. WindowInit => WindowInv
    BY WindowInvInit
<1>2. WindowInv /\ [WindowNext]_windowVars => WindowInv'
    BY WindowAssumption, WindowInvKept
<1> QED BY <1>1, <1>2, PTL DEF WindowSpec

\* The host's snapshot and the window's have their types, and a host keeps one row
\* for each session of a singer (apply_presence).
THEOREM WindowTypeCorrect == WindowSpec => []WindowTypeOK
<1>1. WindowInv => WindowTypeOK
    BY DEF WindowInv, WindowTypeOK, OneRow
<1> QED BY <1>1, WindowInvariant, PTL

\* A window that has applied every event shows what its host holds, except what the
\* host dropped without an event (AppSnapshot, apply_native_delta).
THEOREM WindowFollowsHost == WindowSpec => []WindowShowsRoom
<1>1. ASSUME WindowInv, channel = <<>> PROVE Agrees(window, snapshot, forgotten)
    <2>1. PICK end \in Snapshot : Reaches(window, channel, end) /\ Agrees(end, snapshot, forgotten)
        BY <1>1 DEF WindowInv
    <2>2. end = window
        BY <1>1, <2>1, ReachesNothing DEF WindowInv
    <2> QED BY <2>1, <2>2
<1>2. WindowInv => WindowShowsRoom
    BY <1>1 DEF Agrees, VoicesAgree, WindowShowsRoom
<1> QED BY <1>2, WindowInvariant, PTL

-----------------------------------------------------------------------------
(***************************************************************************)
(* The instance that TLC checks composes the session, the replicas and the *)
(* window: each of its behaviours is one of every part, so all that is     *)
(* proved of them is true of the specification of the run.                 *)
(***************************************************************************)

\* A step of the instance is a step of one part, the others stutter.
THEOREM RoomIsItsParts == RoomSpec => Spec /\ ReplicaSpec /\ WindowSpec
<1>1. RoomInit => Init /\ ReplicaInit /\ WindowInit
    BY DEF RoomInit
<1>2. [RoomNext]_roomVars => [Next]_vars
    BY DEF RoomNext, roomVars
<1>3. [RoomNext]_roomVars => [ReplicaNext]_replicaVars
    BY DEF RoomNext, roomVars
<1>4. [RoomNext]_roomVars => [WindowNext]_windowVars
    BY DEF RoomNext, roomVars
<1> QED BY <1>1, <1>2, <1>3, <1>4, PTL DEF RoomSpec, Spec, ReplicaSpec, WindowSpec

\* In every behaviour of the instance the session, what the replicas hold and what
\* the window holds have the shape of their structs, and what a replica holds is
\* causally closed.
THEOREM RoomTypesCorrect == RoomSpec => []RoomTypeOK
<1>1. TypeOK /\ ReplicaTypeOK /\ WindowTypeOK => RoomTypeOK
    BY DEF RoomTypeOK
<1> QED BY <1>1, RoomIsItsParts, TypeCorrect, ReplicaTypeCorrect, WindowTypeCorrect, PTL

=============================================================================
