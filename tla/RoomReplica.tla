----------------------------- MODULE RoomReplica -----------------------------
(***************************************************************************)
(* The two lanes of a room are replicas of a causal history: grants,       *)
(* revocations and commands, each presenting the grants it relies on.      *)
(* src/room/v5.rs decides what a replica admits (RoomAdmissionPolicy), what *)
(* it shows of what it has admitted (materialize_extension) and how a      *)
(* command is authored: at once (RoomReplicas, the native hosts) or        *)
(* prepared, made durable and then committed (RoomDurableContext, the      *)
(* browser's worker).                                                      *)
(*                                                                         *)
(* The lane modelled is the extension lane, whose commands the repository  *)
(* defines; the music lane shares every operation and delegates its policy *)
(* and its view to tutti_music_hhhs.  An entry is identified by its place  *)
(* in entries; rank stands for its hash, which only decides between        *)
(* concurrent writes.  Authorisation is hhhs_cap's.                        *)
(***************************************************************************)
EXTENDS Integers, Sequences, FiniteSets

CONSTANTS
    Replica,        \* the members' devices; each has its own signing key
    Worker,         \* those that author through the browser's worker
    Owner,          \* the key open_room_authority derives from the room's name
    Pitch,          \* [tuning, degree] records
    Home,           \* the pitches at which a new piece is put, of each tuning
    MaxEntries      \* bound on the entries and presence frames ever signed

ASSUME ReplicaAssumption ==
    /\ Worker \subseteq Replica /\ Owner \notin Replica /\ Home \subseteq Pitch
    /\ IsFiniteSet(Replica) /\ MaxEntries \in Nat /\ Cardinality(Replica) < MaxEntries

VARIABLES
    entries,        \* every entry authored, in order of authoring
    history,        \* the entries each replica has admitted
    prepared,       \* the entry a worker has prepared and not yet made durable
    frames,         \* presence frames on the air
    voices          \* the frames each replica has accepted

replicaVars == <<entries, history, prepared, frames, voices>>

Root == 1

Id == 1..MaxEntries

Area == {"root", "pieces", "config"}

\* The area a command is proved for.
CommandArea(op) == IF op.kind = "config" THEN "config" ELSE "pieces"

Command ==
    [kind : {"put"}, pitch : Pitch]
        \cup [kind : {"move"}, piece : Id, pitch : Pitch]
        \cup [kind : {"remove"}, piece : Id]
        \cup [kind : {"unremove"}, remove : Id]
        \cup [kind : {"config"}, locked : BOOLEAN]

\* A grant keeps the path of delegations above it, a revocation its target and
\* whether it is a barrier.
Capability ==
    [kind : {"grant"}, to : Replica \cup {Owner}, area : Area, parent : Id \cup {0},
     path : SUBSET Id]
        \cup [kind : {"revoke"}, target : Id, barrier : BOOLEAN]

ReplicaEntry ==
    [op : Command \cup Capability, by : Replica \cup {Owner}, presented : SUBSET Id,
     past : SUBSET Id, rank : Int]

IsCommand(op) == op.kind \notin {"grant", "revoke"}

Op(e) == entries[e].op

Ancestor(e, f) == e \in entries[f].past

-----------------------------------------------------------------------------
(* hhhs_cap: a grant counts at a causal position, given as the entries seen *)
(* there, as long as no revocation of it or of a grant on its path has been *)
(* seen, and every barrier known by now has seen the whole position.       *)

Revocations(g, known) ==
    {x \in known : Op(x).kind = "revoke" /\ Op(x).target \in Op(g).path \cup {g}}

GrantHolds(g, at, known) ==
    \A x \in Revocations(g, known) : x \notin at /\ (Op(x).barrier => at \subseteq entries[x].past)

Covers(wide, narrow) == wide = "root" \/ wide = narrow

\* authorize(): some presented grant to this actor covers the area at a position.
Authorized(actor, area, presented, at, known) ==
    \E g \in presented :
        /\ Op(g).kind = "grant" /\ Op(g).to = actor /\ g \in at
        /\ Covers(Op(g).area, area)
        /\ GrantHolds(g, at, known)

\* The receiver-bound grants that are live at a replica's frontier.
LiveGrants(r, actor) ==
    {g \in history[r] : /\ Op(g).kind = "grant" /\ Op(g).to = actor
                        /\ Revocations(g, history[r]) = {}}

-----------------------------------------------------------------------------
(* RoomAdmissionPolicy: may a replica that knows an entry's past admit it? *)

\* A write that has been overwritten may win (for the mutation check).
MutResolveRegister(writes) ==
    CHOOSE w \in writes : \A v \in writes : entries[v].rank =< entries[w].rank

\* The winner among concurrent writes is the one with the largest hash.
ResolveRegister(writes) ==
    LET latest == {w \in writes : \A v \in writes : ~Ancestor(w, v)}
    IN  CHOOSE w \in latest : \A v \in latest : entries[v].rank =< entries[w].rank

Locks(known) == {e \in known : Op(e).kind = "config"}

\* The lock of the whole replica (for the mutation check).
MutLockAt(known, past) ==
    LET writes == Locks(known) IN writes # {} /\ Op(ResolveRegister(writes)).locked

\* Whether pieces are locked where an entry with this past stands.  Unlike the
\* view, it counts every SetConfig, authorised by now or not.
LockAt(known, past) ==
    LET writes == Locks(past) IN writes # {} /\ Op(ResolveRegister(writes)).locked

TargetIs(target, kind, known) == target \in known /\ Op(target).kind = kind

ValidExtension(op, past, known) ==
    /\ op.kind = "move" => TargetIs(op.piece, "put", known)
    /\ op.kind = "remove" => TargetIs(op.piece, "put", known)
    /\ op.kind = "unremove" => TargetIs(op.remove, "remove", known)
    /\ op.kind \in {"move", "remove", "unremove"} => ~LockAt(known, past)

\* The command names its actor and the grants of its proof.
ValidPresented(e) ==
    /\ e.presented # {}
    /\ Authorized(e.by, CommandArea(e.op), e.presented, e.past, e.past)

ValidCapability(e, known) ==
    CASE e.op.kind = "grant" ->
            /\ e.op.parent \in e.presented
            /\ Authorized(e.by, e.op.area, {e.op.parent}, e.past, e.past)
      [] e.op.kind = "revoke" ->
            /\ TargetIs(e.op.target, "grant", known) /\ e.op.target \in e.past
            /\ e.by \in {entries[e.op.target].by, Op(e.op.target).to}
            /\ Authorized(e.by, Op(e.op.target).area, e.presented, e.past, e.past)

Validate(e, known) ==
    IF IsCommand(e.op) THEN ValidPresented(e) /\ ValidExtension(e.op, e.past, known)
    ELSE ValidCapability(e, known)

-----------------------------------------------------------------------------
(* materialize_extension: what a replica shows.                            *)

\* Authorised at its own position, seen from everything the replica knows now.
CurrentlyAuthorized(e, known) ==
    Authorized(entries[e].by, CommandArea(Op(e)), entries[e].presented,
               entries[e].past \cup {e}, known)

ExtensionCommands(known) ==
    {e \in known : IsCommand(Op(e)) /\ CurrentlyAuthorized(e, known)}

EffectiveRemoves(commands) ==
    {e \in commands : /\ Op(e).kind = "remove"
                      /\ ~\E u \in commands : /\ Op(u).kind = "unremove" /\ Op(u).remove = e
                                              /\ Ancestor(e, u)}

\* Where a piece was put and moved to within its tuning, but for what a removal
\* has seen.
Assertions(put, commands) ==
    {e \in commands :
        /\ \/ e = put
           \/ Op(e).kind = "move" /\ Op(e).piece = put
              /\ Op(e).pitch.tuning = Op(put).pitch.tuning
        /\ \A x \in EffectiveRemoves(commands) : Op(x).piece = put => ~Ancestor(e, x)}

MaterializeExtension(known) ==
    LET commands == ExtensionCommands(known)
        locks == Locks(commands)
        puts == {e \in commands : Op(e).kind = "put" /\ Assertions(e, commands) # {}}
    IN  [pieces |-> [p \in puts |-> Op(ResolveRegister(Assertions(p, commands))).pitch],
         locked |-> locks # {} /\ Op(ResolveRegister(locks)).locked]

\* The pieces of the tuning the music lane has settled on.
RoomView(known, active) ==
    LET view == MaterializeExtension(known)
        shown == {p \in DOMAIN view.pieces : view.pieces[p].tuning = active}
    IN  [view EXCEPT !.pieces = [p \in shown |-> view.pieces[p]]]

-----------------------------------------------------------------------------
\* Every replica builds the same root from the room's identity: the owner's
\* grant to itself, with every right.
TrustedRoot ==
    [op |-> [kind |-> "grant", to |-> Owner, area |-> "root", parent |-> 0, path |-> {}],
     by |-> Owner, presented |-> {}, past |-> {}, rank |-> 0]

\* The room as initialize leaves it, each member granted its place in turn.
Founded(members) ==
    LET n == Cardinality(members)
        order == CHOOSE f \in [2..(n + 1) -> members] : \A i, j \in 2..(n + 1) : f[i] = f[j] => i = j
    IN  [e \in 1..(n + 1) |->
            IF e = Root THEN TrustedRoot
            ELSE [op |-> [kind |-> "grant", to |-> order[e], area |-> "root", parent |-> Root,
                          path |-> {Root}],
                  by |-> Owner, presented |-> {Root}, past |-> 1..(e - 1), rank |-> 0]]

ReplicaInit ==
    /\ entries = Founded(Replica)
    /\ history = [r \in Replica |-> 1..Len(entries)]
    /\ prepared = [r \in Replica |-> {}]
    /\ frames = {}
    /\ voices = [r \in Replica |-> {}]

CanSign == Len(entries) + Cardinality(frames) < MaxEntries

\* An entry signed at a replica's frontier, if the policy takes it there.
Signed(r, op, by, presented) ==
    LET e == [op |-> op, by |-> by, presented |-> presented, past |-> history[r]]
    IN  {x \in {e} : CanSign /\ Validate(x, history[r])}

\* Admission and the durable write are one step.  The hash of a write may turn
\* out larger or smaller than those it has not seen.
Stored(r, e) ==
    \E rank \in IF e.op.kind \in {"move", "config"} /\ e.past # 1..Len(entries)
                THEN {-Len(entries), Len(entries)} ELSE {-Len(entries)} :
        /\ entries' = Append(entries, [op |-> e.op, by |-> e.by, presented |-> e.presented,
                                       past |-> e.past, rank |-> rank])
        /\ history' = [history EXCEPT ![r] = @ \cup {Len(entries) + 1}]

Admitted(r, e) == Stored(r, e) /\ UNCHANGED <<prepared, frames, voices>>

\* A worker keeps what it has staged until the store has written it.
Staged(r, e) ==
    /\ prepared[r] = {}
    /\ prepared' = [prepared EXCEPT ![r] = {e}]
    /\ UNCHANGED <<entries, history, frames, voices>>

\* The grant of the whole lane to a member, under the root.
MemberGrant(member) ==
    [kind |-> "grant", to |-> member, area |-> "root", parent |-> Root, path |-> {Root}]

\* grant_member: a native host grants in one call.
GrantMember(r, member) ==
    /\ r \notin Worker
    /\ \E e \in Signed(r, MemberGrant(member), Owner, {Root}) : Admitted(r, e)

\* prepare_member_grant: a worker stages it.
PrepareMemberGrant(r, member) ==
    /\ r \in Worker
    /\ \E e \in Signed(r, MemberGrant(member), Owner, {Root}) : Staged(r, e)

\* A member passes on one of its grants, attenuated to an area of it.
Delegate(r, to, parent, area) ==
    /\ r \notin Worker
    /\ parent \in LiveGrants(r, r)
    /\ \E e \in Signed(r, [kind |-> "grant", to |-> to, area |-> area, parent |-> parent,
                           path |-> Op(parent).path \cup {parent}], r, {parent}) :
           Admitted(r, e)

\* Revocation by a key that issued the grant or received it.
Revoke(r, key, target, barrier) ==
    /\ r \notin Worker
    /\ target \in history[r] \ {Root} /\ Op(target).kind = "grant"
    /\ \E e \in Signed(r, [kind |-> "revoke", target |-> target, barrier |-> barrier], key,
                       LiveGrants(r, key)) : Admitted(r, e)

\* author_with: a native host's command is admitted in the call.
AuthorWith(r, op) ==
    /\ r \notin Worker
    /\ \E e \in Signed(r, op, r, LiveGrants(r, r)) : Admitted(r, e)

\* prepare_author_presenting: a worker's is validated and staged.
PrepareAuthor(r, op) ==
    /\ r \in Worker
    /\ \E e \in Signed(r, op, r, LiveGrants(r, r)) : Staged(r, e)

\* Whatever was stored since (for the mutation check).
MutCommitPrepared(r) ==
    /\ prepared[r] # {}
    /\ prepared' = [prepared EXCEPT ![r] = {}]
    /\ CanSign
    /\ \E e \in prepared[r] : Stored(r, e)
    /\ UNCHANGED <<frames, voices>>

\* commit_prepared: refused when anything was stored since it was prepared.
CommitPrepared(r) ==
    /\ prepared[r] # {}
    /\ prepared' = [prepared EXCEPT ![r] = {}]
    /\ \E e \in prepared[r] :
           /\ CanSign
           /\ IF e.past = history[r] THEN Stored(r, e) ELSE UNCHANGED <<entries, history>>
    /\ UNCHANGED <<frames, voices>>

\* Before its past is there (for the mutation check).
MutAdmitEntry(r, e) ==
    /\ e \in 1..Len(entries) \ history[r]
    /\ Validate(entries[e], history[r])
    /\ history' = [history EXCEPT ![r] = @ \cup {e}]
    /\ UNCHANGED <<entries, prepared, frames, voices>>

\* An entry reaches a replica, live or by repair, once its past is there.
AdmitEntry(r, e) ==
    /\ e \in 1..Len(entries) \ history[r]
    /\ entries[e].past \subseteq history[r]
    /\ Validate(entries[e], history[r])
    /\ history' = [history EXCEPT ![r] = @ \cup {e}]
    /\ UNCHANGED <<entries, prepared, frames, voices>>

\* from_transaction_logs: what was durable is replayed onto the same root; what
\* was only prepared is gone.
ReopenLog(r) ==
    /\ r \in Worker /\ prepared[r] # {}
    /\ prepared' = [prepared EXCEPT ![r] = {}]
    /\ voices' = [voices EXCEPT ![r] = {}]
    /\ UNCHANGED <<entries, history, frames>>

-----------------------------------------------------------------------------
(* Presence is signed at a causal position and never stored.               *)

Sign(r) ==
    /\ CanSign
    /\ LiveGrants(r, r) # {}
    /\ Authorized(r, "pieces", LiveGrants(r, r), history[r], history[r])
    /\ frames' = frames \cup {[by |-> r, at |-> history[r], presented |-> LiveGrants(r, r)]}
    /\ UNCHANGED <<entries, history, prepared, voices>>

SignPresence(r) == r \notin Worker /\ Sign(r)

WorkerSignPresence(r) == r \in Worker /\ Sign(r)

\* The position must be known, and the grants hold there as seen from here.
Verifies(r, frame) ==
    /\ frame.at \subseteq history[r]
    /\ Authorized(frame.by, "pieces", frame.presented, frame.at, history[r])

Hear(r, frame) ==
    /\ frame \notin voices[r] /\ frame.by # r
    /\ Verifies(r, frame)
    /\ voices' = [voices EXCEPT ![r] = @ \cup {frame}]
    /\ UNCHANGED <<entries, history, prepared, frames>>

VerifyPresence(r, frame) == r \notin Worker /\ Hear(r, frame)

WorkerVerifyPresence(r, frame) == r \in Worker /\ Hear(r, frame)

-----------------------------------------------------------------------------
\* The commands a replica's user can ask for: the lock is a toggle, and a piece
\* is dragged to another place than the one it is seen at.
Edits(r) ==
    LET known(kind) == {e \in history[r] : Op(e).kind = kind}
        view == MaterializeExtension(history[r])
        seen(p, pitch) == p \in DOMAIN view.pieces /\ view.pieces[p] = pitch
    IN  [kind : {"put"}, pitch : Home]
            \cup {m \in [kind : {"move"}, piece : known("put"), pitch : Pitch] :
                      ~seen(m.piece, m.pitch)}
            \cup [kind : {"remove"}, piece : known("put")]
            \cup [kind : {"unremove"}, remove : known("remove")]
            \cup [kind : {"config"}, locked : {~view.locked}]

ReplicaNext ==
    \E r \in Replica :
        \/ \E op \in Edits(r) : AuthorWith(r, op) \/ PrepareAuthor(r, op)
        \/ LiveGrants(r, r) = {} /\ (GrantMember(r, r) \/ PrepareMemberGrant(r, r))
        \/ \E to \in Replica \ {r}, parent \in history[r] :
               Delegate(r, to, parent, "config")
        \/ \E target \in history[r], barrier \in BOOLEAN : Revoke(r, Owner, target, barrier)
        \/ \E e \in 1..Len(entries) : AdmitEntry(r, e)
        \/ CommitPrepared(r) \/ ReopenLog(r)
        \/ SignPresence(r) \/ WorkerSignPresence(r)
        \/ \E frame \in frames : VerifyPresence(r, frame) \/ WorkerVerifyPresence(r, frame)

ReplicaSpec == ReplicaInit /\ [][ReplicaNext]_replicaVars

-----------------------------------------------------------------------------
\* The state has the shape of RoomReplicas and of the worker's prepared command.
ReplicaTypeOK ==
    /\ \A e \in 1..Len(entries) : entries[e] \in ReplicaEntry
    /\ history \in [Replica -> SUBSET (1..Len(entries))]
    /\ \A r \in Replica : \A e \in history[r] : entries[e].past \subseteq history[r]
    /\ \A r \in Replica : Cardinality(prepared[r]) =< 1

\* No replica refuses what another has admitted: the policy judges an entry
\* where its author stood, whatever the replica has learned since (a lock, a
\* revocation, a removal), so that repair leaves everybody with one history.
\* Without a revocation the same goes for a voice.
NothingIsRefused ==
    \A r \in Replica :
        /\ \A e \in 1..Len(entries) \ history[r] :
               entries[e].past \subseteq history[r] => Validate(entries[e], history[r])
        /\ \A frame \in frames :
               /\ frame.at \subseteq history[r]
               /\ \A x \in history[r] : Op(x).kind # "revoke"
               => Verifies(r, frame)

\* What a replica that has admitted the newest entry shows of it while the room
\* is in some tuning.  A move of a piece whose author a barrier has cut off
\* shows nothing, nor does one to another tuning than the piece's.
NewestShows(r, active) ==
    LET op == Op(Len(entries))
        view == RoomView(history[r], active)
        at(p) == p \in DOMAIN view.pieces /\ view.pieces[p] = op.pitch
    IN  /\ op.kind = "put" => (at(Len(entries)) <=> op.pitch.tuning = active)
        /\ op.kind = "move" =>
               \/ op.piece \notin ExtensionCommands(history[r])
               \/ op.pitch.tuning # Op(op.piece).pitch.tuning
               \/ op.pitch.tuning # active
               \/ at(op.piece)
        /\ op.kind = "remove" => op.piece \notin DOMAIN view.pieces
        /\ op.kind = "config" => view.locked = op.locked

\* A user sees its own command take effect the moment it is admitted, over
\* whatever others did before it or concurrently, and with whatever hashes.
OwnEditShows ==
    [][entries' # entries =>
          (\A r \in Replica : Len(entries) \in history[r] =>
               \A active \in {p.tuning : p \in Pitch} : NewestShows(r, active))']_replicaVars

-----------------------------------------------------------------------------
(* The lane as its readers see it: the log that LaneRepair repairs.        *)

\* The root and the grants of the founding members, which every replica starts from.
Founders == Cardinality(Replica) + 1

\* The entries made after the founding, counted from there.  No replica of this
\* room starts over.
Since(S) == {e \in Id : e + Founders \in S}

Replicated == INSTANCE CausalLog WITH
    Placement <- Replica,
    log <- [r \in Replica |-> Since(history[r])],
    causes <- [e \in Id |-> IF e + Founders \in 1..Len(entries)
                            THEN Since(entries[e + Founders].past) ELSE {}],
    made <- Len(entries) - Founders,
    volatile <- {}

\* Whichever way a command is authored, at once or prepared and committed after
\* the store has written it, it is made on top of all its replica holds when it
\* is admitted: whatever was stored in between, the histories are a causal log.
ReplicatesCausalLog == Replicated!Spec

\* A replica that lacks something can admit some of it now: it holds all the
\* entry depends on and the policy takes it, so repair is never stuck.
RepairNeverStuck ==
    \A r \in Replica : \A e \in 1..Len(entries) \ history[r] :
        \E f \in 1..e \ history[r] :
            entries[f].past \subseteq history[r] /\ Validate(entries[f], history[r])

=============================================================================
