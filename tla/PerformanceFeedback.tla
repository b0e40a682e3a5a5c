------------------------ MODULE PerformanceFeedback ------------------------
(***************************************************************************)
(* The pressed controls of the window: a bounded table of presses that     *)
(* wait for the worker's outcome (src/room/performance_feedback.rs), and   *)
(* the way of one press through the window's command queue, the room loop, *)
(* the worker's session task and back (src/web/replica_host.rs,            *)
(* src/room/session.rs), while worker generations fail and are reopened.   *)
(*                                                                         *)
(* A press is known by its token: the worker generation it was made in and *)
(* a sequence number.  What the press does to the music is left out.       *)
(***************************************************************************)
EXTENDS Naturals, Sequences, FiniteSets

CONSTANTS
    Target,        \* the controls
    SlotCapacity,  \* CAPACITY of the table
    QueueCapacity, \* WINDOW_COMMAND_CAPACITY
    MaxPresses,    \* bound: presses in one generation
    MaxGeneration  \* bound: worker generations in a behaviour

ASSUME PerformanceFeedbackAssumption ==
    /\ IsFiniteSet(Target)
    /\ SlotCapacity \in Nat \ {0}
    /\ QueueCapacity \in Nat \ {0}
    /\ MaxPresses \in Nat
    /\ MaxGeneration \in Nat \ {0}

VARIABLES
    host,      \* HostState: performance_generation, performance_sequence, the
               \* generation of active_room and the one that is ending (0: none)
    opened,    \* the last worker generation that was opened
    table,     \* struct PerformanceFeedback
    presses,   \* COMMANDS: presses queued for the dispatch loop
    submitted, \* the press the dispatch loop waits for, and the room it went to
    edits,     \* presses the active generation's worker holds, by stage
    outcomes   \* outcomes on their way to the window's session loop

feedbackVars == <<host, opened, table, presses, submitted, edits, outcomes>>

Token == [generation : 1 .. MaxGeneration, sequence : 1 .. MaxPresses]

Slot == [token : Token, target : Target]

\* reified: committed by the drain loop; waiting: for an Event it follows.
EditStage == {"inbox", "reified", "waiting", "fallback"}

Outcome == {"Accepted", "Rejected", "Reset"}

NoSubmission == [press |-> <<>>, room |-> 0]

FeedbackInit ==
    /\ host = [generation |-> 0, sequence |-> 0, active |-> 0, ending |-> 0]
    /\ opened = 0
    /\ table = [generation |-> 0, high |-> 0, slots |-> {}]
    /\ presses = <<>>
    /\ submitted = NoSubmission
    /\ edits = {}
    /\ outcomes = {}

(***************************************************************************)
(* The table.                                                              *)
(***************************************************************************)

\* begin_transaction refuses a press that is not newer, or a full table; a
\* press of the same target takes over its slot.
CanBegin(token, target) ==
    /\ token.generation = table.generation
    /\ token.sequence > table.high
    /\ \/ \E s \in table.slots : s.target = target
       \/ Cardinality(table.slots) < SlotCapacity

BeginPress(token, target) ==
    [table EXCEPT !.high = token.sequence,
                  !.slots = {s \in @ : s.target # target}
                               \cup {[token |-> token, target |-> target]}]

\* rollback_begin restores the slot; the sequence number stays used.
Rollback(token, target) == [table EXCEPT !.high = token.sequence]

\* Mutant: an outcome clears the slot of its control, whoever pressed it last.
MutResolveSlot(slot) == [table EXCEPT !.slots = {s \in @ : s.target # slot.target}]

\* resolve consumes only the exact outcome.
ResolveSlot(slot) == [table EXCEPT !.slots = {s \in @ : s.token # slot.token}]

\* reset_generation
Reset(generation) ==
    IF table.generation = generation THEN [table EXCEPT !.slots = {}] ELSE table

\* Mutant: the sequence numbers of the last generation are remembered.
MutInstallGeneration(generation) ==
    [generation |-> generation, high |-> table.high, slots |-> {}]

\* install_generation
InstallGeneration(generation) == [generation |-> generation, high |-> 0, slots |-> {}]

(***************************************************************************)
(* The user and the dispatch loop.                                         *)
(***************************************************************************)

\* dispatch(): begin, then queue and commit, or roll back if the queue is full.
Press(target) ==
    LET token == [generation |-> host.generation, sequence |-> host.sequence + 1]
        press == [token |-> token, target |-> target]
    IN  /\ host.active # 0
        /\ host.generation # 0
        /\ host.sequence < MaxPresses
        /\ host' = [host EXCEPT !.sequence = @ + 1]
        /\ IF ~CanBegin(token, target) THEN UNCHANGED <<table, presses>>
           ELSE IF Len(presses) < QueueCapacity
                THEN table' = BeginPress(token, target) /\ presses' = Append(presses, press)
                ELSE table' = Rollback(token, target) /\ UNCHANGED presses
        /\ UNCHANGED <<opened, submitted, edits, outcomes>>

\* The loop of init(): validation or a missing room rejects the press;
\* otherwise it goes to the room loop of the active generation.
Dispatch(valid) ==
    /\ presses # <<>>
    /\ submitted = NoSubmission
    /\ presses' = Tail(presses)
    /\ IF valid /\ host.active # 0
       THEN /\ submitted' = [press |-> <<Head(presses)>>, room |-> host.active]
            /\ UNCHANGED table
       ELSE /\ table' = ResolveSlot(Head(presses))
            /\ UNCHANGED submitted
    /\ UNCHANGED <<host, opened, edits, outcomes>>

\* The room loop passes the press to the worker, which takes it or refuses;
\* a refused or unanswered frame is ambiguous and resets the whole table.
Submit(taken, acknowledged) ==
    LET press == submitted.press[1]
    IN  /\ submitted # NoSubmission
        /\ submitted.room = host.active
        /\ submitted' = NoSubmission
        /\ acknowledged => taken
        /\ edits' = IF taken THEN edits \cup {[press |-> press, stage |-> "inbox"]} ELSE edits
        /\ table' = IF acknowledged THEN table ELSE Reset(press.token.generation)
        /\ UNCHANGED <<host, opened, presses, outcomes>>

\* The room is gone: the response is dropped and the press is rejected.
SubmitFails ==
    /\ submitted # NoSubmission
    /\ submitted.room # host.active
    /\ submitted' = NoSubmission
    /\ table' = ResolveSlot(submitted.press[1])
    /\ UNCHANGED <<host, opened, presses, edits, outcomes>>

(***************************************************************************)
(* The worker.                                                             *)
(***************************************************************************)

\* local_edit: a press of another generation is rejected, as may be one the
\* session cannot take; without a session it falls back to a durable commit;
\* otherwise its Event is reified at once or waits.
LocalEdit(press, stage) ==
    /\ [press |-> press, stage |-> "inbox"] \in edits
    /\ press.token.generation # host.active => stage = "rejected"
    /\ edits' = (edits \ {[press |-> press, stage |-> "inbox"]})
                   \cup (IF stage = "rejected" THEN {} ELSE {[press |-> press, stage |-> stage]})
    /\ outcomes' = outcomes \cup (IF stage = "rejected"
                              THEN {[press |-> press, outcome |-> "Rejected"]} ELSE {})
    /\ UNCHANGED <<host, opened, table, presses, submitted>>

\* retry_reifications
Reify(press) ==
    /\ [press |-> press, stage |-> "waiting"] \in edits
    /\ edits' = (edits \ {[press |-> press, stage |-> "waiting"]})
                   \cup {[press |-> press, stage |-> "reified"]}
    /\ UNCHANGED <<host, opened, table, presses, submitted, outcomes>>

\* confirm_local after the drain, or the acknowledged durable fallback.  The
\* confirmation of a revision that follows an unannounced one is a Reset.
Confirm(press, stage, outcome) ==
    /\ [press |-> press, stage |-> stage] \in edits
    /\ stage \in {"reified", "fallback"}
    /\ outcome = "Reset" => stage = "reified"
    /\ edits' = edits \ {[press |-> press, stage |-> stage]}
    /\ outcomes' = outcomes \cup {[press |-> press, outcome |-> outcome]}
    /\ UNCHANGED <<host, opened, table, presses, submitted>>

(***************************************************************************)
(* The window's session loop.                                              *)
(***************************************************************************)

\* Mutant: only accepted presses are resolved.
MutReceiveOutcome(m) ==
    /\ m \in outcomes
    /\ m.outcome # "Reset"
    /\ outcomes' = outcomes \ {m}
    /\ table' = IF m.outcome = "Accepted" THEN ResolveSlot(m.press) ELSE table
    /\ UNCHANGED <<host, opened, presses, submitted, edits>>

\* Realtime, IntentRejected or the fallback's answer.  A Reset the gate takes
\* clears the table; one it drops as stale leaves the press to the reset the
\* gate then asks for.
ReceiveOutcome(m) ==
    /\ m \in outcomes
    /\ m.outcome # "Reset"
    /\ outcomes' = outcomes \ {m}
    /\ table' = ResolveSlot(m.press)
    /\ UNCHANGED <<host, opened, presses, submitted, edits>>

\* A Reset projection, whoever asked for it, is accepted by the gate.
ResetProjection ==
    /\ host.active # 0
    /\ table' = Reset(host.active)
    /\ outcomes' = {m \in outcomes : m.outcome # "Reset"}
    /\ UNCHANGED <<host, opened, presses, submitted, edits>>

(***************************************************************************)
(* Generations.                                                            *)
(***************************************************************************)

\* stop_active_room or fail_active_room_generation: the worker and everything
\* it holds are gone.
Stop ==
    /\ host.active # 0
    /\ host' = [host EXCEPT !.active = 0, !.ending = host.active]
    /\ table' = Reset(host.generation)
    /\ edits' = {}
    /\ outcomes' = {}
    /\ UNCHANGED <<opened, presses, submitted>>

\* The stopped generation's session loop has ended.
Invalidate ==
    /\ host.ending # 0
    /\ host' = [host EXCEPT !.ending = 0,
                            !.generation = IF @ = host.ending THEN 0 ELSE @]
    /\ table' = IF host.generation = host.ending THEN Reset(host.ending) ELSE table
    /\ UNCHANGED <<opened, presses, submitted, edits, outcomes>>

\* launch_room, once the last generation's tasks are joined: the next worker
\* generation is installed and becomes active when the network is up, or the
\* launch fails half way.
Reopen(succeeds) ==
    /\ host.active = 0
    /\ host.ending = 0
    /\ opened < MaxGeneration
    /\ opened' = opened + 1
    /\ host' = [generation |-> opened + 1, sequence |-> 0,
                active |-> IF succeeds THEN opened + 1 ELSE 0, ending |-> 0]
    /\ table' = InstallGeneration(opened + 1)
    /\ UNCHANGED <<presses, submitted, edits, outcomes>>

FeedbackNext ==
    \/ \E target \in Target : Press(target)
    \/ \E valid \in BOOLEAN : Dispatch(valid)
    \/ \E taken, acknowledged \in BOOLEAN : Submit(taken, acknowledged)
    \/ SubmitFails
    \/ \E press \in Slot :
        \/ \E stage \in {"rejected", "reified", "waiting", "fallback"} : LocalEdit(press, stage)
        \/ Reify(press)
        \/ \E stage \in EditStage, outcome \in {"Accepted", "Reset"} : Confirm(press, stage, outcome)
    \/ \E m \in outcomes : ReceiveOutcome(m)
    \/ ResetProjection
    \/ Stop \/ Invalidate
    \/ \E succeeds \in BOOLEAN : Reopen(succeeds)

FeedbackSpec == FeedbackInit /\ [][FeedbackNext]_feedbackVars

(***************************************************************************)
(* The window's loops and the worker keep running; presses, the end of a   *)
(* generation and the dependencies of a waiting Event are never owed.  A   *)
(* confirmation the gate dropped is followed by an accepted reset, which   *)
(* module ProjectionGate shows.                                            *)
(***************************************************************************)
FeedbackFairSpec ==
    /\ FeedbackSpec
    /\ WF_feedbackVars(\E valid \in BOOLEAN : Dispatch(valid))
    /\ WF_feedbackVars(\E taken, acknowledged \in BOOLEAN : Submit(taken, acknowledged))
    /\ WF_feedbackVars(SubmitFails)
    /\ WF_feedbackVars((\E m \in outcomes : m.outcome = "Reset") /\ ResetProjection)
    /\ \A press \in Slot :
        /\ WF_feedbackVars(\E stage \in {"rejected", "reified", "waiting", "fallback"} :
                      LocalEdit(press, stage))
        /\ WF_feedbackVars(\E stage \in EditStage, outcome \in Outcome : Confirm(press, stage, outcome))
        /\ WF_feedbackVars(\E m \in outcomes : m.press = press /\ ReceiveOutcome(m))

-----------------------------------------------------------------------------
\* The state has the shape of the table and the queues of the code: one slot
\* for a control and no more slots than the table has.
FeedbackTypeOK ==
    /\ host \in [generation : 0 .. MaxGeneration, sequence : 0 .. MaxPresses,
                 active : 0 .. MaxGeneration, ending : 0 .. MaxGeneration]
    /\ opened \in 0 .. MaxGeneration
    /\ table \in [generation : 0 .. MaxGeneration, high : 0 .. MaxPresses, slots : SUBSET Slot]
    /\ Cardinality(table.slots) <= SlotCapacity
    /\ \A s, r \in table.slots : s.target = r.target => s = r
    /\ presses \in Seq(Slot)
    /\ Len(presses) <= QueueCapacity
    /\ submitted \in {NoSubmission} \cup [press : {<<s>> : s \in Slot}, room : 1 .. MaxGeneration]
    /\ edits \in SUBSET [press : Slot, stage : EditStage]
    /\ outcomes \in SUBSET [press : Slot, outcome : Outcome]

\* The presses that still have an outcome to come.
Intents ==
    {presses[i] : i \in 1 .. Len(presses)}
    \cup {submitted.press[i] : i \in 1 .. Len(submitted.press)}
    \cup {w.press : w \in edits}
    \cup {m.press : m \in outcomes}

\* The host's counters and the table never disagree: a press in an active room
\* is refused only because the table is full.
OnlyCapacityRefuses ==
    host.active # 0 =>
        /\ host.generation = host.active
        /\ table.generation = host.generation
        /\ table.high <= host.sequence

\* An outcome releases exactly its own press: a slot goes away because its own
\* press has no outcome left to come, because the same control was pressed
\* again, with its generation, or with a reset of the table, by a projection or
\* by an ambiguous submission, in a step that receives no outcome of a press.
OutcomeIsExact ==
    [][\A s \in table.slots \ table'.slots :
          \/ s \notin Intents'
          \/ \E r \in table'.slots : r.target = s.target /\ r.token.sequence > s.token.sequence
          \/ <<host'.generation, host'.active>> # <<host.generation, host.active>>
          \/ /\ presses' = presses
             /\ submitted' # submitted => submitted.room = host.active
             /\ \A m \in outcomes \ outcomes' : m.outcome = "Reset"]_feedbackVars

\* A pressed control is released, unless its Event waits for an Event of a peer
\* that never becomes durable.
PressSettles ==
    \A s \in Slot :
        s \in table.slots ~> \/ s \notin table.slots
                             \/ [press |-> s, stage |-> "waiting"] \in edits
=============================================================================
