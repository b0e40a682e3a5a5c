-------------------------- MODULE RoomGenerations --------------------------
(***************************************************************************)
(* Which room the browser host runs (src/web/replica_host.rs).  The        *)
(* dispatch loop enters and leaves rooms one command at a time; a          *)
(* generation that fails is reopened by a recovery task of its own, so a   *)
(* recovery may still be launching the old room while the user is already  *)
(* in another one.  The operation counter decides which launch may         *)
(* install; the placement's Web Lock lets one worker open a room.          *)
(*                                                                         *)
(* The network, the peers shown and the music are left out.  A worker      *)
(* generation is numbered when its opening starts (hhhs_web_browser).      *)
(***************************************************************************)
EXTENDS Naturals

CONSTANTS
    Room,        \* the rooms
    NoRoom,      \* the user is in no room
    Attempts,    \* length of REOPEN_BACKOFF_MS
    MaxCommands, \* bound: enter and leave commands in a behaviour
    MaxFailures, \* bound: failed generations in a behaviour
    MaxFaults    \* bound: openings and network bindings that fail

ASSUME RoomGenerationsAssumption ==
    /\ NoRoom \notin Room
    /\ Attempts \in Nat \ {0}
    /\ MaxCommands \in Nat
    /\ MaxFailures \in Nat
    /\ MaxFaults \in Nat

\* The dispatch loop, and the recovery task of each failure.
User == 0

Recovery == 1 .. MaxFailures

Gen == 1 .. MaxCommands + MaxFailures * Attempts

VARIABLES
    op,      \* HostState.room_operation
    wish,    \* the room the last command asked for
    active,  \* HostState.active_room
    perf,    \* HostState.performance_generation
    nextGen, \* the next worker generation
    worker,  \* worker[g]: its room, and whether it runs and holds the lock
    loops,   \* generations whose tasks have not been joined
    task,    \* task[t]: where the dispatch loop and the recoveries are
    used     \* commands, failures and faults so far

generationVars == <<op, wish, active, perf, nextGen, worker, loops, task, used>>

NoActive == [gen |-> 0, room |-> NoRoom, op |-> 0]

IdleTask == [stage |-> "idle", room |-> NoRoom, op |-> 0, gen |-> 0, attempt |-> 0]

GenerationsInit ==
    /\ op = 0
    /\ wish = NoRoom
    /\ active = NoActive
    /\ perf = 0
    /\ nextGen = 1
    /\ worker = [g \in Gen |-> [room |-> NoRoom, state |-> "unused"]]
    /\ loops = {}
    /\ task = [t \in {User} \cup Recovery |-> IdleTask]
    /\ used = [commands |-> 0, failures |-> 0, faults |-> 0]

\* The Web Lock of a placement: a terminated worker gives it back later.
Locked(room) == \E g \in Gen : worker[g].room = room /\ worker[g].state \in {"live", "terminated"}

SetWorker(g, room, state) == worker' = [worker EXCEPT ![g] = [room |-> room, state |-> state]]

Terminate(g) == worker' = [worker EXCEPT ![g].state = "terminated"]

UseFault == used.faults < MaxFaults /\ used' = [used EXCEPT !.faults = @ + 1]

(***************************************************************************)
(* launch_room, cut where it awaits: the worker's opening, then the        *)
(* network and its ticket.                                                 *)
(***************************************************************************)

\* The task after it has called launch_room.
Launch(t, room, o) ==
    /\ task' = [task EXCEPT ![t] = [@ EXCEPT !.stage = "start", !.room = room,
                                             !.op = o, !.gen = nextGen]]
    /\ nextGen' = nextGen + 1

\* Mutant: the recovery gives up when an attempt fails.
MutLaunchFailedOnce(t) ==
    IF t = User THEN IdleTask ELSE [task[t] EXCEPT !.stage = "done"]

\* The task after launch_room returned an error: a command reports it, a
\* recovery waits for its next attempt.
LaunchFailed(t) ==
    IF t = User THEN IdleTask
    ELSE IF task[t].attempt < Attempts
         THEN [task[t] EXCEPT !.stage = "waiting", !.attempt = @ + 1]
         ELSE [task[t] EXCEPT !.stage = "done"]

\* The new worker takes the placement's lock, or is refused at once.
Acquire(t) ==
    /\ task[t].stage = "start"
    /\ IF Locked(task[t].room)
       THEN /\ task' = [task EXCEPT ![t] = LaunchFailed(t)]
            /\ UNCHANGED worker
       ELSE /\ task' = [task EXCEPT ![t].stage = "open"]
            /\ SetWorker(task[t].gen, task[t].room, "live")
    /\ UNCHANGED <<op, wish, active, perf, nextGen, loops, used>>

\* The worker does not start, or the Open response or the first snapshot is
\* bad: the handle is given up, the worker is not terminated.
OpenFails(t) ==
    /\ task[t].stage \in {"start", "open"}
    /\ UseFault
    /\ task' = [task EXCEPT ![t] = LaunchFailed(t)]
    /\ UNCHANGED <<op, wish, active, perf, nextGen, worker, loops>>

\* Mutant: the newest worker to open names the feedback generation.
MutOpened(t) ==
    /\ task[t].stage = "open"
    /\ perf' = task[t].gen
    /\ task' = [task EXCEPT ![t].stage = "bind"]
    /\ UNCHANGED <<op, wish, active, nextGen, worker, loops, used>>

\* The worker is open: install_performance_generation refuses a generation that
\* is older than the installed one, and the launch returns without its worker.
Opened(t) ==
    /\ task[t].stage = "open"
    /\ IF perf > task[t].gen
       THEN /\ task' = [task EXCEPT ![t] = LaunchFailed(t)]
            /\ UNCHANGED perf
       ELSE /\ task' = [task EXCEPT ![t].stage = "bind"]
            /\ perf' = task[t].gen
    /\ UNCHANGED <<op, wish, active, nextGen, worker, loops, used>>

BindFails(t) ==
    /\ task[t].stage = "bind"
    /\ UseFault
    /\ Terminate(task[t].gen)
    /\ task' = [task EXCEPT ![t] = LaunchFailed(t)]
    /\ UNCHANGED <<op, wish, active, perf, nextGen, loops>>

\* The task after launch_room returned: the dispatch loop takes the next
\* command, a recovery is over.
Launched(t) == IF t = User THEN IdleTask ELSE [task[t] EXCEPT !.stage = "done"]

Install(t) ==
    /\ active' = [gen |-> task[t].gen, room |-> task[t].room, op |-> task[t].op]
    /\ loops' = loops \cup {task[t].gen}
    /\ task' = [task EXCEPT ![t] = Launched(t)]
    /\ UNCHANGED worker

\* Mutant: a superseded launch installs its room.
MutBound(t) ==
    /\ task[t].stage = "bind"
    /\ Install(t)
    /\ UNCHANGED <<op, wish, perf, nextGen, used>>

\* The network is bound: a superseded launch ends its worker, a current one
\* installs the room.
Bound(t) ==
    /\ task[t].stage = "bind"
    /\ \/ /\ op = task[t].op
          /\ Install(t)
       \/ /\ op # task[t].op
          /\ Terminate(task[t].gen)
          /\ task' = [task EXCEPT ![t] = LaunchFailed(t)]
          /\ UNCHANGED <<active, loops>>
    /\ UNCHANGED <<op, wish, perf, nextGen, used>>

(***************************************************************************)
(* Commands.                                                               *)
(***************************************************************************)

\* enter_room, join_ticket (room) or leave_room (NoRoom), up to the end of
\* stop_active_room's first half: the operation is counted before anything is
\* awaited, and the active room is taken.
Command(room) ==
    /\ task[User].stage = "idle"
    /\ used.commands < MaxCommands
    /\ used' = [used EXCEPT !.commands = @ + 1]
    /\ op' = op + 1
    /\ wish' = room
    /\ active' = NoActive
    /\ task' = [task EXCEPT ![User] = [IdleTask EXCEPT !.stage = "stopping", !.gen = active.gen]]
    /\ UNCHANGED <<perf, nextGen, worker, loops>>

\* The tasks of the old generation are joined; enter goes on to launch_room.
Stopped ==
    /\ task[User].stage = "stopping"
    /\ task[User].gen \notin loops
    /\ IF wish = NoRoom
       THEN task' = [task EXCEPT ![User] = IdleTask] /\ UNCHANGED nextGen
       ELSE Launch(User, wish, op)
    /\ UNCHANGED <<op, wish, active, perf, worker, loops, used>>

(***************************************************************************)
(* Failure and recovery.                                                   *)
(***************************************************************************)

\* fail_active_room_generation of the active generation.
Fail ==
    /\ active.gen # 0
    /\ used.failures < MaxFailures
    /\ used' = [used EXCEPT !.failures = @ + 1]
    /\ task' = [task EXCEPT ![used.failures + 1] =
                  [stage |-> "joining", room |-> active.room, op |-> active.op,
                   gen |-> active.gen, attempt |-> 1]]
    /\ active' = NoActive
    /\ Terminate(active.gen)
    /\ UNCHANGED <<op, wish, perf, nextGen, loops>>

\* The room loop of a stopped or failed generation ends: it closes a worker
\* that has not failed, and the session loop invalidates the generation.
EndLoops(g) ==
    /\ g \in loops
    /\ g # active.gen
    /\ loops' = loops \ {g}
    /\ perf' = IF perf = g THEN 0 ELSE perf
    /\ worker' = [worker EXCEPT ![g].state = IF @ = "live" THEN "gone" ELSE @]
    /\ UNCHANGED <<op, wish, active, nextGen, task, used>>

\* The browser frees the lock of a terminated worker.
Release(g) ==
    /\ worker[g].state = "terminated"
    /\ worker' = [worker EXCEPT ![g].state = "gone"]
    /\ UNCHANGED <<op, wish, active, perf, nextGen, loops, task, used>>

Joined(t) ==
    /\ task[t].stage = "joining"
    /\ task[t].gen \notin loops
    /\ task' = [task EXCEPT ![t].stage = "waiting"]
    /\ UNCHANGED <<op, wish, active, perf, nextGen, worker, loops, used>>

\* The backoff is over: the recovery goes on only for the current operation and
\* while no room is active.
Retry(t) ==
    /\ task[t].stage = "waiting"
    /\ IF op = task[t].op /\ active.gen = 0
       THEN Launch(t, task[t].room, task[t].op)
       ELSE task' = [task EXCEPT ![t].stage = "done"] /\ UNCHANGED nextGen
    /\ UNCHANGED <<op, wish, active, perf, worker, loops, used>>

GenerationsNext ==
    \/ \E t \in {User} \cup Recovery :
        Acquire(t) \/ OpenFails(t) \/ Opened(t) \/ BindFails(t) \/ Bound(t)
    \/ \E room \in Room \cup {NoRoom} : Command(room)
    \/ Stopped
    \/ Fail
    \/ \E t \in Recovery : Joined(t) \/ Retry(t)
    \/ \E g \in Gen : EndLoops(g) \/ Release(g)

GenerationsSpec == GenerationsInit /\ [][GenerationsNext]_generationVars

\* The window's tasks run, timers fire, openings and bindings end, and the
\* browser frees locks; commands, failures and faults are never owed.
GenerationsFairSpec ==
    /\ GenerationsSpec
    /\ WF_generationVars(Stopped)
    /\ \A t \in {User} \cup Recovery :
        WF_generationVars(Acquire(t)) /\ WF_generationVars(Opened(t)) /\ WF_generationVars(Bound(t))
    /\ \A t \in Recovery : WF_generationVars(Joined(t)) /\ WF_generationVars(Retry(t))
    /\ \A g \in Gen : WF_generationVars(EndLoops(g)) /\ WF_generationVars(Release(g))

-----------------------------------------------------------------------------
TaskStage == {"idle", "stopping", "joining", "waiting", "start", "open", "bind", "done"}

\* The state has the shape of HostState and of its tasks; a recovery makes no
\* more attempts than its backoff table has, so generations never run out.
GenerationsTypeOK ==
    /\ op \in 0 .. MaxCommands
    /\ wish \in Room \cup {NoRoom}
    /\ active \in [gen : Gen \cup {0}, room : Room \cup {NoRoom}, op : 0 .. MaxCommands]
    /\ perf \in Gen \cup {0}
    /\ nextGen \in Nat \ {0}
    /\ worker \in [Gen -> [room : Room \cup {NoRoom},
                           state : {"unused", "live", "terminated", "gone"}]]
    /\ loops \in SUBSET Gen
    /\ task \in [{User} \cup Recovery ->
                    [stage : TaskStage, room : Room \cup {NoRoom}, op : 0 .. MaxCommands,
                     gen : Gen \cup {0}, attempt : 0 .. Attempts]]
    /\ used \in [commands : 0 .. MaxCommands, failures : 0 .. MaxFailures,
                 faults : 0 .. MaxFaults]

\* The host is only ever in the room the user asked for last: no recovery of an
\* older room, however late it ends, installs over a newer enter or leave ("A
\* user leave/join ... cancels every stale retry before it can install an old
\* room").
RoomIsTheWish == active.gen # 0 => active.room = wish /\ active.op = op

\* The feedback table belongs to the worker of the active room: a superseded
\* launch that opens late never takes the pressed controls away from it, and a
\* late end of an older generation never invalidates it.
FeedbackFollowsRoom == active.gen # 0 => perf = active.gen

\* A failed generation is reopened, unless the user has moved on or every
\* attempt of the backoff table was refused: no recovery hangs in a join or a
\* launch, and none ends early.
Recovers ==
    \A t \in Recovery :
        task[t].stage = "joining" ~> /\ task[t].stage = "done"
                                     /\ \/ active.op = task[t].op /\ active.gen # 0
                                        \/ op # task[t].op
                                        \/ task[t].attempt = Attempts

\* A running worker belongs to somebody who will end it: the active room, a
\* launch or a generation that is being joined ("cannot create an unowned
\* worker/network/Web-Lock generation").
NoStrayWorker ==
    \A g \in Gen :
        worker[g].state = "live" =>
            \/ g \in loops
            \/ \E t \in {User} \cup Recovery :
                  task[t].gen = g /\ task[t].stage \in {"open", "bind"}
=============================================================================
