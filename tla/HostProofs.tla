----------------------------- MODULE HostProofs -----------------------------
(***************************************************************************)
(* Proofs about the parts of the browser host, which share no state at the *)
(* level at which they are modelled: the generations of a room, the        *)
(* pressed controls, the projection gate and the circle of waits between   *)
(* room service and session task.  They hold for any number of rooms,      *)
(* commands, presses, revisions, epochs and requests.                      *)
(***************************************************************************)
EXTENDS MCHost, FiniteSetTheorems, TLAPS

-----------------------------------------------------------------------------
(***************************************************************************)
(* Proofs about the generations of a room for any number of rooms,         *)
(* commands, failures and attempts: whatever recoveries of older rooms are *)
(* still launching, the host is only ever in the room asked for last, and  *)
(* the pressed controls belong to the worker of that room.                 *)
(***************************************************************************)

Task == {User} \cup Recovery

TaskType ==
    [stage : TaskStage, room : Room \cup {NoRoom}, op : 0 .. MaxCommands,
     gen : Nat, attempt : 0 .. Attempts]

(***************************************************************************)
(* GenerationsTypeOK without the bound on generations, which takes a count *)
(* of the launches that no other part needs.                               *)
(***************************************************************************)
Shape ==
    /\ op \in 0 .. MaxCommands
    /\ wish \in Room \cup {NoRoom}
    /\ active \in [gen : Nat, room : Room \cup {NoRoom}, op : 0 .. MaxCommands]
    /\ perf \in Nat
    /\ nextGen \in Nat \ {0}
    /\ loops \in SUBSET Nat
    /\ task \in [Task -> TaskType]
    /\ used \in [commands : 0 .. MaxCommands, failures : 0 .. MaxFailures,
                 faults : 0 .. MaxFaults]
    /\ used.commands = op

Launching == {"start", "open", "bind"}

Pending == Launching \cup {"joining", "waiting"}

\* A task that may still launch for the operation of the last command.
Current(t) == task[t].stage \in Pending /\ task[t].op = op

\* At most one task works for the current operation, for the room asked for,
\* and only while no room is active and none is being stopped.
CurrentOK ==
    /\ \A t \in Task : task[t].stage \in Pending => task[t].op <= op
    /\ \A t \in Task : Current(t) => /\ task[t].room = wish
                                     /\ active.gen = 0
                                     /\ task[User].stage # "stopping"
    /\ \A t, u \in Task : Current(t) /\ Current(u) => t = u
    /\ task[User].stage = "stopping" => active.gen = 0

\* Launches have generations of their own, smaller ones for older operations.
GensOK ==
    /\ loops \subseteq 1 .. nextGen - 1
    /\ \A t \in Task : task[t].stage \in Launching =>
          task[t].gen \in 1 .. nextGen - 1 /\ task[t].gen \notin loops
    /\ \A t, u \in Task :
          task[t].stage \in Launching /\ task[u].stage \in Launching /\ t # u =>
             /\ task[t].gen # task[u].gen
             /\ task[t].op < task[u].op => task[t].gen < task[u].gen

\* The active room is the one asked for, the controls are its worker's, its
\* tasks run, and every launch under way is older.
ActiveOK ==
    active.gen # 0 =>
        /\ active.op = op /\ active.room = wish
        /\ perf = active.gen
        /\ active.gen \in loops
        /\ \A t \in Task : task[t].stage \in Launching => task[t].gen < active.gen

\* A current launch that has opened its worker has the controls.
BindOK == \A t \in Task : task[t].stage = "bind" /\ task[t].op = op => perf = task[t].gen

GenInv == Shape /\ CurrentOK /\ GensOK /\ ActiveOK /\ BindOK

\* Which stages of a task come before its room is joined.
LEMMA Stages ==
    /\ \A s \in Launching : s \in Pending
    /\ \A s \in Pending : s # "stopping" /\ s # "idle" /\ s # "done"
    /\ "bind" \in Launching /\ "start" \in Launching /\ "open" \in Launching
    /\ "waiting" \notin Launching /\ "joining" \notin Launching
    /\ Launching \cup Pending \subseteq TaskStage
BY DEF Launching, Pending, TaskStage

\* A task moves on without a new generation: it stays with its room, or stops.
LEMMA MoveKeeps ==
    ASSUME GenInv, NEW t \in Task, NEW u \in TaskType,
           task' = [task EXCEPT ![t] = u],
           u.stage \in Pending =>
              task[t].stage \in Pending /\ u.op = task[t].op /\ u.room = task[t].room,
           u.stage \in Launching => task[t].stage \in Launching /\ u.gen = task[t].gen,
           u.stage = "bind" => task[t].stage = "bind",
           u.stage # "stopping",
           UNCHANGED <<op, wish, active, perf, nextGen, loops>>,
           used' \in [commands : {op}, failures : 0 .. MaxFailures, faults : 0 .. MaxFaults]
    PROVE  GenInv'
<1>0. task \in [Task -> TaskType] /\ \A v \in Task : task'[v] = IF v = t THEN u ELSE task[v]
    BY DEF GenInv, Shape
<1>1. Shape'
    BY <1>0 DEF GenInv, Shape
<1>2. CurrentOK'
    BY <1>0 DEF GenInv, CurrentOK, Current
<1>3. GensOK'
    BY <1>0, Stages DEF GenInv, GensOK
<1>4. ActiveOK'
    BY <1>0 DEF GenInv, ActiveOK
<1>5. BindOK'
    BY <1>0, Stages DEF GenInv, BindOK
<1> QED BY <1>1, <1>2, <1>3, <1>4, <1>5 DEF GenInv

\* Whatever becomes of a failed launch.
LEMMA FailedMove ==
    ASSUME GenInv, NEW t \in Task, task[t].stage \in Pending
    PROVE  LET u == LaunchFailed(t)
           IN  /\ u \in TaskType
               /\ u.stage \in Pending => u.op = task[t].op /\ u.room = task[t].room
               /\ u.stage \notin Launching /\ u.stage # "bind" /\ u.stage # "stopping"
<1>0. task[t] \in TaskType
    BY DEF GenInv, Shape
<1>1. CASE t = User
    BY <1>1, RoomGenerationsAssumption, Stages
    DEF LaunchFailed, IdleTask, TaskType, TaskStage, Pending, Launching
<1>2. CASE t # User /\ task[t].attempt < Attempts
    <2>1. task[t].attempt + 1 \in 0 .. Attempts
        BY <1>0, <1>2, RoomGenerationsAssumption DEF TaskType
    <2> QED BY <1>0, <1>2, <2>1, Stages DEF LaunchFailed, TaskType, TaskStage, Launching
<1>3. CASE t # User /\ ~(task[t].attempt < Attempts)
    BY <1>0, <1>3, Stages DEF LaunchFailed, TaskType, TaskStage, Launching, Pending
<1> QED BY <1>1, <1>2, <1>3

\* A launch that fails, for the first time or at its last attempt, keeps the invariant.
LEMMA FailedKeeps ==
    ASSUME GenInv, NEW t \in Task, task[t].stage \in Pending,
           task' = [task EXCEPT ![t] = LaunchFailed(t)],
           UNCHANGED <<op, wish, active, perf, nextGen, loops>>,
           used' \in [commands : {op}, failures : 0 .. MaxFailures, faults : 0 .. MaxFaults]
    PROVE  GenInv'
BY FailedMove, MoveKeeps

-----------------------------------------------------------------------------
(* One lemma per action.                                                   *)

\* What the bounds of the model have counted stays typed, a fault more included.
LEMMA UsedKept ==
    ASSUME GenInv
    PROVE  /\ used \in [commands : {op}, failures : 0 .. MaxFailures, faults : 0 .. MaxFaults]
           /\ UseFault => used' \in [commands : {op}, failures : 0 .. MaxFailures,
                                     faults : 0 .. MaxFaults]
BY RoomGenerationsAssumption DEF GenInv, Shape, UseFault

\* A worker that takes the placement's lock keeps the invariant.
LEMMA AcquireKeeps == ASSUME GenInv, NEW t \in Task, Acquire(t) PROVE GenInv'
<1>1. CASE Locked(task[t].room)
    BY <1>1, Stages, UsedKept, FailedKeeps DEF Acquire
<1>2. CASE ~Locked(task[t].room)
    <2> DEFINE u == [task[t] EXCEPT !.stage = "open"]
    <2>1. task' = [task EXCEPT ![t] = u]
        BY <1>2 DEF Acquire
    <2>2. u \in TaskType
        BY Stages DEF GenInv, Shape, TaskType
    <2>3. u.stage = "open" /\ u.op = task[t].op /\ u.room = task[t].room /\ u.gen = task[t].gen
        BY DEF GenInv, Shape, TaskType
    <2> HIDE DEF u
    <2> QED BY <2>1, <2>2, <2>3, Stages, UsedKept, MoveKeeps DEF Acquire
<1> QED BY <1>1, <1>2

\* So does one whose worker does not open.
LEMMA OpenFailsKeeps == ASSUME GenInv, NEW t \in Task, OpenFails(t) PROVE GenInv'
BY Stages, UsedKept, FailedKeeps DEF OpenFails

\* An older launch is refused, for the controls belong to a younger one; the
\* current launch has the youngest generation.
LEMMA OpenedKeeps == ASSUME GenInv, NEW t \in Task, Opened(t) PROVE GenInv'
<1>1. CASE perf > task[t].gen
    BY <1>1, Stages, UsedKept, FailedKeeps DEF Opened
<1>2. CASE ~(perf > task[t].gen)
    <2> DEFINE u == [task[t] EXCEPT !.stage = "bind"]
    <2>1. /\ task' = [task EXCEPT ![t] = u] /\ perf' = task[t].gen
          /\ task[t].stage = "open"
          /\ UNCHANGED <<op, wish, active, nextGen, loops, used>>
        BY <1>2 DEF Opened
    <2>2. u \in TaskType
        BY Stages DEF GenInv, Shape, TaskType
    <2>3. u.stage = "bind" /\ u.op = task[t].op /\ u.room = task[t].room /\ u.gen = task[t].gen
        BY DEF GenInv, Shape, TaskType
    <2> HIDE DEF u
    <2>4. task \in [Task -> TaskType] /\ \A v \in Task : task'[v] = IF v = t THEN u ELSE task[v]
        BY <2>1 DEF GenInv, Shape
    <2>5. task[t].gen \in Nat /\ perf \in Nat /\ perf <= task[t].gen
        BY <1>2, <2>4 DEF TaskType, GenInv, Shape
    <2>6. Shape'
        BY <2>1, <2>2, <2>4, <2>5 DEF GenInv, Shape
    <2>7. CurrentOK'
        BY <2>1, <2>3, <2>4, Stages DEF GenInv, CurrentOK, Current
    <2>8. GensOK'
        BY <2>1, <2>3, <2>4, Stages DEF GenInv, GensOK
    <2>9. active.gen = 0
        <3> SUFFICES ASSUME active.gen # 0 PROVE FALSE
            OBVIOUS
        <3>1. perf = active.gen /\ task[t].gen < active.gen
            BY <2>1, Stages DEF GenInv, ActiveOK
        <3> QED BY <2>5, <3>1
    <2>10. ActiveOK'
        BY <2>1, <2>9 DEF ActiveOK
    <2>11. BindOK'
        <3> SUFFICES ASSUME NEW v \in Task, v # t, task[v].stage = "bind", task[v].op = op
                     PROVE  FALSE
            BY <2>1, <2>3, <2>4 DEF BindOK
        <3>1. perf = task[v].gen
            BY DEF GenInv, BindOK
        <3>2. Current(v) /\ ~Current(t) /\ task[t].op <= op
            BY <2>1, Stages DEF GenInv, CurrentOK, Current
        <3>3. task[t].op < op
            BY <2>1, <2>4, <3>2, Stages DEF GenInv, Shape, TaskType, Current
        <3>4. task[t].gen < task[v].gen
            BY <2>1, <3>3, Stages DEF GenInv, GensOK
        <3> QED BY <2>5, <3>1, <3>4
    <2> QED BY <2>6, <2>7, <2>8, <2>10, <2>11 DEF GenInv
<1> QED BY <1>1, <1>2

\* So does one whose room is not bound.
LEMMA BindFailsKeeps == ASSUME GenInv, NEW t \in Task, BindFails(t) PROVE GenInv'
BY Stages, UsedKept, FailedKeeps DEF BindFails

\* A launch that is still current installs the room that was asked for last.
LEMMA BoundKeeps == ASSUME GenInv, NEW t \in Task, Bound(t) PROVE GenInv'
<1>1. CASE op # task[t].op
    BY <1>1, Stages, UsedKept, FailedKeeps DEF Bound
<1>2. CASE op = task[t].op
    <2> DEFINE u == Launched(t)
    <2>0. /\ active' = [gen |-> task[t].gen, room |-> task[t].room, op |-> task[t].op]
          /\ loops' = loops \cup {task[t].gen}
          /\ task' = [task EXCEPT ![t] = u]
          /\ task[t].stage = "bind"
          /\ UNCHANGED <<op, wish, perf, nextGen, used>>
        BY <1>2 DEF Bound, Install
    <2>1. task[t] \in TaskType
        BY DEF GenInv, Shape
    <2>2. u \in TaskType /\ u.stage \in {"idle", "done"}
        BY <2>1, RoomGenerationsAssumption, Stages DEF Launched, IdleTask, TaskType, TaskStage
    <2> HIDE DEF u
    <2>3. task \in [Task -> TaskType] /\ \A v \in Task : task'[v] = IF v = t THEN u ELSE task[v]
        BY <2>0 DEF GenInv, Shape
    <2>4. u.stage \notin Pending /\ u.stage \notin Launching /\ u.stage # "stopping"
        BY <2>2, Stages
    <2>5. Current(t) /\ task[t].room = wish /\ perf = task[t].gen /\ task[User].stage # "stopping"
        BY <1>2, <2>0, Stages DEF Current, GenInv, CurrentOK, BindOK
    <2>6. \A v \in Task : ~Current(v)'
        BY <2>0, <2>3, <2>4, <2>5 DEF Current, GenInv, CurrentOK
    <2>7. Shape'
        BY <2>0, <2>1, <2>2, <2>3 DEF GenInv, Shape, TaskType
    <2>8. CurrentOK'
        <3>1. task'[User].stage # "stopping"
            BY <2>3, <2>4, <2>5 DEF Task
        <3>2. \A v \in Task : task'[v].stage \in Pending => task'[v].op <= op'
            BY <2>0, <2>3, <2>4 DEF GenInv, CurrentOK
        <3> QED BY <2>6, <3>1, <3>2 DEF CurrentOK
    <2>9. \A v \in Task : task'[v].stage \in Launching =>
              /\ v # t /\ task[v].stage \in Launching /\ task'[v] = task[v]
              /\ task[v].gen < task[t].gen
        <3> SUFFICES ASSUME NEW v \in Task, v # t, task[v].stage \in Launching
                     PROVE  task[v].gen < task[t].gen
            BY <2>3, <2>4
        <3>1. ~Current(v) /\ task[v].op <= op
            BY <2>5, Stages DEF GenInv, CurrentOK
        <3>2. task[v].op < task[t].op
            BY <1>2, <2>3, <3>1, Stages DEF Current, TaskType, GenInv, Shape
        <3> QED BY <2>0, <3>2, Stages DEF GenInv, GensOK
    <2>10. GensOK'
        <3>1. task[t].gen \in 1 .. nextGen - 1
            BY <2>0, Stages DEF GenInv, GensOK
        <3>2. \A v \in Task : task'[v].stage \in Launching =>
                  task'[v].gen \in 1 .. nextGen' - 1 /\ task'[v].gen \notin loops'
            BY <2>0, <2>9, Stages DEF GenInv, GensOK
        <3>3. loops' \subseteq 1 .. nextGen' - 1
            BY <2>0, <3>1 DEF GenInv, GensOK
        <3> QED BY <2>9, <3>2, <3>3 DEF GenInv, GensOK
    <2>11. ActiveOK'
        BY <1>2, <2>0, <2>5, <2>9 DEF ActiveOK
    <2>12. BindOK'
        BY <2>6, Stages DEF BindOK, Current
    <2> QED BY <2>7, <2>8, <2>10, <2>11, <2>12 DEF GenInv
<1> QED BY <1>1, <1>2

\* A command makes every launch one of an older operation.
LEMMA CommandKeeps ==
    ASSUME GenInv, NEW room \in Room \cup {NoRoom}, Command(room) PROVE GenInv'
<1> DEFINE u == [IdleTask EXCEPT !.stage = "stopping", !.gen = active.gen]
<1>1. /\ used' = [used EXCEPT !.commands = @ + 1] /\ used.commands < MaxCommands
      /\ op' = op + 1 /\ wish' = room /\ active' = NoActive
      /\ task' = [task EXCEPT ![User] = u]
      /\ UNCHANGED <<perf, nextGen, loops>>
    BY DEF Command
<1>2. User \in Task /\ op \in Nat
    BY DEF Task, GenInv, Shape
<1>3. u \in TaskType /\ u.stage = "stopping"
    <2>1. IdleTask \in TaskType
        BY RoomGenerationsAssumption DEF IdleTask, TaskType, TaskStage
    <2>2. active.gen \in Nat
        BY DEF GenInv, Shape
    <2> QED BY <2>1, <2>2 DEF TaskType, TaskStage
<1> HIDE DEF u
<1>4. task \in [Task -> TaskType] /\ \A v \in Task : task'[v] = IF v = User THEN u ELSE task[v]
    BY <1>1, <1>2 DEF GenInv, Shape
<1>5. \A v \in Task : task'[v].stage \in Pending => task'[v] = task[v] /\ task[v].op \in 0 .. op
    BY <1>3, <1>4, Stages DEF GenInv, CurrentOK, TaskType
<1>6. Shape'
    BY <1>1, <1>2, <1>3, <1>4, RoomGenerationsAssumption DEF GenInv, Shape, NoActive
<1>7. CurrentOK'
    BY <1>1, <1>2, <1>5 DEF CurrentOK, Current, NoActive
<1>8. GensOK'
    BY <1>1, <1>5, Stages DEF GenInv, GensOK
<1>9. ActiveOK' /\ BindOK'
    BY <1>1, <1>2, <1>5, Stages DEF ActiveOK, BindOK, NoActive
<1> QED BY <1>6, <1>7, <1>8, <1>9 DEF GenInv

\* A launch for the current operation, of which there is no other, takes a
\* generation younger than all.
LEMMA LaunchKeeps ==
    ASSUME GenInv, NEW t \in Task, Launch(t, wish, op), active.gen = 0,
           \A v \in Task : Current(v) => v = t,
           task[User].stage = "stopping" => t = User,
           UNCHANGED <<op, wish, active, perf, loops, used>>
    PROVE  GenInv'
<1> DEFINE u == [task[t] EXCEPT !.stage = "start", !.room = wish, !.op = op, !.gen = nextGen]
<1>1. task' = [task EXCEPT ![t] = u] /\ nextGen' = nextGen + 1
    BY DEF Launch
<1>2. /\ nextGen \in Nat \ {0} /\ op \in 0 .. MaxCommands /\ wish \in Room \cup {NoRoom}
      /\ task[t] \in TaskType
    BY DEF GenInv, Shape
<1>3. /\ u \in TaskType
      /\ u.stage = "start" /\ u.room = wish /\ u.op = op /\ u.gen = nextGen
    BY <1>2 DEF TaskType, TaskStage
<1> HIDE DEF u
<1>4. task \in [Task -> TaskType] /\ \A v \in Task : task'[v] = IF v = t THEN u ELSE task[v]
    BY <1>1 DEF GenInv, Shape
<1>5. Shape'
    BY <1>1, <1>2, <1>3, <1>4 DEF GenInv, Shape
<1>6. CurrentOK'
    <2>1. \A v \in Task : Current(v)' => v = t
        BY <1>4 DEF Current
    <2>2. task'[User].stage # "stopping"
        BY <1>3, <1>4 DEF Task
    <2>3. \A v \in Task : task'[v].stage \in Pending => task'[v].op <= op'
        BY <1>2, <1>3, <1>4 DEF GenInv, CurrentOK
    <2> QED BY <1>3, <1>4, <2>1, <2>2, <2>3 DEF CurrentOK
<1>7. \A v \in Task : v # t /\ task[v].stage \in Launching =>
          task[v].gen \in 1 .. nextGen - 1 /\ task[v].gen \notin loops /\ task[v].op \in 0 .. op - 1
    <2> SUFFICES ASSUME NEW v \in Task, v # t, task[v].stage \in Launching
                 PROVE  /\ task[v].gen \in 1 .. nextGen - 1 /\ task[v].gen \notin loops
                        /\ task[v].op \in 0 .. op - 1
        OBVIOUS
    <2>1. task[v].gen \in 1 .. nextGen - 1 /\ task[v].gen \notin loops
        BY DEF GenInv, GensOK
    <2>2. task[v].op <= op /\ task[v].op # op
        BY Stages DEF GenInv, CurrentOK, Current
    <2>3. task[v].op \in 0 .. MaxCommands
        BY <1>4 DEF TaskType
    <2> QED BY <1>2, <2>1, <2>2, <2>3
<1>8. GensOK'
    <2>1. loops' \subseteq 1 .. nextGen' - 1 /\ nextGen \notin loops
        BY <1>1, <1>2 DEF GenInv, GensOK
    <2>2. \A v \in Task : task'[v].stage \in Launching =>
              task'[v].gen \in 1 .. nextGen' - 1 /\ task'[v].gen \notin loops'
        BY <1>1, <1>2, <1>3, <1>4, <1>7, <2>1
    <2>3. \A v, w \in Task :
              task'[v].stage \in Launching /\ task'[w].stage \in Launching /\ v # w =>
                 /\ task'[v].gen # task'[w].gen
                 /\ task'[v].op < task'[w].op => task'[v].gen < task'[w].gen
        <3> SUFFICES ASSUME NEW v \in Task, NEW w \in Task, v # w,
                            task'[v].stage \in Launching, task'[w].stage \in Launching
                     PROVE  /\ task'[v].gen # task'[w].gen
                            /\ task'[v].op < task'[w].op => task'[v].gen < task'[w].gen
            OBVIOUS
        <3>1. CASE v = t
            BY <1>2, <1>3, <1>4, <1>7, <3>1
        <3>2. CASE w = t
            BY <1>2, <1>3, <1>4, <1>7, <3>2
        <3>3. CASE v # t /\ w # t
            BY <1>4, <3>3 DEF GenInv, GensOK
        <3> QED BY <3>1, <3>2, <3>3
    <2> QED BY <2>1, <2>2, <2>3 DEF GensOK
<1>9. ActiveOK'
    BY DEF ActiveOK
<1>10. BindOK'
    BY <1>3, <1>4 DEF GenInv, BindOK
<1> QED BY <1>5, <1>6, <1>8, <1>9, <1>10 DEF GenInv

\* So does the end of a stop.
LEMMA StoppedKeeps == ASSUME GenInv, Stopped PROVE GenInv'
<1>0. User \in Task /\ active.gen = 0 /\ \A v \in Task : ~Current(v)
    BY DEF Task, Stopped, GenInv, CurrentOK
<1>1. CASE wish = NoRoom
    <2>1. task' = [task EXCEPT ![User] = IdleTask]
        BY <1>1 DEF Stopped
    <2>2. IdleTask \in TaskType /\ IdleTask.stage = "idle"
        BY RoomGenerationsAssumption DEF IdleTask, TaskType, TaskStage
    <2> QED BY <1>0, <1>1, <2>1, <2>2, Stages, UsedKept, MoveKeeps DEF Stopped
<1>2. CASE wish # NoRoom
    BY <1>0, <1>2, LaunchKeeps DEF Stopped
<1> QED BY <1>1, <1>2

\* The failed room's recovery is the one task of the current operation.
LEMMA FailKeeps == ASSUME GenInv, Fail PROVE GenInv'
<1> DEFINE t == used.failures + 1
           u == [stage |-> "joining", room |-> active.room, op |-> active.op,
                 gen |-> active.gen, attempt |-> 1]
<1>1. /\ active.gen # 0 /\ used.failures < MaxFailures
      /\ used' = [used EXCEPT !.failures = @ + 1]
      /\ task' = [task EXCEPT ![t] = u]
      /\ active' = NoActive
      /\ UNCHANGED <<op, wish, perf, nextGen, loops>>
    BY DEF Fail
<1>2. t \in Task /\ t # User /\ User \in Task
    BY <1>1, RoomGenerationsAssumption DEF Task, Recovery, User, GenInv, Shape
<1>3. u \in TaskType /\ u.stage = "joining" /\ u.op = op /\ u.room = wish
    BY <1>1, RoomGenerationsAssumption
    DEF GenInv, Shape, ActiveOK, TaskType, TaskStage
<1> HIDE DEF t, u
<1>4. task \in [Task -> TaskType] /\ \A v \in Task : task'[v] = IF v = t THEN u ELSE task[v]
    BY <1>1 DEF GenInv, Shape
<1>5. \A v \in Task : ~Current(v) /\ task[User].stage # "stopping"
    BY <1>1 DEF GenInv, CurrentOK
<1>6. Shape'
    BY <1>1, <1>2, <1>3, <1>4, RoomGenerationsAssumption DEF GenInv, Shape, NoActive
<1>7. CurrentOK'
    <2>1. \A v \in Task : Current(v)' => v = t
        BY <1>1, <1>4, <1>5 DEF Current
    <2>2. \A v \in Task : task'[v].stage \in Pending => task'[v].op <= op'
        BY <1>1, <1>3, <1>4 DEF GenInv, CurrentOK, Shape
    <2>3. task'[User].stage # "stopping" /\ active'.gen = 0
        BY <1>1, <1>2, <1>4, <1>5 DEF NoActive
    <2> QED BY <1>1, <1>3, <1>4, <2>1, <2>2, <2>3 DEF CurrentOK
<1>8. GensOK'
    BY <1>1, <1>3, <1>4, Stages DEF GenInv, GensOK
<1>9. ActiveOK' /\ BindOK'
    BY <1>1, <1>3, <1>4 DEF GenInv, ActiveOK, BindOK, NoActive
<1> QED BY <1>6, <1>7, <1>8, <1>9 DEF GenInv

\* The end of an older generation does not touch the controls of a younger one.
LEMMA EndLoopsKeeps == ASSUME GenInv, NEW g \in Gen, EndLoops(g) PROVE GenInv'
<1>1. /\ g \in loops /\ g # active.gen
      /\ loops' = loops \ {g}
      /\ perf' = IF perf = g THEN 0 ELSE perf
      /\ UNCHANGED <<op, wish, active, nextGen, task, used>>
    BY DEF EndLoops
<1>2. Shape'
    BY <1>1 DEF GenInv, Shape
<1>3. CurrentOK'
    BY <1>1 DEF GenInv, CurrentOK, Current
<1>4. GensOK'
    BY <1>1 DEF GenInv, GensOK
<1>5. ActiveOK'
    BY <1>1 DEF GenInv, ActiveOK
<1>6. BindOK'
    BY <1>1, Stages DEF GenInv, BindOK, GensOK
<1> QED BY <1>2, <1>3, <1>4, <1>5, <1>6 DEF GenInv

\* The invariant speaks of these variables alone.
LEMMA QuietKeeps ==
    ASSUME GenInv, UNCHANGED <<op, wish, active, perf, nextGen, loops, task, used>>
    PROVE  GenInv'
BY DEF GenInv, Shape, CurrentOK, Current, GensOK, ActiveOK, BindOK

\* A recovery that has joined keeps the invariant.
LEMMA JoinedKeeps == ASSUME GenInv, NEW t \in Recovery, Joined(t) PROVE GenInv'
<1> DEFINE u == [task[t] EXCEPT !.stage = "waiting"]
<1>1. t \in Task /\ task[t] \in TaskType
    BY DEF Task, GenInv, Shape
<1>2. u \in TaskType /\ u.stage = "waiting" /\ u.op = task[t].op /\ u.room = task[t].room
    BY <1>1, Stages DEF TaskType, TaskStage
<1>3. task' = [task EXCEPT ![t] = u] /\ task[t].stage \in Pending
    BY Stages DEF Joined, Pending
<1> HIDE DEF u
<1> QED BY <1>1, <1>2, <1>3, Stages, UsedKept, MoveKeeps DEF Joined

\* A recovery goes on only for the operation of the last command.
LEMMA RetryKeeps == ASSUME GenInv, NEW t \in Recovery, Retry(t) PROVE GenInv'
<1>1. t \in Task /\ task[t] \in TaskType /\ task[t].stage = "waiting"
    BY DEF Task, GenInv, Shape, Retry
<1>2. CASE op = task[t].op /\ active.gen = 0
    <2>1. Current(t)
        BY <1>1, <1>2 DEF Current, Pending
    <2>2. task[t].room = wish /\ task[User].stage # "stopping" /\ \A v \in Task : Current(v) => v = t
        BY <1>1, <2>1 DEF GenInv, CurrentOK
    <2>3. Launch(t, wish, op)
        BY <1>2, <2>2 DEF Retry
    <2> QED BY <1>1, <1>2, <2>2, <2>3, LaunchKeeps DEF Retry
<1>3. CASE ~(op = task[t].op /\ active.gen = 0)
    <2> DEFINE u == [task[t] EXCEPT !.stage = "done"]
    <2>1. u \in TaskType /\ u.stage = "done"
        BY <1>1 DEF TaskType, TaskStage
    <2>2. task' = [task EXCEPT ![t] = u]
        BY <1>3 DEF Retry
    <2> HIDE DEF u
    <2> QED BY <1>1, <1>3, <2>1, <2>2, Stages, UsedKept, MoveKeeps DEF Retry
<1> QED BY <1>2, <1>3

\* The host starts in the invariant.
LEMMA InitGen == ASSUME GenerationsInit PROVE GenInv
<1>1. IdleTask \in TaskType /\ IdleTask.stage = "idle"
    BY RoomGenerationsAssumption DEF IdleTask, TaskType, TaskStage
<1>2. task \in [Task -> TaskType] /\ \A t \in Task : task[t].stage = "idle"
    BY <1>1 DEF GenerationsInit, Task
<1> QED BY <1>2, Stages, RoomGenerationsAssumption
    DEF GenerationsInit, NoActive, GenInv, Shape, CurrentOK, Current, GensOK, ActiveOK, BindOK

\* Every step of the generations keeps the invariant.
LEMMA NextGen == ASSUME GenInv, [GenerationsNext]_generationVars PROVE GenInv'
<1>1. ASSUME NEW t \in {User} \cup Recovery,
             Acquire(t) \/ OpenFails(t) \/ Opened(t) \/ BindFails(t) \/ Bound(t)
      PROVE  GenInv'
    BY <1>1, AcquireKeeps, OpenFailsKeeps, OpenedKeeps, BindFailsKeeps, BoundKeeps DEF Task
<1>2. ASSUME NEW room \in Room \cup {NoRoom}, Command(room) PROVE GenInv'
    BY <1>2, CommandKeeps
<1>3. ASSUME NEW t \in Recovery, Joined(t) \/ Retry(t) PROVE GenInv'
    BY <1>3, JoinedKeeps, RetryKeeps
<1>4. ASSUME NEW g \in Gen, EndLoops(g) \/ Release(g) PROVE GenInv'
    BY <1>4, EndLoopsKeeps, QuietKeeps DEF Release
<1>5. CASE UNCHANGED generationVars
    BY <1>5, QuietKeeps DEF generationVars
<1> QED BY <1>1, <1>2, <1>3, <1>4, <1>5, StoppedKeeps, FailKeeps DEF GenerationsNext

\* The inductive invariant of the generations of a room (activate_generation,
\* launch_stable and their recoveries) holds in every behaviour.
THEOREM GenInvariant == GenerationsSpec => []GenInv
<1> QED BY InitGen, NextGen, PTL DEF GenerationsSpec

\* The host is only ever in the room of the last enter or leave: room_operation is
\* compared before a launch installs, and a recovery launches only for its own
\* operation (launch_room, recover_room).
THEOREM HostIsInTheWishedRoom == GenerationsSpec => []RoomIsTheWish
<1>1. GenInv => RoomIsTheWish
    BY DEF GenInv, ActiveOK, RoomIsTheWish
<1> QED BY <1>1, GenInvariant, PTL

\* The feedback table belongs to the worker of the active room: generations grow
\* with operations, so install_performance_generation refuses every superseded
\* launch, and only an older generation is ever invalidated.
THEOREM ControlsFollowTheRoom == GenerationsSpec => []FeedbackFollowsRoom
<1>1. GenInv => FeedbackFollowsRoom
    BY DEF GenInv, ActiveOK, FeedbackFollowsRoom
<1> QED BY <1>1, GenInvariant, PTL

-----------------------------------------------------------------------------
(***************************************************************************)
(* Generations never run out.  Each is spent on a launch of its own: one   *)
(* of a command, or one attempt of a recovery.  The numbers issued are     *)
(* bounded by the launches spent, these by the launches there can be.      *)
(***************************************************************************)

CommandLaunches == {User} \X (1 .. MaxCommands)

RecoveryLaunches == Recovery \X (1 .. Attempts)

\* The launches a behaviour can have, by the task and its number there.
Labels == CommandLaunches \cup RecoveryLaunches

\* A task that still owes the launch it counts.
Owing == {"stopping", "joining", "waiting"}

Counted(t) == IF t = User THEN used.commands ELSE task[t].attempt

Made(stage, counted) == IF stage \in Owing THEN counted - 1 ELSE counted

Launches(t) == Made(task[t].stage, Counted(t))

Spent == {l \in Labels : l[2] <= Launches(l[1])}

\* An owed launch has been counted, a recovery begins with its failure.
OwingOK ==
    /\ \A t \in Task : task[t].stage \in Owing => Counted(t) >= 1
    /\ \A t \in Recovery : t > used.failures => task[t].stage = "idle" /\ task[t].attempt = 0

IssuedOK ==
    /\ active.gen < nextGen
    /\ perf < nextGen
    /\ \A t \in Task : task[t].gen < nextGen

WorkerOK ==
    worker \in [Gen -> [room : Room \cup {NoRoom},
                        state : {"unused", "live", "terminated", "gone"}]]

CountInv == OwingOK /\ IssuedOK /\ WorkerOK /\ nextGen - 1 <= Cardinality(Spent)

\* There are as many launches as generations.
LEMMA LabelCount ==
    /\ IsFiniteSet(Labels)
    /\ Cardinality(Labels) <= MaxCommands + MaxFailures * Attempts
<1>1. /\ IsFiniteSet({User}) /\ Cardinality({User}) = 1
    BY FS_Singleton
<1>2. /\ IsFiniteSet(1 .. MaxCommands) /\ Cardinality(1 .. MaxCommands) = MaxCommands
      /\ IsFiniteSet(Recovery) /\ Cardinality(Recovery) = MaxFailures
      /\ IsFiniteSet(1 .. Attempts) /\ Cardinality(1 .. Attempts) = Attempts
    BY FS_Interval, RoomGenerationsAssumption DEF Recovery
<1>3. IsFiniteSet(CommandLaunches) /\ Cardinality(CommandLaunches) = MaxCommands
    <2>1. /\ IsFiniteSet(CommandLaunches)
          /\ Cardinality(CommandLaunches) = Cardinality({User}) * Cardinality(1 .. MaxCommands)
        BY <1>1, <1>2, FS_Product DEF CommandLaunches
    <2>2. Cardinality(CommandLaunches) = 1 * MaxCommands
        BY <1>1, <1>2, <2>1
    <2> QED BY <2>1, <2>2, RoomGenerationsAssumption
<1>4. /\ IsFiniteSet(RecoveryLaunches)
      /\ Cardinality(RecoveryLaunches) = MaxFailures * Attempts
    BY <1>2, FS_Product DEF RecoveryLaunches
<1>5. IsFiniteSet(CommandLaunches \cap RecoveryLaunches)
    BY <1>3, FS_Subset
<1>6. Cardinality(CommandLaunches \cap RecoveryLaunches) \in Nat
    BY <1>5, FS_CardinalityType
<1>7. /\ IsFiniteSet(Labels)
      /\ Cardinality(Labels) = Cardinality(CommandLaunches) + Cardinality(RecoveryLaunches)
                                 - Cardinality(CommandLaunches \cap RecoveryLaunches)
    BY <1>3, <1>4, FS_Union DEF Labels
<1> DEFINE n == MaxFailures * Attempts
<1>8. n \in Nat
    BY RoomGenerationsAssumption
<1> HIDE DEF n
<1>9. Cardinality(CommandLaunches) = MaxCommands /\ Cardinality(RecoveryLaunches) = n
    BY <1>3, <1>4, RoomGenerationsAssumption DEF n
<1>10. Cardinality(Labels) <= MaxCommands + n
    BY <1>6, <1>7, <1>8, <1>9, RoomGenerationsAssumption
<1> QED BY <1>7, <1>10 DEF n

\* The launches spent are among them, so every number issued is a generation.
LEMMA SpentCount ==
    /\ IsFiniteSet(Spent)
    /\ Cardinality(Spent) \in Nat
    /\ Cardinality(Spent) <= MaxCommands + MaxFailures * Attempts
<1>1. IsFiniteSet(Spent) /\ Cardinality(Spent) <= Cardinality(Labels)
    BY LabelCount, FS_Subset DEF Spent
<1>2. Cardinality(Spent) \in Nat /\ Cardinality(Labels) \in Nat
    BY <1>1, LabelCount, FS_CardinalityType
<1> DEFINE n == MaxFailures * Attempts
<1>3. n \in Nat
    BY RoomGenerationsAssumption
<1>4. Cardinality(Labels) <= MaxCommands + n
    BY LabelCount
<1> HIDE DEF n
<1>5. Cardinality(Spent) <= MaxCommands + n
    BY <1>1, <1>2, <1>3, <1>4, RoomGenerationsAssumption
<1> QED BY <1>1, <1>2, <1>5 DEF n

\* The same of the next state.
LEMMA SpentCountNext == IsFiniteSet(Spent') /\ Cardinality(Spent') \in Nat
<1>1. IsFiniteSet(Labels')
    BY LabelCount DEF Labels, CommandLaunches, RecoveryLaunches, Recovery, User
<1>2. IsFiniteSet(Spent')
    BY <1>1, FS_Subset DEF Spent
<1> QED BY <1>2, FS_CardinalityType

\* No task takes a launch back, so no step forgets one.
LEMMA SpentGrows ==
    ASSUME GenInv, GenInv', \A t \in Task : Launches(t) <= Launches(t)'
    PROVE  Spent \subseteq Spent'
<1>1. \A t \in Task : Launches(t) \in Int /\ Launches(t)' \in Int
    BY DEF GenInv, Shape, TaskType, Launches, Made, Counted
<1>2. \A l \in Labels : l[1] \in Task /\ l[2] \in Int
    BY DEF Labels, CommandLaunches, RecoveryLaunches, Task
<1>3. Labels' = Labels
    BY DEF Labels, CommandLaunches, RecoveryLaunches, Recovery, User
<1>4. ASSUME NEW l \in Spent PROVE l \in Spent'
    <2>1. l \in Labels /\ l[2] <= Launches(l[1])
        BY DEF Spent
    <2>2. l[2] <= Launches(l[1])'
        BY <1>1, <1>2, <2>1
    <2> QED BY <1>3, <2>1, <2>2 DEF Spent
<1> QED BY <1>4

\* A step that launches nothing: the task that moves keeps its generation or
\* names an older one, and keeps the launches it has counted.
LEMMA MoveCounts ==
    ASSUME GenInv, GenInv', CountInv, NEW t \in Task, NEW u \in TaskType,
           task' = [task EXCEPT ![t] = u],
           u.gen < nextGen, active'.gen < nextGen, perf' < nextGen, nextGen' = nextGen,
           t \in Recovery => t <= used'.failures,
           t = User => used'.commands >= 1 \/ u.stage \notin Owing,
           u.stage \in Owing /\ t # User => u.attempt >= 1,
           t = User => Launches(t) <= Made(u.stage, used'.commands),
           t # User => Launches(t) <= Made(u.stage, u.attempt),
           used'.commands >= used.commands, used'.failures >= used.failures,
           WorkerOK'
    PROVE  CountInv'
<1>0. task \in [Task -> TaskType] /\ \A v \in Task : task'[v] = IF v = t THEN u ELSE task[v]
    BY DEF GenInv, Shape
<1>1. /\ used.commands \in Nat /\ used'.commands \in Nat
      /\ used.failures \in Nat /\ used'.failures \in Nat
      /\ MaxFailures \in Nat
    BY RoomGenerationsAssumption DEF GenInv, Shape
<1>2. OwingOK'
    <2>1. ASSUME NEW v \in Task, task'[v].stage \in Owing PROVE Counted(v)' >= 1
        <3>1. CASE v = t /\ v = User
            BY <1>0, <2>1, <3>1 DEF Counted, Owing
        <3>2. CASE v = t /\ v # User
            BY <1>0, <2>1, <3>2 DEF Counted
        <3>3. CASE v # t
            <4>1. task'[v] = task[v] /\ Counted(v) >= 1
                BY <1>0, <2>1, <3>3 DEF CountInv, OwingOK
            <4> QED BY <1>1, <4>1 DEF Counted
        <3> QED BY <3>1, <3>2, <3>3
    <2>2. ASSUME NEW v \in Recovery, v > used'.failures
          PROVE  task'[v].stage = "idle" /\ task'[v].attempt = 0
        <3>1. v \in Task /\ v \in Nat /\ v > used.failures
            BY <1>1, <2>2 DEF Task, Recovery
        <3>2. v # t
            BY <1>1, <2>2, <3>1
        <3> QED BY <1>0, <3>1, <3>2, <2>2 DEF CountInv, OwingOK
    <2> QED BY <2>1, <2>2 DEF OwingOK, Task, Recovery, User, Owing
<1>3. IssuedOK'
    BY <1>0 DEF CountInv, IssuedOK
<1>4. \A v \in Task : Launches(v) <= Launches(v)'
    <2> TAKE v \in Task
    <2>1. CASE v = t
        BY <1>0, <2>1 DEF Launches, Counted
    <2>2. CASE v # t
        BY <1>0, <1>1, <2>2 DEF Launches, Made, Counted, TaskType
    <2> QED BY <2>1, <2>2
<1>5. Cardinality(Spent) <= Cardinality(Spent')
    BY <1>4, SpentGrows, SpentCountNext, FS_Subset
<1>6. nextGen' - 1 <= Cardinality(Spent')
    BY <1>5, SpentCount, SpentCountNext DEF CountInv, GenInv, Shape
<1> QED BY <1>2, <1>3, <1>6 DEF CountInv

\* A launch takes the next generation, and is one no task had spent.
LEMMA LaunchCounts ==
    ASSUME GenInv, GenInv', CountInv, NEW t \in Task, task[t].stage \in Owing,
           NEW room, NEW o, Launch(t, room, o),
           UNCHANGED <<active, perf, worker, used>>
    PROVE  CountInv'
<1> DEFINE u == [task[t] EXCEPT !.stage = "start", !.room = room, !.op = o, !.gen = nextGen]
           l == <<t, Counted(t)>>
<1>0. /\ task \in [Task -> TaskType]
      /\ \A v \in Task : task'[v] = IF v = t THEN u ELSE task[v]
    BY DEF GenInv, Shape, Launch
<1>1. /\ used.commands \in 0 .. MaxCommands /\ task[t].attempt \in 0 .. Attempts
      /\ u.gen = nextGen /\ u.stage = "start" /\ u.attempt = task[t].attempt
      /\ nextGen \in Nat /\ nextGen' = nextGen + 1
      /\ MaxCommands \in Nat /\ Attempts \in Nat
    BY <1>0, RoomGenerationsAssumption DEF GenInv, Shape, TaskType, Launch
<1> HIDE DEF u
<1>2. l \in Labels /\ Counted(t) \in Nat /\ Counted(t) >= 1
    BY <1>1 DEF CountInv, OwingOK, Counted, Labels, CommandLaunches, RecoveryLaunches, Task
<1>3. \A v \in Task : Launches(v) \in Int /\ Launches(v) <= Launches(v)'
    BY <1>0, <1>1 DEF Launches, Made, Counted, GenInv, Shape, TaskType, Owing
<1>4. Launches(t) = Counted(t) - 1 /\ Launches(t)' = Counted(t)
    BY <1>0, <1>1 DEF Launches, Made, Counted, Owing
<1>5. l \notin Spent
    BY <1>2, <1>4 DEF Spent
<1>6. l \in Spent'
    BY <1>2, <1>4 DEF Spent, Labels, CommandLaunches, RecoveryLaunches, Recovery, User
<1>7. Spent \cup {l} \subseteq Spent'
    BY <1>3, <1>6, SpentGrows
<1>8. /\ IsFiniteSet(Spent \cup {l})
      /\ Cardinality(Spent \cup {l}) = Cardinality(Spent) + 1
    BY <1>5, SpentCount, FS_AddElement
<1>9. Cardinality(Spent) + 1 <= Cardinality(Spent')
    BY <1>7, <1>8, SpentCountNext, FS_Subset
<1>10. nextGen' - 1 <= Cardinality(Spent')
    BY <1>1, <1>9, SpentCount, SpentCountNext DEF CountInv
<1>11. OwingOK'
    BY <1>0, <1>1 DEF CountInv, OwingOK, Counted, Task, Recovery, User, Owing
<1>12. IssuedOK'
    BY <1>0, <1>1 DEF CountInv, IssuedOK, GenInv, Shape, TaskType
<1> QED BY <1>10, <1>11, <1>12 DEF CountInv, WorkerOK, Gen

\* A step that moves no task and issues no generation.
LEMMA QuietCounts ==
    ASSUME GenInv, GenInv', CountInv, UNCHANGED <<task, nextGen, used>>, WorkerOK',
           active'.gen < nextGen, perf' < nextGen
    PROVE  CountInv'
<1>1. User \in Task /\ task[User] \in TaskType /\ task' = [task EXCEPT ![User] = task[User]]
    BY DEF GenInv, Shape, Task
<1>2. used.commands \in Int /\ used.failures \in Int
    BY DEF GenInv, Shape
<1>3. task[User].stage \in Owing => used.commands >= 1
    BY <1>1 DEF CountInv, OwingOK, Counted
<1>4. Launches(User) <= Made(task[User].stage, used'.commands) /\ User \notin Recovery
    BY <1>2 DEF Launches, Made, Counted, Recovery, User
<1>5. task[User].gen < nextGen
    BY <1>1 DEF CountInv, IssuedOK
<1>6. /\ nextGen' = nextGen
      /\ used'.commands >= 1 \/ task[User].stage \notin Owing
      /\ used'.commands >= used.commands /\ used'.failures >= used.failures
    BY <1>2, <1>3, <1>4
<1> QED BY <1>1, <1>4, <1>5, <1>6, MoveCounts

\* A recovery that has begun has been counted as a failure.
LEMMA BegunCounted ==
    ASSUME GenInv, CountInv, NEW t \in Recovery, task[t].stage # "idle"
    PROVE  t <= used.failures
BY DEF CountInv, OwingOK, GenInv, Shape, Recovery

\* A launch that goes on, or fails and owes its next attempt.
LEMMA LaunchingCounts ==
    ASSUME GenInv, GenInv', CountInv, NEW t \in Task, task[t].stage \in Launching,
           NEW u, task' = [task EXCEPT ![t] = u],
           \/ u = LaunchFailed(t)
           \/ u = Launched(t)
           \/ \E s \in Launching : u = [task[t] EXCEPT !.stage = s],
           active'.gen < nextGen, perf' < nextGen, nextGen' = nextGen,
           used'.commands = used.commands, used'.failures = used.failures,
           WorkerOK'
    PROVE  CountInv'
<1>0. /\ task[t] \in TaskType /\ task'[t] = u /\ u \in TaskType
      /\ task[t].gen \in Nat /\ task[t].attempt \in Nat /\ Attempts \in Nat
      /\ task[t].gen < nextGen /\ nextGen \in Nat /\ 0 < nextGen
      /\ used.commands \in Nat /\ used.failures \in Nat
    BY RoomGenerationsAssumption DEF GenInv, Shape, TaskType, CountInv, IssuedOK
<1>1. /\ task[t].stage \notin Owing /\ task[t].stage # "idle"
      /\ \A s \in Launching : s \notin Owing
    BY DEF Launching, Owing
<1>2. t \in Recovery => t <= used'.failures
    BY <1>1, BegunCounted
<1>3. /\ u.gen < nextGen
      /\ u.stage \in Owing /\ t # User => u.attempt >= 1
      /\ t # User => (IF u.stage \in Owing THEN u.attempt - 1 ELSE u.attempt) = task[t].attempt
      /\ t = User => u.stage \notin Owing
    <2>1. CASE u = LaunchFailed(t)
        BY <1>0, <1>1, <2>1 DEF LaunchFailed, IdleTask, TaskType, Owing
    <2>2. CASE u = Launched(t)
        BY <1>0, <1>1, <2>2 DEF Launched, IdleTask, TaskType, Owing
    <2>3. CASE \E s \in Launching : u = [task[t] EXCEPT !.stage = s]
        BY <1>0, <1>1, <2>3 DEF TaskType, Owing
    <2> QED BY <2>1, <2>2, <2>3
<1>4. /\ t = User => Launches(t) <= Made(u.stage, used'.commands)
      /\ t # User => Launches(t) <= Made(u.stage, u.attempt)
    BY <1>0, <1>1, <1>3 DEF Launches, Made, Counted
<1>5. /\ u.stage \in Owing /\ t # User => u.attempt >= 1
      /\ t = User => used'.commands >= 1 \/ u.stage \notin Owing
      /\ used'.commands >= used.commands /\ used'.failures >= used.failures
    BY <1>0, <1>3
<1> QED BY <1>0, <1>2, <1>3, <1>4, <1>5, MoveCounts

\* What the steps make of a worker.
LEMMA WorkerKept ==
    ASSUME WorkerOK, NEW g, NEW room \in Room \cup {NoRoom},
           NEW s \in {"unused", "live", "terminated", "gone"},
           \/ SetWorker(g, room, s)
           \/ worker' = [worker EXCEPT ![g].state = s]
           \/ UNCHANGED worker
    PROVE  WorkerOK'
BY DEF WorkerOK, SetWorker, Gen

\* A fault counts as neither a command nor a failure.
LEMMA FaultCounted ==
    ASSUME GenInv, UseFault
    PROVE  used'.commands = used.commands /\ used'.failures = used.failures
BY DEF GenInv, Shape, UseFault

\* The steps of a launch count nothing more.
LEMMA LaunchStepsCount ==
    ASSUME GenInv, GenInv', CountInv, NEW t \in Task,
           Acquire(t) \/ OpenFails(t) \/ Opened(t) \/ BindFails(t) \/ Bound(t)
    PROVE  CountInv'
<1>0. /\ task[t].room \in Room \cup {NoRoom} /\ task[t].gen < nextGen
      /\ active.gen < nextGen /\ perf < nextGen /\ WorkerOK
    BY DEF GenInv, Shape, TaskType, CountInv, IssuedOK
<1>1. CASE Acquire(t)
    <2>1. WorkerOK'
        BY <1>0, <1>1, WorkerKept DEF Acquire
    <2>2. CASE Locked(task[t].room)
        BY <1>0, <1>1, <2>1, <2>2, LaunchingCounts, Stages DEF Acquire
    <2>3. CASE ~Locked(task[t].room)
        <3>1. task' = [task EXCEPT ![t] = [task[t] EXCEPT !.stage = "open"]]
            BY <1>1, <2>3 DEF Acquire
        <3> QED BY <1>0, <1>1, <2>1, <3>1, LaunchingCounts, Stages DEF Acquire
    <2> QED BY <2>2, <2>3
<1>2. CASE OpenFails(t)
    <2>1. WorkerOK'
        BY <1>0, <1>2 DEF OpenFails, WorkerOK, Gen
    <2> QED BY <1>0, <1>2, <2>1, FaultCounted, LaunchingCounts, Stages DEF OpenFails
<1>3. CASE Opened(t)
    <2>1. WorkerOK'
        BY <1>0, <1>3 DEF Opened, WorkerOK, Gen
    <2>2. CASE perf > task[t].gen
        BY <1>0, <1>3, <2>1, <2>2, LaunchingCounts, Stages DEF Opened
    <2>3. CASE ~(perf > task[t].gen)
        <3>1. task' = [task EXCEPT ![t] = [task[t] EXCEPT !.stage = "bind"]]
            BY <1>3, <2>3 DEF Opened
        <3> QED BY <1>0, <1>3, <2>1, <2>3, <3>1, LaunchingCounts, Stages DEF Opened
    <2> QED BY <2>2, <2>3
<1>4. CASE BindFails(t)
    <2>1. WorkerOK'
        BY <1>0, <1>4, WorkerKept DEF BindFails, Terminate
    <2> QED BY <1>0, <1>4, <2>1, FaultCounted, LaunchingCounts, Stages DEF BindFails
<1>5. CASE Bound(t)
    <2>1. WorkerOK'
        BY <1>0, <1>5, WorkerKept DEF Bound, Install, Terminate
    <2>2. CASE Install(t)
        <3>1. active'.gen < nextGen
            BY <1>0, <2>2 DEF Install
        <3> QED BY <1>0, <1>5, <2>1, <2>2, <3>1, LaunchingCounts, Stages DEF Bound, Install
    <2>3. CASE ~Install(t)
        BY <1>0, <1>5, <2>1, <2>3, LaunchingCounts, Stages DEF Bound
    <2> QED BY <2>2, <2>3
<1> QED BY <1>1, <1>2, <1>3, <1>4, <1>5

\* A command owes the launch it is counted for.
LEMMA CommandCounts ==
    ASSUME GenInv, GenInv', CountInv, NEW room \in Room \cup {NoRoom}, Command(room)
    PROVE  CountInv'
<1> DEFINE u == [IdleTask EXCEPT !.stage = "stopping", !.gen = active.gen]
<1>1. /\ User \in Task /\ User \notin Recovery
      /\ used.commands \in Nat /\ used.failures \in Nat
      /\ nextGen \in Nat \ {0} /\ active.gen \in Nat
      /\ used'.commands = used.commands + 1 /\ used'.failures = used.failures
    BY DEF Command, GenInv, Shape, Task, Recovery, User
<1>2. u \in TaskType /\ u.stage = "stopping" /\ u.gen = active.gen
    <2>1. IdleTask \in TaskType
        BY RoomGenerationsAssumption DEF IdleTask, TaskType, TaskStage
    <2> QED BY <1>1, <2>1 DEF TaskType, TaskStage
<1>3. task' = [task EXCEPT ![User] = u]
    BY DEF Command
<1>4. active.gen < nextGen /\ perf < nextGen /\ active'.gen < nextGen /\ perf' < nextGen
    BY <1>1 DEF CountInv, IssuedOK, Command, NoActive
<1> HIDE DEF u
<1>5. Launches(User) <= Made(u.stage, used'.commands)
    BY <1>1, <1>2 DEF Command, Launches, Made, Counted, Owing
<1>6. WorkerOK' /\ nextGen' = nextGen
    BY DEF Command, CountInv, WorkerOK, Gen
<1>7. used'.commands >= 1 /\ used'.commands >= used.commands /\ used'.failures >= used.failures
    BY <1>1
<1>8. u.gen < nextGen
    BY <1>2, <1>4
<1> QED BY <1>1, <1>2, <1>3, <1>4, <1>5, <1>6, <1>7, <1>8, MoveCounts

\* The launch a command owes is made once the old tasks are joined, or never.
LEMMA StoppedCounts == ASSUME GenInv, GenInv', CountInv, Stopped PROVE CountInv'
<1>1. /\ User \in Task /\ User \notin Recovery /\ task[User].stage = "stopping"
      /\ task[User].stage \in Owing /\ used' = used /\ UNCHANGED <<active, perf, worker>>
      /\ used.commands \in Nat /\ used.failures \in Nat /\ nextGen \in Nat \ {0}
    BY DEF Stopped, GenInv, Shape, Task, Recovery, User, Owing
<1>2. CASE wish = NoRoom
    <2>1. /\ task' = [task EXCEPT ![User] = IdleTask] /\ nextGen' = nextGen
          /\ active' = active /\ perf' = perf
        BY <1>1, <1>2 DEF Stopped
    <2>2. IdleTask \in TaskType /\ IdleTask.stage \notin Owing /\ IdleTask.gen < nextGen
        BY <1>1, RoomGenerationsAssumption DEF IdleTask, TaskType, TaskStage, Owing
    <2>3. Launches(User) <= Made(IdleTask.stage, used'.commands)
        BY <1>1, <2>2 DEF Launches, Made, Counted
    <2>4. WorkerOK' /\ active'.gen < nextGen /\ perf' < nextGen
        BY <1>1, <2>1 DEF CountInv, WorkerOK, Gen, IssuedOK
    <2>5. used'.commands >= used.commands /\ used'.failures >= used.failures
        BY <1>1
    <2> QED BY <1>1, <2>1, <2>2, <2>3, <2>4, <2>5, MoveCounts
<1>3. CASE wish # NoRoom
    BY <1>1, <1>3, LaunchCounts DEF Stopped
<1> QED BY <1>2, <1>3

\* A failure begins the next recovery, which owes its first attempt.
LEMMA FailCounts == ASSUME GenInv, GenInv', CountInv, Fail PROVE CountInv'
<1> DEFINE t == used.failures + 1
           u == [stage |-> "joining", room |-> active.room, op |-> active.op,
                 gen |-> active.gen, attempt |-> 1]
<1>1. /\ used.commands \in Nat /\ used.failures \in Nat /\ MaxFailures \in Nat
      /\ nextGen \in Nat \ {0} /\ active.gen \in Nat
      /\ used'.commands = used.commands /\ used'.failures = t /\ nextGen' = nextGen
    BY RoomGenerationsAssumption DEF Fail, GenInv, Shape
<1>2. t \in Recovery /\ t \in Task /\ t # User
    BY <1>1 DEF Fail, Recovery, Task, User
<1>3. task[t].stage = "idle" /\ task[t].attempt = 0
    BY <1>1, <1>2 DEF CountInv, OwingOK
<1>4. /\ u \in TaskType /\ u.stage = "joining" /\ u.attempt = 1 /\ u.gen = active.gen
      /\ task' = [task EXCEPT ![t] = u]
    BY RoomGenerationsAssumption DEF Fail, GenInv, Shape, TaskType, TaskStage
<1>5. active.gen < nextGen /\ active'.gen < nextGen /\ perf' < nextGen
    BY <1>1 DEF CountInv, IssuedOK, Fail, NoActive
<1>6. WorkerOK'
    BY DEF CountInv, WorkerOK, Gen, Fail, Terminate
<1>7. t <= used'.failures /\ used'.failures >= used.failures /\ used'.commands >= used.commands
    BY <1>1
<1> HIDE DEF t, u
<1>8. Launches(t) <= Made(u.stage, u.attempt)
    BY <1>2, <1>3, <1>4 DEF Launches, Made, Counted, Owing
<1>9. u.attempt >= 1 /\ u.gen < nextGen
    BY <1>4, <1>5
<1> QED BY <1>1, <1>2, <1>4, <1>5, <1>6, <1>7, <1>8, <1>9, MoveCounts

\* A recovery that has joined its room's tasks waits with the launch it owes; it
\* launches, or gives the launch up.
LEMMA RecoveryCounts ==
    ASSUME GenInv, GenInv', CountInv, NEW t \in Recovery, Joined(t) \/ Retry(t)
    PROVE  CountInv'
<1>1. /\ t \in Task /\ t # User /\ task[t] \in TaskType /\ task[t].attempt \in Nat
      /\ task[t].stage \in {"joining", "waiting"} /\ task[t].stage \in Owing
      /\ task[t].stage # "idle"
      /\ used.commands \in Nat /\ used.failures \in Nat
      /\ UNCHANGED <<active, perf, worker, used>>
    BY RoomGenerationsAssumption
    DEF Joined, Retry, GenInv, Shape, Task, TaskType, Recovery, User, Owing
<1>2. task[t].attempt >= 1
    BY <1>1 DEF CountInv, OwingOK, Counted
<1>3. t <= used'.failures /\ used'.commands >= used.commands /\ used'.failures >= used.failures
    BY <1>1, BegunCounted
<1>4. WorkerOK' /\ active'.gen < nextGen /\ perf' < nextGen /\ task[t].gen < nextGen
    BY <1>1 DEF CountInv, WorkerOK, Gen, IssuedOK
<1>5. ASSUME NEW s \in {"waiting", "done"}, nextGen' = nextGen,
             task' = [task EXCEPT ![t] = [task[t] EXCEPT !.stage = s]]
      PROVE  CountInv'
    <2> DEFINE u == [task[t] EXCEPT !.stage = s]
    <2>1. u \in TaskType /\ u.stage = s /\ u.attempt = task[t].attempt /\ u.gen = task[t].gen
        BY <1>1 DEF TaskType, TaskStage
    <2>2. task' = [task EXCEPT ![t] = u]
        BY <1>5
    <2> HIDE DEF u
    <2>3. Launches(t) <= Made(u.stage, u.attempt)
        BY <1>1, <2>1 DEF Launches, Made, Counted
    <2>4. u.attempt >= 1 /\ u.gen < nextGen
        BY <1>2, <1>4, <2>1
    <2> QED BY <1>1, <1>3, <1>4, <1>5, <2>1, <2>2, <2>3, <2>4, MoveCounts
<1>6. CASE Joined(t)
    BY <1>5, <1>6 DEF Joined
<1>7. CASE Retry(t) /\ op = task[t].op /\ active.gen = 0
    BY <1>1, <1>7, LaunchCounts DEF Retry
<1>8. CASE Retry(t) /\ ~(op = task[t].op /\ active.gen = 0)
    BY <1>5, <1>8 DEF Retry
<1> QED BY <1>6, <1>7, <1>8

\* The end of a generation and of its lock count nothing.
LEMMA EndsCount ==
    ASSUME GenInv, GenInv', CountInv, NEW g \in Gen, EndLoops(g) \/ Release(g)
    PROVE  CountInv'
<1>1. WorkerOK'
    BY DEF EndLoops, Release, CountInv, WorkerOK, Gen
<1>2. active'.gen < nextGen /\ perf' < nextGen
    BY DEF EndLoops, Release, CountInv, IssuedOK, GenInv, Shape
<1> QED BY <1>1, <1>2, QuietCounts DEF EndLoops, Release

\* No launch has been spent at the start, and no generation issued.
LEMMA InitCount == ASSUME GenerationsInit PROVE CountInv
<1>1. \A t \in Task : task[t] = IdleTask
    BY DEF GenerationsInit, Task
<1>2. OwingOK
    BY <1>1 DEF OwingOK, IdleTask, Owing, Task
<1>3. IssuedOK
    BY <1>1 DEF GenerationsInit, IssuedOK, IdleTask, NoActive
<1>4. WorkerOK
    BY DEF GenerationsInit, WorkerOK
<1> QED BY <1>2, <1>3, <1>4, SpentCount DEF GenerationsInit, CountInv

\* Every step of the generations keeps the count.
LEMMA NextCount ==
    ASSUME GenInv, GenInv', CountInv, [GenerationsNext]_generationVars
    PROVE  CountInv'
<1>1. ASSUME NEW t \in {User} \cup Recovery,
             Acquire(t) \/ OpenFails(t) \/ Opened(t) \/ BindFails(t) \/ Bound(t)
      PROVE  CountInv'
    BY <1>1, LaunchStepsCount DEF Task
<1>2. CASE UNCHANGED generationVars
    BY <1>2, QuietCounts DEF generationVars, CountInv, IssuedOK, WorkerOK, Gen
<1> QED BY <1>1, <1>2, CommandCounts, StoppedCounts, FailCounts, RecoveryCounts, EndsCount
    DEF GenerationsNext

\* The state of HostState and its tasks is typed, and generations never run out:
\* a command launches at most once, and a recovery at most once for each entry of
\* REOPEN_BACKOFF_MS, so no failure starts an endless series of openings.
THEOREM GenerationsTypeCorrect == GenerationsSpec => []GenerationsTypeOK
<1>1. GenerationsInit => GenInv /\ CountInv
    BY InitGen, InitCount
<1>2. GenInv /\ CountInv /\ [GenerationsNext]_generationVars => GenInv' /\ CountInv'
    BY NextGen, NextCount
<1>3. ASSUME GenInv, CountInv PROVE GenerationsTypeOK
    <2> DEFINE top == MaxCommands + MaxFailures * Attempts
    <2>1. nextGen \in Nat \ {0} /\ nextGen - 1 <= Cardinality(Spent)
        BY <1>3 DEF GenInv, Shape, CountInv
    <2>2. Cardinality(Spent) \in Nat /\ Cardinality(Spent) <= top
        BY SpentCount
    <2>3. top \in Nat
        BY RoomGenerationsAssumption
    <2>4. Gen = 1 .. top
        BY DEF Gen
    <2> HIDE DEF top
    <2>5. nextGen - 1 <= top
        BY <2>1, <2>2, <2>3
    <2>6. \A g \in Nat : g < nextGen => g \in Gen \cup {0}
        BY <2>1, <2>3, <2>4, <2>5
    <2>7. 1 .. nextGen - 1 \subseteq Gen
        BY <2>1, <2>3, <2>4, <2>5
    <2>8. active \in [gen : Gen \cup {0}, room : Room \cup {NoRoom}, op : 0 .. MaxCommands]
        BY <1>3, <2>6 DEF GenInv, Shape, CountInv, IssuedOK
    <2>9. perf \in Gen \cup {0} /\ loops \in SUBSET Gen
        BY <1>3, <2>6, <2>7 DEF GenInv, Shape, GensOK, CountInv, IssuedOK
    <2>10. ASSUME NEW t \in Task
           PROVE  task[t] \in [stage : TaskStage, room : Room \cup {NoRoom},
                                op : 0 .. MaxCommands, gen : Gen \cup {0}, attempt : 0 .. Attempts]
        <3>1. task[t] \in TaskType /\ task[t].gen < nextGen
            BY <1>3 DEF GenInv, Shape, CountInv, IssuedOK
        <3> QED BY <2>6, <3>1 DEF TaskType
    <2> QED BY <1>3, <2>8, <2>9, <2>10 DEF GenerationsTypeOK, GenInv, Shape, CountInv,
                                         WorkerOK, Task
<1> QED BY <1>1, <1>2, <1>3, PTL DEF GenerationsSpec
-----------------------------------------------------------------------------
(***************************************************************************)
(* Proofs about PerformanceFeedback: types and the capacity of the table,  *)
(* that nothing but a full table refuses a press, and that an outcome      *)
(* releases exactly its own press, for every number of controls, presses,  *)
(* generations and slots.                                                  *)
(*                                                                         *)
(* The argument follows a token through the system: it is issued once, the *)
(* press it names is in one place at a time on its way to an outcome, and  *)
(* a slot of the table holds that same press.                              *)
(***************************************************************************)

\* The four places of a press whose outcome is still to come.
Queued == {presses[i] : i \in 1 .. Len(presses)}

Sent == {submitted.press[i] : i \in 1 .. Len(submitted.press)}

Editing == {w.press : w \in edits}

Answered == {m.press : m \in outcomes}

\* The generations of the host and the table: an active room runs the last
\* generation opened, and a room that ends is no longer active.
HostOK ==
    /\ host.generation \in {0, opened}
    /\ host.active # 0 => host.active = opened /\ host.generation = opened
    /\ host.active # 0 => host.ending = 0
    /\ table.generation = opened
    /\ table.high <= host.sequence

\* A slot belongs to the table's generation and is not newer than its last press.
SlotsOK ==
    /\ IsFiniteSet(table.slots)
    /\ \A s \in table.slots : s.token.generation = opened /\ s.token.sequence <= table.high

\* Tokens are issued once, and a slot names the press it was taken for.
TokensOK ==
    /\ \A a \in Intents \cup table.slots :
          /\ a.token.generation <= opened
          /\ a.token.generation = opened => a.token.sequence <= host.sequence
    /\ \A a, b \in Intents \cup table.slots : a.token = b.token => a = b

\* A press is in one place at a time, once.
PlacesOK ==
    /\ Queued \cap Sent = {} /\ Queued \cap Editing = {} /\ Queued \cap Answered = {}
    /\ Sent \cap Editing = {} /\ Sent \cap Answered = {} /\ Editing \cap Answered = {}
    /\ \A i, j \in 1 .. Len(presses) : presses[i] = presses[j] => i = j
    /\ \A e, f \in edits : e.press = f.press => e = f
    /\ \A m, n \in outcomes : m.press = n.press => m = n

FeedbackInv == FeedbackTypeOK /\ HostOK /\ SlotsOK /\ TokensOK /\ PlacesOK

-----------------------------------------------------------------------------

(***************************************************************************)
(* The places of a press.                                                  *)
(***************************************************************************)

\* Every press on its way, and every press in the table, is a slot's worth.
LEMMA PlacesShape ==
    ASSUME FeedbackTypeOK
    PROVE  /\ Queued \subseteq Slot /\ Sent \subseteq Slot
           /\ Editing \subseteq Slot /\ Answered \subseteq Slot
           /\ table.slots \subseteq Slot
           /\ Intents = Queued \cup Sent \cup Editing \cup Answered
<1>1. Queued \subseteq Slot
  BY DEF FeedbackTypeOK, Queued
<1>2. Sent \subseteq Slot
  <2>1. CASE submitted = NoSubmission
    BY <2>1 DEF NoSubmission, Sent
  <2>2. CASE submitted \in [press : {<<s>> : s \in Slot}, room : 1 .. MaxGeneration]
    BY <2>2 DEF Sent
  <2> QED
    BY <2>1, <2>2 DEF FeedbackTypeOK
<1>3. Editing \subseteq Slot /\ Answered \subseteq Slot /\ table.slots \subseteq Slot
  BY DEF FeedbackTypeOK, Editing, Answered
<1> QED
  BY <1>1, <1>2, <1>3 DEF Intents, Queued, Sent, Editing, Answered

\* The same of the next state.
LEMMA IntentsNext == Intents' = Queued' \cup Sent' \cup Editing' \cup Answered'
  BY DEF Intents, Queued, Sent, Editing, Answered

\* A step that issues no token and opens no generation keeps the tokens' order.
LEMMA NoNewToken ==
    ASSUME TokensOK, Intents' \cup table'.slots \subseteq Intents \cup table.slots,
           opened' = opened, host'.sequence = host.sequence
    PROVE  TokensOK'
  BY DEF TokensOK

\* What the dispatch loop waits for is one press, or none.
LEMMA SentFacts ==
    ASSUME FeedbackTypeOK
    PROVE  /\ submitted = NoSubmission => Sent = {}
           /\ submitted # NoSubmission =>
                 /\ Sent = {submitted.press[1]} /\ submitted.press[1] \in Slot
                 /\ submitted.room \in 1 .. MaxGeneration
<1>1. submitted = NoSubmission => Sent = {}
  BY DEF NoSubmission, Sent
<1>2. ASSUME submitted # NoSubmission
      PROVE  /\ Sent = {submitted.press[1]} /\ submitted.press[1] \in Slot
             /\ submitted.room \in 1 .. MaxGeneration
  <2>1. submitted \in [press : {<<s>> : s \in Slot}, room : 1 .. MaxGeneration]
    BY <1>2 DEF FeedbackTypeOK
  <2>2. PICK s \in Slot : submitted.press = <<s>>
    BY <2>1
  <2>3. Len(submitted.press) = 1 /\ submitted.press[1] = s
    BY <2>2
  <2>4. 1 .. 1 = {1}
    OBVIOUS
  <2> QED
    BY <2>1, <2>3, <2>4 DEF Sent
<1> QED
  BY <1>1, <1>2

\* A queued press comes last; the press taken was the first.
LEMMA QueueAppend ==
    ASSUME presses \in Seq(Slot), NEW p \in Slot, presses' = Append(presses, p),
           p \notin Queued,
           \A i, j \in 1 .. Len(presses) : presses[i] = presses[j] => i = j
    PROVE  /\ presses' \in Seq(Slot) /\ Len(presses') = Len(presses) + 1
           /\ Queued' = Queued \cup {p}
           /\ \A i, j \in 1 .. Len(presses') : presses'[i] = presses'[j] => i = j
<1>1. /\ presses' \in Seq(Slot) /\ Len(presses) \in Nat /\ Len(presses') = Len(presses) + 1
      /\ \A i \in 1 .. Len(presses) : presses'[i] = presses[i]
      /\ presses'[Len(presses) + 1] = p
  OBVIOUS
<1>2. 1 .. Len(presses') = 1 .. Len(presses) \cup {Len(presses) + 1}
  BY <1>1
<1>3. Queued' = Queued \cup {p}
  BY <1>1, <1>2 DEF Queued
<1>4. ASSUME NEW i \in 1 .. Len(presses'), NEW j \in 1 .. Len(presses'),
             presses'[i] = presses'[j]
      PROVE  i = j
  <2>1. \A k \in 1 .. Len(presses) : presses'[k] # p
    BY <1>1 DEF Queued
  <2> QED
    BY <1>1, <1>2, <1>4, <2>1
<1> QED
  BY <1>1, <1>3, <1>4

\* Taking the first press from a queue without repetitions.
LEMMA QueueTail ==
    ASSUME presses \in Seq(Slot), presses # <<>>, presses' = Tail(presses),
           \A i, j \in 1 .. Len(presses) : presses[i] = presses[j] => i = j
    PROVE  /\ presses' \in Seq(Slot) /\ Len(presses) \in Nat /\ Len(presses') = Len(presses) - 1
           /\ Head(presses) \in Slot /\ Head(presses) \in Queued
           /\ Queued' = Queued \ {Head(presses)}
           /\ \A i, j \in 1 .. Len(presses') : presses'[i] = presses'[j] => i = j
<1>1. /\ presses' \in Seq(Slot) /\ Len(presses) \in Nat \ {0} /\ Len(presses') = Len(presses) - 1
      /\ \A i \in 1 .. Len(presses) - 1 : presses'[i] = presses[i + 1]
      /\ Head(presses) = presses[1] /\ presses[1] \in Slot
  OBVIOUS
<1>2. /\ 1 \in 1 .. Len(presses)
      /\ \A i \in 1 .. Len(presses') : i + 1 \in 1 .. Len(presses) /\ i + 1 # 1
      /\ \A i \in 1 .. Len(presses) :
            i # 1 => i - 1 \in 1 .. Len(presses') /\ (i - 1) + 1 = i
  BY <1>1
<1>3. Queued' \subseteq Queued \ {Head(presses)}
  <2>1. ASSUME NEW i \in 1 .. Len(presses')
        PROVE  presses'[i] \in Queued \ {Head(presses)}
    <3>1. presses'[i] = presses[i + 1] /\ presses[i + 1] # presses[1]
      BY <1>1, <1>2
    <3> QED
      BY <1>1, <1>2, <3>1 DEF Queued
  <2> QED
    BY <2>1 DEF Queued
<1>4. Queued \ {Head(presses)} \subseteq Queued'
  <2>1. ASSUME NEW i \in 1 .. Len(presses), presses[i] # Head(presses)
        PROVE  presses[i] \in Queued'
    <3>1. i - 1 \in 1 .. Len(presses') /\ presses'[i - 1] = presses[i]
      BY <1>1, <1>2, <2>1
    <3> QED
      BY <3>1 DEF Queued
  <2> QED
    BY <2>1 DEF Queued
<1>5. ASSUME NEW i \in 1 .. Len(presses'), NEW j \in 1 .. Len(presses'),
             presses'[i] = presses'[j]
      PROVE  i = j
  <2>1. i + 1 = j + 1
    BY <1>1, <1>2, <1>5
  <2> QED
    BY <1>1, <2>1
<1> QED
  BY <1>1, <1>2, <1>3, <1>4, <1>5 DEF Queued

(***************************************************************************)
(* The table.                                                              *)
(***************************************************************************)

\* What OutcomeIsExact says of a step.
Exact ==
    \A s \in table.slots \ table'.slots :
       \/ s \notin Intents'
       \/ \E r \in table'.slots : r.target = s.target /\ r.token.sequence > s.token.sequence
       \/ <<host'.generation, host'.active>> # <<host.generation, host.active>>
       \/ /\ presses' = presses
          /\ submitted' # submitted => submitted.room = host.active
          /\ \A m \in outcomes \ outcomes' : m.outcome = "Reset"

\* Resolving a press and resetting the table only release slots.
LEMMA Releases ==
    ASSUME FeedbackTypeOK, HostOK, SlotsOK, NEW p, NEW g,
           \/ table' = table \/ table' = ResolveSlot(p) \/ table' = Reset(g),
           UNCHANGED opened, host'.sequence = host.sequence
    PROVE  /\ table' \in [generation : 0 .. MaxGeneration, high : 0 .. MaxPresses,
                          slots : SUBSET Slot]
           /\ Cardinality(table'.slots) <= SlotCapacity
           /\ \A s, r \in table'.slots : s.target = r.target => s = r
           /\ table'.generation = opened /\ table'.high = table.high
           /\ table'.slots \subseteq table.slots
           /\ SlotsOK'
<1>1. /\ table \in [generation : 0 .. MaxGeneration, high : 0 .. MaxPresses,
                    slots : SUBSET Slot]
      /\ table.generation = opened
  BY DEF FeedbackTypeOK, HostOK
<1>2. /\ table' \in [generation : 0 .. MaxGeneration, high : 0 .. MaxPresses,
                     slots : SUBSET Slot]
      /\ table'.generation = opened /\ table'.high = table.high
      /\ table'.slots \subseteq table.slots
  <2>1. CASE table' = table
    BY <1>1, <2>1
  <2>2. CASE table' = ResolveSlot(p)
    BY <1>1, <2>2 DEF ResolveSlot
  <2>3. CASE table' = Reset(g)
    BY <1>1, <2>3 DEF Reset
  <2> QED
    BY <2>1, <2>2, <2>3
<1>3. IsFiniteSet(table.slots) /\ Cardinality(table.slots) <= SlotCapacity
  BY DEF SlotsOK, FeedbackTypeOK
<1>4. /\ IsFiniteSet(table'.slots) /\ Cardinality(table'.slots) <= Cardinality(table.slots)
      /\ Cardinality(table'.slots) \in Nat /\ Cardinality(table.slots) \in Nat
  BY <1>2, <1>3, FS_Subset, FS_CardinalityType
<1>5. Cardinality(table'.slots) <= SlotCapacity
  BY <1>3, <1>4, PerformanceFeedbackAssumption
<1>6. \A s, r \in table'.slots : s.target = r.target => s = r
  BY <1>2 DEF FeedbackTypeOK
<1>7. SlotsOK'
  BY <1>2, <1>4 DEF SlotsOK
<1> QED
  BY <1>2, <1>5, <1>6, <1>7

\* Resolving a press releases its own slot and no other: slots and presses
\* with the same token are the same.
LEMMA ResolvesOne ==
    ASSUME FeedbackTypeOK, TokensOK, NEW p \in Intents, table' = ResolveSlot(p)
    PROVE  table.slots \ table'.slots \subseteq {p}
<1>1. table \in [generation : 0 .. MaxGeneration, high : 0 .. MaxPresses, slots : SUBSET Slot]
  BY DEF FeedbackTypeOK
<1>2. table'.slots = {s \in table.slots : s.token # p.token}
  BY <1>1 DEF ResolveSlot
<1> QED
  BY <1>2 DEF TokensOK

\* A new press takes its control's slot over, or a free one.
LEMMA BeginFacts ==
    ASSUME FeedbackTypeOK, HostOK, SlotsOK, NEW p \in Slot, CanBegin(p.token, p.target),
           p.token.sequence > table.high, p.token.generation = opened,
           table' = BeginPress(p.token, p.target), UNCHANGED opened
    PROVE  /\ table' \in [generation : 0 .. MaxGeneration, high : 0 .. MaxPresses,
                          slots : SUBSET Slot]
           /\ Cardinality(table'.slots) <= SlotCapacity
           /\ \A s, r \in table'.slots : s.target = r.target => s = r
           /\ table'.generation = opened /\ table'.high = p.token.sequence
           /\ p \in table'.slots /\ table'.slots \subseteq table.slots \cup {p}
           /\ \A s \in table.slots \ table'.slots :
                 s.target = p.target /\ p.token.sequence > s.token.sequence
           /\ SlotsOK'
<1> DEFINE kept == {s \in table.slots : s.target # p.target}
<1>1. /\ table \in [generation : 0 .. MaxGeneration, high : 0 .. MaxPresses,
                    slots : SUBSET Slot]
      /\ table.generation = opened
  BY DEF FeedbackTypeOK, HostOK
<1>2. p = [token |-> p.token, target |-> p.target]
  BY DEF Slot
<1>3. /\ p.token.sequence \in 1 .. MaxPresses /\ p.token.generation \in 1 .. MaxGeneration
      /\ MaxPresses \in Nat /\ SlotCapacity \in Nat
  BY PerformanceFeedbackAssumption DEF Slot, Token
<1>4. /\ table'.generation = opened /\ table'.high = p.token.sequence
      /\ table'.slots = kept \cup {p}
      /\ table' \in [generation : 0 .. MaxGeneration, high : 0 .. MaxPresses,
                     slots : SUBSET Slot]
  <2>1. table' = [table EXCEPT !.high = p.token.sequence, !.slots = kept \cup {p}]
    BY <1>1, <1>2 DEF BeginPress
  <2>2. kept \cup {p} \in SUBSET Slot /\ p.token.sequence \in 0 .. MaxPresses
    BY <1>1, <1>3
  <2> HIDE DEF kept
  <2> QED
    BY <1>1, <2>1, <2>2
<1>5. IsFiniteSet(kept) /\ kept \subseteq table.slots /\ p \notin kept
  BY FS_Subset DEF SlotsOK
<1>6. /\ IsFiniteSet(table'.slots) /\ Cardinality(table'.slots) = Cardinality(kept) + 1
      /\ Cardinality(kept) \in Nat
  <2> HIDE DEF kept
  <2>1. IsFiniteSet(kept \cup {p}) /\ Cardinality(kept \cup {p}) = Cardinality(kept) + 1
    BY <1>5, FS_AddElement
  <2> QED
    BY <1>4, <1>5, <2>1, FS_CardinalityType
<1>7. Cardinality(kept) + 1 <= SlotCapacity
  <2>1. IsFiniteSet(table.slots) /\ Cardinality(table.slots) \in Nat
        /\ Cardinality(table.slots) <= SlotCapacity
    BY FS_CardinalityType DEF SlotsOK, FeedbackTypeOK
  <2>2. CASE \E s \in table.slots : s.target = p.target
    <3>1. PICK s \in table.slots : s.target = p.target
      BY <2>2
    <3>2. s \notin kept /\ kept \subseteq table.slots \ {s}
      BY <3>1
    <3>3. /\ IsFiniteSet(table.slots \ {s})
          /\ Cardinality(table.slots \ {s}) = Cardinality(table.slots) - 1
      BY <2>1, FS_RemoveElement
    <3>4. Cardinality(kept) <= Cardinality(table.slots \ {s})
      BY <3>2, <3>3, FS_Subset
    <3> QED
      BY <1>3, <1>6, <2>1, <3>3, <3>4
  <2>3. CASE Cardinality(table.slots) < SlotCapacity
    <3>1. Cardinality(kept) <= Cardinality(table.slots)
      BY <1>5, <2>1, FS_Subset
    <3> QED
      BY <1>3, <1>6, <2>1, <2>3, <3>1
  <2> QED
    BY <2>2, <2>3 DEF CanBegin
<1>8. \A s, r \in table'.slots : s.target = r.target => s = r
  BY <1>4 DEF FeedbackTypeOK
<1>9. \A s \in table.slots : s.token.sequence <= table.high /\ s.token.generation = opened
                              /\ s.token.sequence \in Nat
  BY <1>1 DEF SlotsOK, Slot, Token
<1>10. table.high \in Nat
  BY <1>1
<1>11. \A s \in table.slots : p.token.sequence > s.token.sequence
  BY <1>3, <1>9, <1>10
<1>12. SlotsOK'
  BY <1>3, <1>4, <1>6, <1>9, <1>11 DEF SlotsOK
<1> QED
  BY <1>4, <1>6, <1>7, <1>8, <1>11, <1>12

(***************************************************************************)
(* The user and the dispatch loop.                                         *)
(***************************************************************************)

\* A press is refused by a full table, rolled back by a full queue, or queued
\* under a token that nothing else carries.
LEMMA PressKeeps ==
    ASSUME FeedbackInv, NEW target \in Target, Press(target)
    PROVE  FeedbackInv' /\ Exact
<1> DEFINE token == [generation |-> host.generation, sequence |-> host.sequence + 1]
           press == [token |-> token, target |-> target]
<1>1. FeedbackTypeOK /\ HostOK /\ SlotsOK /\ TokensOK /\ PlacesOK
  BY DEF FeedbackInv
<1>2. /\ host.active # 0 /\ host.generation # 0 /\ host.sequence < MaxPresses
      /\ host' = [host EXCEPT !.sequence = @ + 1]
      /\ UNCHANGED <<opened, submitted, edits, outcomes>>
      /\ \/ ~CanBegin(token, target) /\ UNCHANGED <<table, presses>>
         \/ /\ CanBegin(token, target) /\ Len(presses) < QueueCapacity
            /\ table' = BeginPress(token, target) /\ presses' = Append(presses, press)
         \/ CanBegin(token, target) /\ table' = Rollback(token, target) /\ UNCHANGED presses
  BY DEF Press
<1>3. /\ host \in [generation : 0 .. MaxGeneration, sequence : 0 .. MaxPresses,
                   active : 0 .. MaxGeneration, ending : 0 .. MaxGeneration]
      /\ table \in [generation : 0 .. MaxGeneration, high : 0 .. MaxPresses,
                    slots : SUBSET Slot]
      /\ opened \in 0 .. MaxGeneration /\ MaxPresses \in Nat /\ MaxGeneration \in Nat
      /\ QueueCapacity \in Nat
  BY <1>1, PerformanceFeedbackAssumption DEF FeedbackTypeOK
<1>4. host.generation = opened /\ opened # 0 /\ table.high <= host.sequence
  BY <1>1, <1>2 DEF HostOK
<1>5. /\ host' \in [generation : 0 .. MaxGeneration, sequence : 0 .. MaxPresses,
                    active : 0 .. MaxGeneration, ending : 0 .. MaxGeneration]
      /\ host'.sequence = host.sequence + 1 /\ host'.generation = host.generation
      /\ host'.active = host.active /\ host'.ending = host.ending
  BY <1>2, <1>3
<1>6. /\ press \in Slot /\ press.token = token /\ press.target = target
      /\ token.generation = opened /\ token.sequence = host.sequence + 1
  BY <1>2, <1>3, <1>4 DEF Slot, Token
<1> HIDE DEF token, press
<1>7. \A a \in Intents \cup table.slots : a.token # token
  <2>1. \A a \in Intents \cup table.slots :
           a.token.generation = opened => a.token.sequence <= host.sequence
    BY <1>1 DEF TokensOK
  <2>2. ~(host.sequence + 1 <= host.sequence)
    BY <1>3
  <2> QED
    BY <1>6, <2>1, <2>2
<1>8. press \notin Queued /\ press \notin Sent /\ press \notin Editing /\ press \notin Answered
  BY <1>1, <1>6, <1>7, PlacesShape
<1>9. Sent' = Sent /\ Editing' = Editing /\ Answered' = Answered
  BY <1>2 DEF Sent, Editing, Answered
<1>10. ASSUME table' \in [generation : 0 .. MaxGeneration, high : 0 .. MaxPresses,
                           slots : SUBSET Slot],
              table'.generation = opened,
              table'.high \in {table.high, host.sequence + 1}
       PROVE  HostOK'
  <2>1. table.high \in Nat /\ host.sequence \in Nat
    BY <1>3
  <2> QED
    BY <1>1, <1>2, <1>4, <1>5, <1>10, <2>1 DEF HostOK
<1>11. ASSUME Intents' \cup table'.slots \subseteq Intents \cup table.slots \cup {press}
       PROVE  TokensOK'
  <2>1. ASSUME NEW a \in Intents' \cup table'.slots
        PROVE  /\ a.token.generation <= opened'
               /\ a.token.generation = opened' => a.token.sequence <= host'.sequence
    <3>1. CASE a = press
      BY <1>2, <1>3, <1>5, <1>6, <3>1, SMTT(60)
    <3>2. CASE a \in Intents \cup table.slots
      <4>1. /\ a.token.generation <= opened
            /\ a.token.generation = opened => a.token.sequence <= host.sequence
        BY <1>1, <3>2 DEF TokensOK
      <4>2. a.token.sequence \in Nat
        BY <1>1, <3>2, PlacesShape DEF Slot, Token
      <4> QED
        BY <1>2, <1>3, <1>5, <4>1, <4>2, SMTT(60)
    <3> QED
      BY <1>11, <3>1, <3>2
  <2>2. ASSUME NEW a \in Intents' \cup table'.slots, NEW b \in Intents' \cup table'.slots,
               a.token = b.token
        PROVE  a = b
    BY <1>1, <1>6, <1>7, <1>11, <2>2 DEF TokensOK
  <2> QED
    BY <2>1, <2>2 DEF TokensOK
<1>12. CASE /\ presses' = presses
            /\ table' = table \/ table' = Rollback(token, target)
  <2>1. /\ table' \in [generation : 0 .. MaxGeneration, high : 0 .. MaxPresses,
                       slots : SUBSET Slot]
        /\ table'.generation = opened /\ table'.slots = table.slots
        /\ table'.high \in {table.high, host.sequence + 1}
    <3>1. table.generation = opened /\ token.sequence \in 0 .. MaxPresses
      BY <1>1, <1>2, <1>3, <1>6 DEF HostOK
    <3>2. CASE table' = table
      BY <1>3, <3>1, <3>2
    <3>3. CASE table' = Rollback(token, target)
      BY <1>3, <1>6, <3>1, <3>3 DEF Rollback
    <3> QED
      BY <1>12, <3>2, <3>3
  <2>2. Queued' = Queued
    BY <1>12 DEF Queued
  <2>3. Intents' = Intents
    BY <1>1, <1>9, <2>2, IntentsNext, PlacesShape
  <2>4. FeedbackTypeOK'
    BY <1>1, <1>2, <1>5, <1>12, <2>1 DEF FeedbackTypeOK
  <2>5. HostOK' /\ TokensOK'
    BY <1>10, <1>11, <2>1, <2>3
  <2>6. SlotsOK'
    <3>1. \A s \in table.slots : s.token.sequence \in Nat
      BY <1>3 DEF Slot, Token
    <3>2. table.high \in Nat /\ host.sequence \in Nat
      BY <1>3
    <3>3. \A s \in table.slots : s.token.sequence <= table'.high
      BY <1>1, <1>4, <2>1, <3>1, <3>2 DEF SlotsOK
    <3> QED
      BY <1>1, <1>2, <2>1, <3>3 DEF SlotsOK
  <2>7. PlacesOK'
    BY <1>1, <1>2, <1>9, <1>12, <2>2 DEF PlacesOK
  <2> QED
    BY <2>1, <2>4, <2>5, <2>6, <2>7 DEF FeedbackInv, Exact
<1>13. CASE /\ CanBegin(token, target) /\ Len(presses) < QueueCapacity
            /\ table' = BeginPress(token, target) /\ presses' = Append(presses, press)
  <2>1. press.token.sequence > table.high /\ press.token.generation = opened
    BY <1>3, <1>4, <1>6
  <2>2. /\ table' \in [generation : 0 .. MaxGeneration, high : 0 .. MaxPresses,
                       slots : SUBSET Slot]
        /\ Cardinality(table'.slots) <= SlotCapacity
        /\ \A s, r \in table'.slots : s.target = r.target => s = r
        /\ table'.generation = opened /\ table'.high = press.token.sequence
        /\ press \in table'.slots /\ table'.slots \subseteq table.slots \cup {press}
        /\ \A s \in table.slots \ table'.slots :
              s.target = press.target /\ press.token.sequence > s.token.sequence
        /\ SlotsOK'
    BY <1>1, <1>2, <1>6, <1>13, <2>1, BeginFacts
  <2>3. /\ presses' \in Seq(Slot) /\ Len(presses') = Len(presses) + 1
        /\ Queued' = Queued \cup {press}
        /\ \A i, j \in 1 .. Len(presses') : presses'[i] = presses'[j] => i = j
    <3>1. presses \in Seq(Slot)
      BY <1>1 DEF FeedbackTypeOK
    <3>2. \A i, j \in 1 .. Len(presses) : presses[i] = presses[j] => i = j
      BY <1>1 DEF PlacesOK
    <3> QED
      BY <1>6, <1>8, <1>13, <3>1, <3>2, QueueAppend
  <2>4. Intents' = Intents \cup {press}
    BY <1>1, <1>9, <2>3, IntentsNext, PlacesShape
  <2>5. Len(presses') <= QueueCapacity
    <3>1. Len(presses) \in Nat
      BY <1>1 DEF FeedbackTypeOK
    <3> QED
      BY <1>3, <1>13, <2>3, <3>1
  <2>6. FeedbackTypeOK'
    BY <1>1, <1>2, <1>5, <2>2, <2>3, <2>5 DEF FeedbackTypeOK
  <2>7. HostOK'
    BY <1>6, <1>10, <2>2
  <2>8. TokensOK'
    BY <1>11, <2>2, <2>4
  <2>9. PlacesOK'
    <3>1. /\ Queued' \cap Sent' = {} /\ Queued' \cap Editing' = {}
          /\ Queued' \cap Answered' = {}
          /\ Sent' \cap Editing' = {} /\ Sent' \cap Answered' = {}
          /\ Editing' \cap Answered' = {}
      BY <1>1, <1>8, <1>9, <2>3 DEF PlacesOK
    <3>2. /\ \A e, f \in edits' : e.press = f.press => e = f
          /\ \A m, n \in outcomes' : m.press = n.press => m = n
      BY <1>1, <1>2 DEF PlacesOK
    <3> QED
      BY <2>3, <3>1, <3>2 DEF PlacesOK
  <2>10. Exact
    BY <2>2 DEF Exact
  <2> QED
    BY <2>2, <2>6, <2>7, <2>8, <2>9, <2>10 DEF FeedbackInv
<1> QED
  BY <1>2, <1>12, <1>13

\* A step that issues no token moves presses from place to place and may
\* release slots.
LEMMA Moves ==
    ASSUME FeedbackInv, NEW p, NEW g,
           \/ table' = table \/ table' = ResolveSlot(p) \/ table' = Reset(g),
           UNCHANGED <<host, opened>>, Intents' \subseteq Intents, PlacesOK',
           presses' \in Seq(Slot), Len(presses') <= QueueCapacity,
           submitted' \in {NoSubmission}
                             \cup [press : {<<s>> : s \in Slot}, room : 1 .. MaxGeneration],
           edits' \in SUBSET [press : Slot, stage : EditStage],
           outcomes' \in SUBSET [press : Slot, outcome : Outcome]
    PROVE  FeedbackInv'
<1>1. FeedbackTypeOK /\ HostOK /\ SlotsOK /\ TokensOK
  BY DEF FeedbackInv
<1>2. /\ table' \in [generation : 0 .. MaxGeneration, high : 0 .. MaxPresses,
                     slots : SUBSET Slot]
      /\ Cardinality(table'.slots) <= SlotCapacity
      /\ \A s, r \in table'.slots : s.target = r.target => s = r
      /\ table'.generation = opened /\ table'.high = table.high
      /\ table'.slots \subseteq table.slots
      /\ SlotsOK'
  BY <1>1, Releases
<1>3. FeedbackTypeOK'
  BY <1>1, <1>2 DEF FeedbackTypeOK
<1>4. HostOK'
  BY <1>1, <1>2 DEF HostOK
<1>5. TokensOK'
  BY <1>1, <1>2, NoNewToken
<1> QED
  BY <1>2, <1>3, <1>4, <1>5 DEF FeedbackInv

\* The dispatch loop takes the first press: it goes to the room loop, or is
\* rejected and its slot released.
LEMMA DispatchKeeps ==
    ASSUME FeedbackInv, NEW valid \in BOOLEAN, Dispatch(valid)
    PROVE  FeedbackInv' /\ Exact
<1> DEFINE press == Head(presses)
<1>1. FeedbackTypeOK /\ HostOK /\ SlotsOK /\ TokensOK /\ PlacesOK
  BY DEF FeedbackInv
<1>2. /\ presses # <<>> /\ submitted = NoSubmission /\ presses' = Tail(presses)
      /\ UNCHANGED <<host, opened, edits, outcomes>>
      /\ \/ /\ valid /\ host.active # 0
            /\ submitted' = [press |-> <<press>>, room |-> host.active]
            /\ table' = table
         \/ table' = ResolveSlot(press) /\ submitted' = submitted
  BY DEF Dispatch
<1>3. /\ presses' \in Seq(Slot) /\ Len(presses) \in Nat /\ Len(presses') = Len(presses) - 1
      /\ press \in Slot /\ press \in Queued
      /\ Queued' = Queued \ {press}
      /\ \A i, j \in 1 .. Len(presses') : presses'[i] = presses'[j] => i = j
  BY <1>1, <1>2, QueueTail DEF FeedbackTypeOK, PlacesOK
<1> HIDE DEF press
<1>4. Len(presses') <= QueueCapacity
  BY <1>1, <1>3, PerformanceFeedbackAssumption DEF FeedbackTypeOK
<1>5. Sent = {} /\ Editing' = Editing /\ Answered' = Answered
  BY <1>1, <1>2, SentFacts DEF Editing, Answered
<1>6. edits' \in SUBSET [press : Slot, stage : EditStage]
      /\ outcomes' \in SUBSET [press : Slot, outcome : Outcome]
  BY <1>1, <1>2 DEF FeedbackTypeOK
<1>7. ASSUME Sent' \subseteq {press}
      PROVE  PlacesOK' /\ Intents' \subseteq Intents
  <2>1. /\ Queued' \cap Sent' = {} /\ Queued' \cap Editing' = {}
        /\ Queued' \cap Answered' = {}
        /\ Sent' \cap Editing' = {} /\ Sent' \cap Answered' = {}
        /\ Editing' \cap Answered' = {}
    BY <1>1, <1>3, <1>5, <1>7 DEF PlacesOK
  <2>2. /\ \A e, f \in edits' : e.press = f.press => e = f
        /\ \A m, n \in outcomes' : m.press = n.press => m = n
    BY <1>1, <1>2 DEF PlacesOK
  <2>3. PlacesOK'
    BY <1>3, <2>1, <2>2 DEF PlacesOK
  <2>4. Intents' \subseteq Intents
    BY <1>1, <1>3, <1>5, <1>7, IntentsNext, PlacesShape
  <2> QED
    BY <2>3, <2>4
<1>8. CASE /\ host.active # 0 /\ submitted' = [press |-> <<press>>, room |-> host.active]
           /\ table' = table
  <2>1. host.active \in 1 .. MaxGeneration
    BY <1>1, <1>8, PerformanceFeedbackAssumption DEF FeedbackTypeOK
  <2>2. submitted' \in [press : {<<s>> : s \in Slot}, room : 1 .. MaxGeneration]
    BY <1>3, <1>8, <2>1
  <2>3. Sent' \subseteq {press}
    <3>1. submitted'.press = <<press>>
      BY <1>8
    <3>2. Len(submitted'.press) = 1 /\ submitted'.press[1] = press
      BY <3>1
    <3> QED
      BY <3>2 DEF Sent
  <2> QED
    BY <1>2, <1>3, <1>4, <1>6, <1>7, <1>8, <2>2, <2>3, Moves DEF Exact
<1>9. CASE table' = ResolveSlot(press) /\ submitted' = submitted
  <2>1. Sent' = {}
    BY <1>5, <1>9 DEF Sent
  <2>2. PlacesOK' /\ Intents' \subseteq Intents
    BY <1>7, <2>1
  <2>3. FeedbackInv'
    BY <1>2, <1>3, <1>4, <1>6, <1>9, <2>2, Moves DEF NoSubmission
  <2>4. press \notin Intents'
    BY <1>1, <1>3, <1>5, <2>1, IntentsNext DEF PlacesOK
  <2>5. press \in Intents
    BY <1>1, <1>3, PlacesShape
  <2> QED
    BY <1>1, <1>9, <2>3, <2>4, <2>5, ResolvesOne DEF Exact
<1> QED
  BY <1>2, <1>8, <1>9

\* The room loop hands the press to the worker, or an ambiguous answer resets
\* the table.
LEMMA SubmitKeeps ==
    ASSUME FeedbackInv, NEW taken \in BOOLEAN, NEW acknowledged \in BOOLEAN,
           Submit(taken, acknowledged)
    PROVE  FeedbackInv' /\ Exact
<1> DEFINE press == submitted.press[1]
           edit == [press |-> press, stage |-> "inbox"]
<1>1. FeedbackTypeOK /\ TokensOK /\ PlacesOK
  BY DEF FeedbackInv
<1>2. /\ submitted # NoSubmission /\ submitted.room = host.active
      /\ submitted' = NoSubmission
      /\ edits' = edits \/ edits' = edits \cup {edit}
      /\ table' = table \/ table' = Reset(press.token.generation)
      /\ UNCHANGED <<host, opened, presses, outcomes>>
  BY DEF Submit
<1>3. Sent = {press} /\ press \in Slot
  BY <1>1, <1>2, SentFacts
<1>4. edit \in [press : Slot, stage : EditStage] /\ edit.press = press
  BY <1>3 DEF EditStage
<1> HIDE DEF press, edit
<1>5. /\ Queued' = Queued /\ Answered' = Answered /\ Sent' = {}
      /\ Editing' \subseteq Editing \cup {press}
  <2>1. Sent' = {}
    BY <1>2 DEF Sent, NoSubmission
  <2> QED
    BY <1>2, <1>4, <2>1 DEF Queued, Answered, Editing
<1>6. \A e \in edits : e.press # press
  BY <1>1, <1>3 DEF PlacesOK, Editing
<1>7. PlacesOK'
  <2>1. /\ Queued' \cap Sent' = {} /\ Queued' \cap Editing' = {}
        /\ Queued' \cap Answered' = {}
        /\ Sent' \cap Editing' = {} /\ Sent' \cap Answered' = {}
        /\ Editing' \cap Answered' = {}
    BY <1>1, <1>3, <1>5 DEF PlacesOK
  <2>2. \A e, f \in edits' : e.press = f.press => e = f
    BY <1>1, <1>2, <1>4, <1>6 DEF PlacesOK
  <2>3. /\ \A i, j \in 1 .. Len(presses') : presses'[i] = presses'[j] => i = j
        /\ \A m, n \in outcomes' : m.press = n.press => m = n
    BY <1>1, <1>2 DEF PlacesOK
  <2> QED
    BY <2>1, <2>2, <2>3 DEF PlacesOK
<1>8. Intents' \subseteq Intents
  BY <1>1, <1>3, <1>5, IntentsNext, PlacesShape
<1>9. /\ edits' \in SUBSET [press : Slot, stage : EditStage]
      /\ outcomes' \in SUBSET [press : Slot, outcome : Outcome]
      /\ presses' \in Seq(Slot) /\ Len(presses') <= QueueCapacity
  BY <1>1, <1>2, <1>4 DEF FeedbackTypeOK
<1>10. FeedbackInv'
  BY <1>2, <1>7, <1>8, <1>9, Moves
<1> QED
  BY <1>2, <1>10 DEF Exact

\* A press whose room is gone is rejected, and only its own slot is released.
LEMMA SubmitFailsKeeps ==
    ASSUME FeedbackInv, SubmitFails
    PROVE  FeedbackInv' /\ Exact
<1> DEFINE press == submitted.press[1]
<1>1. FeedbackTypeOK /\ TokensOK /\ PlacesOK
  BY DEF FeedbackInv
<1>2. /\ submitted # NoSubmission /\ submitted' = NoSubmission
      /\ table' = ResolveSlot(press)
      /\ UNCHANGED <<host, opened, presses, edits, outcomes>>
  BY DEF SubmitFails
<1>3. Sent = {press} /\ press \in Slot
  BY <1>1, <1>2, SentFacts
<1> HIDE DEF press
<1>4. Queued' = Queued /\ Answered' = Answered /\ Editing' = Editing /\ Sent' = {}
  <2>1. Sent' = {}
    BY <1>2 DEF Sent, NoSubmission
  <2> QED
    BY <1>2, <2>1 DEF Queued, Answered, Editing
<1>5. PlacesOK'
  BY <1>1, <1>2, <1>4 DEF PlacesOK
<1>6. Intents' \subseteq Intents /\ press \in Intents /\ press \notin Intents'
  <2>1. press \notin Queued \cup Answered \cup Editing
    BY <1>1, <1>3 DEF PlacesOK
  <2> QED
    BY <1>1, <1>3, <1>4, <2>1, IntentsNext, PlacesShape
<1>7. /\ edits' \in SUBSET [press : Slot, stage : EditStage]
      /\ outcomes' \in SUBSET [press : Slot, outcome : Outcome]
      /\ presses' \in Seq(Slot) /\ Len(presses') <= QueueCapacity
  BY <1>1, <1>2 DEF FeedbackTypeOK
<1>8. FeedbackInv'
  BY <1>2, <1>5, <1>6, <1>7, Moves
<1> QED
  BY <1>1, <1>2, <1>6, <1>8, ResolvesOne DEF Exact

(***************************************************************************)
(* The worker and the window's session loop.                               *)
(***************************************************************************)

\* The worker moves a press it holds to another stage, or answers it.
LEMMA EditMoves ==
    ASSUME FeedbackInv, NEW e \in edits, UNCHANGED <<host, opened, table, presses, submitted>>,
           \/ \E f \in [press : Slot, stage : EditStage] :
                 /\ f.press = e.press
                 /\ edits' = (edits \ {e}) \cup {f} /\ outcomes' = outcomes
           \/ \E m \in [press : Slot, outcome : Outcome] :
                 /\ m.press = e.press
                 /\ edits' = edits \ {e} /\ outcomes' = outcomes \cup {m}
    PROVE  FeedbackInv' /\ Exact
<1>1. FeedbackTypeOK /\ PlacesOK
  BY DEF FeedbackInv
<1>2. e \in [press : Slot, stage : EditStage] /\ e.press \in Editing
  BY <1>1 DEF FeedbackTypeOK, Editing
<1>3. Queued' = Queued /\ Sent' = Sent
  BY DEF Queued, Sent
<1>4. \A d \in edits : d.press = e.press => d = e
  BY <1>1 DEF PlacesOK
<1>5. presses' \in Seq(Slot) /\ Len(presses') <= QueueCapacity
      /\ submitted' \in {NoSubmission}
                           \cup [press : {<<s>> : s \in Slot}, room : 1 .. MaxGeneration]
  BY <1>1 DEF FeedbackTypeOK
<1>6. ASSUME edits' \in SUBSET [press : Slot, stage : EditStage],
             outcomes' \in SUBSET [press : Slot, outcome : Outcome],
             Editing' \cup Answered' \subseteq Editing \cup Answered,
             Editing' \cap Answered' = {},
             \A d, f \in edits' : d.press = f.press => d = f,
             \A m, n \in outcomes' : m.press = n.press => m = n
      PROVE  FeedbackInv' /\ Exact
  <2>1. PlacesOK'
    <3>1. /\ Queued' \cap Sent' = {} /\ Queued' \cap Editing' = {}
          /\ Queued' \cap Answered' = {}
          /\ Sent' \cap Editing' = {} /\ Sent' \cap Answered' = {}
      BY <1>1, <1>3, <1>6 DEF PlacesOK
    <3>2. \A i, j \in 1 .. Len(presses') : presses'[i] = presses'[j] => i = j
      BY <1>1 DEF PlacesOK
    <3> QED
      BY <1>6, <3>1, <3>2 DEF PlacesOK
  <2>2. Intents' \subseteq Intents
    BY <1>1, <1>3, <1>6, IntentsNext, PlacesShape
  <2>3. FeedbackInv'
    BY <1>5, <1>6, <2>1, <2>2, Moves
  <2> QED
    BY <2>3 DEF Exact
<1>7. CASE \E f \in [press : Slot, stage : EditStage] :
              /\ f.press = e.press
              /\ edits' = (edits \ {e}) \cup {f} /\ outcomes' = outcomes
  <2>1. PICK f \in [press : Slot, stage : EditStage] :
              /\ f.press = e.press
              /\ edits' = (edits \ {e}) \cup {f} /\ outcomes' = outcomes
    BY <1>7
  <2>2. Editing' \subseteq Editing /\ Answered' = Answered
    BY <1>2, <2>1 DEF Editing, Answered
  <2>3. Editing' \cap Answered' = {}
    BY <1>1, <2>2 DEF PlacesOK
  <2>4. \A d, g \in edits' : d.press = g.press => d = g
    BY <1>1, <1>4, <2>1 DEF PlacesOK
  <2>5. \A m, n \in outcomes' : m.press = n.press => m = n
    BY <1>1, <2>1 DEF PlacesOK
  <2>6. /\ edits' \in SUBSET [press : Slot, stage : EditStage]
        /\ outcomes' \in SUBSET [press : Slot, outcome : Outcome]
    BY <1>1, <2>1 DEF FeedbackTypeOK
  <2> QED
    BY <1>6, <2>2, <2>3, <2>4, <2>5, <2>6
<1>8. CASE \E m \in [press : Slot, outcome : Outcome] :
              /\ m.press = e.press
              /\ edits' = edits \ {e} /\ outcomes' = outcomes \cup {m}
  <2>1. PICK m \in [press : Slot, outcome : Outcome] :
              /\ m.press = e.press
              /\ edits' = edits \ {e} /\ outcomes' = outcomes \cup {m}
    BY <1>8
  <2>2. Editing' = Editing \ {e.press} /\ Answered' = Answered \cup {e.press}
    BY <1>4, <2>1 DEF Editing, Answered
  <2>3. Editing' \cap Answered' = {} /\ Editing' \cup Answered' \subseteq Editing \cup Answered
    BY <1>1, <1>2, <2>2 DEF PlacesOK
  <2>4. \A d, g \in edits' : d.press = g.press => d = g
    BY <1>1, <2>1 DEF PlacesOK
  <2>5. \A n, k \in outcomes' : n.press = k.press => n = k
    <3>1. \A n \in outcomes : n.press # e.press
      BY <1>1, <1>2 DEF PlacesOK, Answered
    <3> QED
      BY <1>1, <2>1, <3>1 DEF PlacesOK
  <2>6. /\ edits' \in SUBSET [press : Slot, stage : EditStage]
        /\ outcomes' \in SUBSET [press : Slot, outcome : Outcome]
    BY <1>1, <2>1 DEF FeedbackTypeOK
  <2> QED
    BY <1>6, <2>3, <2>4, <2>5, <2>6
<1> QED
  BY <1>7, <1>8

\* A local edit of a press keeps the invariant, whatever became of it.
LEMMA LocalEditKeeps ==
    ASSUME FeedbackInv, NEW press \in Slot,
           NEW stage \in {"rejected", "reified", "waiting", "fallback"}, LocalEdit(press, stage)
    PROVE  FeedbackInv' /\ Exact
<1> DEFINE e == [press |-> press, stage |-> "inbox"]
           f == [press |-> press, stage |-> stage]
           m == [press |-> press, outcome |-> "Rejected"]
<1>1. e \in edits /\ UNCHANGED <<host, opened, table, presses, submitted>>
  BY DEF LocalEdit
<1>2. CASE stage = "rejected"
  <2>1. edits' = edits \ {e} /\ outcomes' = outcomes \cup {m}
    BY <1>2 DEF LocalEdit
  <2>2. m \in [press : Slot, outcome : Outcome] /\ m.press = e.press
    BY DEF Outcome
  <2> HIDE DEF e, m
  <2> QED
    BY <1>1, <2>1, <2>2, EditMoves
<1>3. CASE stage # "rejected"
  <2>1. edits' = (edits \ {e}) \cup {f} /\ outcomes' = outcomes
    BY <1>3 DEF LocalEdit
  <2>2. f \in [press : Slot, stage : EditStage] /\ f.press = e.press
    BY <1>3 DEF EditStage
  <2> HIDE DEF e, f
  <2> QED
    BY <1>1, <2>1, <2>2, EditMoves
<1> QED
  BY <1>2, <1>3

\* So does a reification that is tried again.
LEMMA ReifyKeeps ==
    ASSUME FeedbackInv, NEW press \in Slot, Reify(press)
    PROVE  FeedbackInv' /\ Exact
<1> DEFINE e == [press |-> press, stage |-> "waiting"]
           f == [press |-> press, stage |-> "reified"]
<1>1. /\ e \in edits /\ UNCHANGED <<host, opened, table, presses, submitted>>
      /\ edits' = (edits \ {e}) \cup {f} /\ outcomes' = outcomes
  BY DEF Reify
<1>2. f \in [press : Slot, stage : EditStage] /\ f.press = e.press
  BY DEF EditStage
<1> HIDE DEF e, f
<1> QED
  BY <1>1, <1>2, EditMoves

\* So does the confirmation of an edit.
LEMMA ConfirmKeeps ==
    ASSUME FeedbackInv, NEW press \in Slot, NEW stage \in EditStage, NEW outcome \in Outcome,
           Confirm(press, stage, outcome)
    PROVE  FeedbackInv' /\ Exact
<1> DEFINE e == [press |-> press, stage |-> stage]
           m == [press |-> press, outcome |-> outcome]
<1>1. /\ e \in edits /\ UNCHANGED <<host, opened, table, presses, submitted>>
      /\ edits' = edits \ {e} /\ outcomes' = outcomes \cup {m}
  BY DEF Confirm
<1>2. m \in [press : Slot, outcome : Outcome] /\ m.press = e.press
  OBVIOUS
<1> HIDE DEF e, m
<1> QED
  BY <1>1, <1>2, EditMoves

\* An outcome is consumed, and the slot of its own press is released.
LEMMA ReceiveOutcomeKeeps ==
    ASSUME FeedbackInv, NEW m \in outcomes, ReceiveOutcome(m)
    PROVE  FeedbackInv' /\ Exact
<1>1. FeedbackTypeOK /\ TokensOK /\ PlacesOK
  BY DEF FeedbackInv
<1>2. /\ outcomes' = outcomes \ {m} /\ table' = ResolveSlot(m.press)
      /\ UNCHANGED <<host, opened, presses, submitted, edits>>
  BY DEF ReceiveOutcome
<1>3. /\ Queued' = Queued /\ Sent' = Sent /\ Editing' = Editing
      /\ Answered' = Answered \ {m.press} /\ m.press \in Answered
  BY <1>1, <1>2 DEF Queued, Sent, Editing, Answered, PlacesOK
<1>4. Intents' \subseteq Intents /\ m.press \in Intents /\ m.press \notin Intents'
  <2>1. m.press \notin Queued \cup Sent \cup Editing
    BY <1>1, <1>3 DEF PlacesOK
  <2> QED
    BY <1>1, <1>3, <2>1, IntentsNext, PlacesShape
<1>5. PlacesOK'
  <2>1. /\ Queued' \cap Sent' = {} /\ Queued' \cap Editing' = {}
        /\ Queued' \cap Answered' = {}
        /\ Sent' \cap Editing' = {} /\ Sent' \cap Answered' = {}
        /\ Editing' \cap Answered' = {}
    BY <1>1, <1>3 DEF PlacesOK
  <2>2. /\ \A i, j \in 1 .. Len(presses') : presses'[i] = presses'[j] => i = j
        /\ \A e, f \in edits' : e.press = f.press => e = f
        /\ \A k, n \in outcomes' : k.press = n.press => k = n
    BY <1>1, <1>2 DEF PlacesOK
  <2> QED
    BY <2>1, <2>2 DEF PlacesOK
<1>6. /\ presses' \in Seq(Slot) /\ Len(presses') <= QueueCapacity
      /\ submitted' \in {NoSubmission}
                           \cup [press : {<<s>> : s \in Slot}, room : 1 .. MaxGeneration]
      /\ edits' \in SUBSET [press : Slot, stage : EditStage]
      /\ outcomes' \in SUBSET [press : Slot, outcome : Outcome]
  BY <1>1, <1>2 DEF FeedbackTypeOK
<1>7. FeedbackInv'
  BY <1>2, <1>4, <1>5, <1>6, Moves
<1> QED
  BY <1>1, <1>2, <1>4, <1>7, ResolvesOne DEF Exact

\* A reset of the projection empties the table and consumes resets alone.
LEMMA ResetProjectionKeeps ==
    ASSUME FeedbackInv, ResetProjection
    PROVE  FeedbackInv' /\ Exact
<1>1. FeedbackTypeOK /\ TokensOK /\ PlacesOK
  BY DEF FeedbackInv
<1>2. /\ table' = Reset(host.active) /\ outcomes' = {m \in outcomes : m.outcome # "Reset"}
      /\ UNCHANGED <<host, opened, presses, submitted, edits>>
  BY DEF ResetProjection
<1>3. /\ Queued' = Queued /\ Sent' = Sent /\ Editing' = Editing /\ Answered' \subseteq Answered
  BY <1>2 DEF Queued, Sent, Editing, Answered
<1>4. Intents' \subseteq Intents
  BY <1>1, <1>3, IntentsNext, PlacesShape
<1>5. PlacesOK'
  <2>1. /\ Queued' \cap Sent' = {} /\ Queued' \cap Editing' = {}
        /\ Queued' \cap Answered' = {}
        /\ Sent' \cap Editing' = {} /\ Sent' \cap Answered' = {}
        /\ Editing' \cap Answered' = {}
    BY <1>1, <1>3 DEF PlacesOK
  <2>2. /\ \A i, j \in 1 .. Len(presses') : presses'[i] = presses'[j] => i = j
        /\ \A e, f \in edits' : e.press = f.press => e = f
        /\ \A k, n \in outcomes' : k.press = n.press => k = n
    BY <1>1, <1>2 DEF PlacesOK
  <2> QED
    BY <2>1, <2>2 DEF PlacesOK
<1>6. /\ presses' \in Seq(Slot) /\ Len(presses') <= QueueCapacity
      /\ submitted' \in {NoSubmission}
                           \cup [press : {<<s>> : s \in Slot}, room : 1 .. MaxGeneration]
      /\ edits' \in SUBSET [press : Slot, stage : EditStage]
      /\ outcomes' \in SUBSET [press : Slot, outcome : Outcome]
  BY <1>1, <1>2 DEF FeedbackTypeOK
<1>7. FeedbackInv'
  BY <1>2, <1>4, <1>5, <1>6, Moves
<1> QED
  BY <1>2, <1>7 DEF Exact

(***************************************************************************)
(* Generations.                                                            *)
(***************************************************************************)

\* The end of a generation takes what its worker holds, and issues no token.
LEMMA StopKeeps ==
    ASSUME FeedbackInv, Stop
    PROVE  FeedbackInv' /\ Exact
<1>1. FeedbackTypeOK /\ HostOK /\ SlotsOK /\ TokensOK /\ PlacesOK
  BY DEF FeedbackInv
<1>2. /\ host.active # 0
      /\ host' = [host EXCEPT !.active = 0, !.ending = host.active]
      /\ table' = Reset(host.generation) /\ edits' = {} /\ outcomes' = {}
      /\ UNCHANGED <<opened, presses, submitted>>
  BY DEF Stop
<1>3. /\ host' \in [generation : 0 .. MaxGeneration, sequence : 0 .. MaxPresses,
                    active : 0 .. MaxGeneration, ending : 0 .. MaxGeneration]
      /\ host'.sequence = host.sequence /\ host'.generation = host.generation
      /\ host'.active = 0
  <2>1. host \in [generation : 0 .. MaxGeneration, sequence : 0 .. MaxPresses,
                  active : 0 .. MaxGeneration, ending : 0 .. MaxGeneration]
    BY <1>1 DEF FeedbackTypeOK
  <2>2. 0 \in 0 .. MaxGeneration
    BY PerformanceFeedbackAssumption
  <2> QED
    BY <1>2, <2>1, <2>2
<1>4. /\ table' \in [generation : 0 .. MaxGeneration, high : 0 .. MaxPresses,
                     slots : SUBSET Slot]
      /\ Cardinality(table'.slots) <= SlotCapacity
      /\ \A s, r \in table'.slots : s.target = r.target => s = r
      /\ table'.generation = opened /\ table'.high = table.high
      /\ table'.slots \subseteq table.slots
      /\ SlotsOK'
  BY <1>1, <1>2, <1>3, Releases
<1>5. Queued' = Queued /\ Sent' = Sent /\ Editing' = {} /\ Answered' = {}
  BY <1>2 DEF Queued, Sent, Editing, Answered
<1>6. Intents' \subseteq Intents
  BY <1>1, <1>5, IntentsNext, PlacesShape
<1>7. FeedbackTypeOK'
  BY <1>1, <1>2, <1>3, <1>4 DEF FeedbackTypeOK
<1>8. HostOK'
  BY <1>1, <1>2, <1>3, <1>4 DEF HostOK
<1>9. TokensOK'
  BY <1>1, <1>2, <1>3, <1>4, <1>6, NoNewToken
<1>10. PlacesOK'
  BY <1>1, <1>2, <1>5 DEF PlacesOK
<1>11. Exact
  BY <1>2, <1>3 DEF Exact
<1> QED
  BY <1>4, <1>7, <1>8, <1>9, <1>10, <1>11 DEF FeedbackInv

\* So does the end of a worker.
LEMMA InvalidateKeeps ==
    ASSUME FeedbackInv, Invalidate
    PROVE  FeedbackInv' /\ Exact
<1>1. FeedbackTypeOK /\ HostOK /\ SlotsOK /\ TokensOK /\ PlacesOK
  BY DEF FeedbackInv
<1>2. /\ host.ending # 0
      /\ host' = [host EXCEPT !.ending = 0,
                              !.generation = IF @ = host.ending THEN 0 ELSE @]
      /\ table' = (IF host.generation = host.ending THEN Reset(host.ending) ELSE table)
      /\ UNCHANGED <<opened, presses, submitted, edits, outcomes>>
  BY DEF Invalidate
<1>3. /\ host' \in [generation : 0 .. MaxGeneration, sequence : 0 .. MaxPresses,
                    active : 0 .. MaxGeneration, ending : 0 .. MaxGeneration]
      /\ host'.sequence = host.sequence /\ host'.active = host.active /\ host'.ending = 0
      /\ host'.generation = (IF host.generation = host.ending THEN 0 ELSE host.generation)
  <2>1. host \in [generation : 0 .. MaxGeneration, sequence : 0 .. MaxPresses,
                  active : 0 .. MaxGeneration, ending : 0 .. MaxGeneration]
    BY <1>1 DEF FeedbackTypeOK
  <2>2. 0 \in 0 .. MaxGeneration
    BY PerformanceFeedbackAssumption
  <2> QED
    BY <1>2, <2>1, <2>2
<1>4. /\ table' \in [generation : 0 .. MaxGeneration, high : 0 .. MaxPresses,
                     slots : SUBSET Slot]
      /\ Cardinality(table'.slots) <= SlotCapacity
      /\ \A s, r \in table'.slots : s.target = r.target => s = r
      /\ table'.generation = opened /\ table'.high = table.high
      /\ table'.slots \subseteq table.slots
      /\ SlotsOK'
  BY <1>1, <1>2, <1>3, Releases
<1>5. Queued' = Queued /\ Sent' = Sent /\ Editing' = Editing /\ Answered' = Answered
  BY <1>2 DEF Queued, Sent, Editing, Answered
<1>6. Intents' \subseteq Intents
  BY <1>1, <1>5, IntentsNext, PlacesShape
<1>7. FeedbackTypeOK'
  BY <1>1, <1>2, <1>3, <1>4 DEF FeedbackTypeOK
<1>8. HostOK'
  BY <1>1, <1>2, <1>3, <1>4 DEF HostOK
<1>9. TokensOK'
  BY <1>1, <1>2, <1>3, <1>4, <1>6, NoNewToken
<1>10. PlacesOK'
  BY <1>1, <1>2, <1>5 DEF PlacesOK
<1>11. Exact
  <2>1. CASE host.generation = host.ending
    BY <1>2, <1>3, <2>1 DEF Exact
  <2>2. CASE host.generation # host.ending
    BY <1>2, <2>2 DEF Exact
  <2> QED
    BY <2>1, <2>2
<1> QED
  BY <1>4, <1>7, <1>8, <1>9, <1>10, <1>11 DEF FeedbackInv

\* A new generation starts with an empty table, and every press on its way has
\* an older token.
LEMMA ReopenKeeps ==
    ASSUME FeedbackInv, NEW succeeds \in BOOLEAN, Reopen(succeeds)
    PROVE  FeedbackInv' /\ Exact
<1>1. FeedbackTypeOK /\ HostOK /\ SlotsOK /\ TokensOK /\ PlacesOK
  BY DEF FeedbackInv
<1>2. /\ host.active = 0 /\ host.ending = 0 /\ opened < MaxGeneration
      /\ opened' = opened + 1
      /\ host' = [generation |-> opened + 1, sequence |-> 0,
                  active |-> IF succeeds THEN opened + 1 ELSE 0, ending |-> 0]
      /\ table' = [generation |-> opened + 1, high |-> 0, slots |-> {}]
      /\ UNCHANGED <<presses, submitted, edits, outcomes>>
  BY DEF Reopen, InstallGeneration
<1>3. /\ opened \in Nat /\ opened + 1 \in 0 .. MaxGeneration /\ 0 \in 0 .. MaxGeneration
      /\ 0 \in 0 .. MaxPresses /\ 0 <= SlotCapacity
  BY <1>1, <1>2, PerformanceFeedbackAssumption DEF FeedbackTypeOK
<1>4. IsFiniteSet(table'.slots) /\ Cardinality(table'.slots) = 0 /\ table'.slots = {}
  BY <1>2, FS_EmptySet
<1>5. FeedbackTypeOK'
  <2>1. /\ host' \in [generation : 0 .. MaxGeneration, sequence : 0 .. MaxPresses,
                      active : 0 .. MaxGeneration, ending : 0 .. MaxGeneration]
        /\ table' \in [generation : 0 .. MaxGeneration, high : 0 .. MaxPresses,
                       slots : SUBSET Slot]
        /\ opened' \in 0 .. MaxGeneration
    BY <1>2, <1>3
  <2> QED
    BY <1>1, <1>2, <1>3, <1>4, <2>1 DEF FeedbackTypeOK
<1>6. HostOK'
  BY <1>2, <1>3 DEF HostOK
<1>7. SlotsOK'
  BY <1>4 DEF SlotsOK
<1>8. Queued' = Queued /\ Sent' = Sent /\ Editing' = Editing /\ Answered' = Answered
  BY <1>2 DEF Queued, Sent, Editing, Answered
<1>9. Intents' = Intents
  BY <1>1, <1>8, IntentsNext, PlacesShape
<1>10. TokensOK'
  <2>1. \A a \in Intents : a.token.generation <= opened /\ a.token.generation \in Nat
    <3>1. \A a \in Slot : a.token.generation \in Nat
      BY DEF Slot, Token
    <3> QED
      BY <1>1, <3>1, PlacesShape DEF TokensOK
  <2>2. \A a \in Intents : a.token.generation <= opened + 1 /\ a.token.generation # opened + 1
    BY <1>3, <2>1
  <2> QED
    BY <1>1, <1>2, <1>4, <1>9, <2>2 DEF TokensOK
<1>11. PlacesOK'
  BY <1>1, <1>2, <1>8 DEF PlacesOK
<1>12. Exact
  <2>1. host'.generation # host.generation
    BY <1>1, <1>2, <1>3 DEF HostOK
  <2> QED
    BY <2>1 DEF Exact
<1> QED
  BY <1>5, <1>6, <1>7, <1>10, <1>11, <1>12 DEF FeedbackInv

(***************************************************************************)
(* Theorems.                                                               *)
(***************************************************************************)
LEMMA InitFeedbackInv == FeedbackInit => FeedbackInv
<1> SUFFICES ASSUME FeedbackInit PROVE FeedbackInv
  OBVIOUS
<1>1. /\ host = [generation |-> 0, sequence |-> 0, active |-> 0, ending |-> 0]
      /\ opened = 0 /\ table = [generation |-> 0, high |-> 0, slots |-> {}]
      /\ presses = <<>> /\ submitted = NoSubmission /\ edits = {} /\ outcomes = {}
  BY DEF FeedbackInit
<1>2. 0 \in 0 .. MaxGeneration /\ 0 \in 0 .. MaxPresses /\ 0 <= SlotCapacity
      /\ 0 <= QueueCapacity
  BY PerformanceFeedbackAssumption
<1>3. IsFiniteSet(table.slots) /\ Cardinality(table.slots) = 0 /\ table.slots = {}
  BY <1>1, FS_EmptySet
<1>4. Len(presses) = 0 /\ presses \in Seq(Slot)
  BY <1>1
<1>5. FeedbackTypeOK
  <2>1. /\ host \in [generation : 0 .. MaxGeneration, sequence : 0 .. MaxPresses,
                     active : 0 .. MaxGeneration, ending : 0 .. MaxGeneration]
        /\ table \in [generation : 0 .. MaxGeneration, high : 0 .. MaxPresses,
                      slots : SUBSET Slot]
    BY <1>1, <1>2
  <2> QED
    BY <1>1, <1>2, <1>3, <1>4, <2>1 DEF FeedbackTypeOK
<1>6. Queued = {} /\ Sent = {} /\ Editing = {} /\ Answered = {}
  BY <1>1, <1>4 DEF Queued, Sent, Editing, Answered, NoSubmission
<1>7. Intents = {}
  BY <1>5, <1>6, PlacesShape
<1> QED
  BY <1>1, <1>3, <1>4, <1>5, <1>6, <1>7
  DEF FeedbackInv, HostOK, SlotsOK, TokensOK, PlacesOK

\* Every step keeps the invariant and drops a slot only for a reason that Exact names.
LEMMA FeedbackStep == FeedbackInv /\ [FeedbackNext]_feedbackVars => FeedbackInv' /\ [Exact]_feedbackVars
<1> SUFFICES ASSUME FeedbackInv, [FeedbackNext]_feedbackVars
             PROVE  FeedbackInv' /\ [Exact]_feedbackVars
  OBVIOUS
<1>1. CASE UNCHANGED feedbackVars
  <2>1. UNCHANGED <<host, opened, table, presses, submitted, edits, outcomes>>
    BY <1>1 DEF feedbackVars
  <2>2. FeedbackTypeOK'
    BY <2>1 DEF FeedbackInv, FeedbackTypeOK
  <2>3. HostOK' /\ SlotsOK'
    BY <2>1 DEF FeedbackInv, HostOK, SlotsOK
  <2>4. TokensOK'
    BY <2>1 DEF FeedbackInv, TokensOK, Intents
  <2>5. PlacesOK'
    <3>1. Queued' = Queued /\ Sent' = Sent /\ Editing' = Editing /\ Answered' = Answered
      BY <2>1 DEF Queued, Sent, Editing, Answered
    <3> QED
      BY <2>1, <3>1 DEF FeedbackInv, PlacesOK
  <2> QED
    BY <1>1, <2>2, <2>3, <2>4, <2>5 DEF FeedbackInv
<1>2. CASE FeedbackNext
  <2>1. CASE \E target \in Target : Press(target)
    BY <2>1, PressKeeps
  <2>2. CASE \E valid \in BOOLEAN : Dispatch(valid)
    BY <2>2, DispatchKeeps
  <2>3. CASE \E taken, acknowledged \in BOOLEAN : Submit(taken, acknowledged)
    BY <2>3, SubmitKeeps
  <2>4. CASE SubmitFails
    BY <2>4, SubmitFailsKeeps
  <2>5. ASSUME NEW press \in Slot,
               NEW stage \in {"rejected", "reified", "waiting", "fallback"},
               LocalEdit(press, stage)
        PROVE  FeedbackInv' /\ Exact
    BY <2>5, LocalEditKeeps
  <2>6. ASSUME NEW press \in Slot, Reify(press)
        PROVE  FeedbackInv' /\ Exact
    BY <2>6, ReifyKeeps
  <2>7. ASSUME NEW press \in Slot, NEW stage \in EditStage, NEW outcome \in {"Accepted", "Reset"},
               Confirm(press, stage, outcome)
        PROVE  FeedbackInv' /\ Exact
    <3>1. outcome \in Outcome
      BY DEF Outcome
    <3> QED
      BY <2>7, <3>1, ConfirmKeeps
  <2>8. CASE \E m \in outcomes : ReceiveOutcome(m)
    BY <2>8, ReceiveOutcomeKeeps
  <2>9. CASE ResetProjection \/ Stop \/ Invalidate
    BY <2>9, ResetProjectionKeeps, StopKeeps, InvalidateKeeps
  <2>10. CASE \E succeeds \in BOOLEAN : Reopen(succeeds)
    BY <2>10, ReopenKeeps
  <2> QED
    BY <1>2, <2>1, <2>2, <2>3, <2>4, <2>5, <2>6, <2>7, <2>8, <2>9, <2>10 DEF FeedbackNext
<1> QED
  BY <1>1, <1>2

\* The inductive invariant: where the presses are, the order of their tokens,
\* and the generations of host and table.
THEOREM FeedbackInvariant == FeedbackSpec => []FeedbackInv
  BY InitFeedbackInv, FeedbackStep, PTL DEF FeedbackSpec

\* The table never exceeds its capacity and has one slot for a control, and
\* the queue of presses never exceeds its own.
THEOREM FeedbackTypeCorrect == FeedbackSpec => []FeedbackTypeOK
<1>1. FeedbackInv => FeedbackTypeOK
  BY DEF FeedbackInv
<1> QED
  BY <1>1, FeedbackInvariant, PTL

\* In an active room the host and the table count the same generation, and the
\* next sequence number is newer than every press: only a full table refuses.
THEOREM RefusalMeansFull == FeedbackSpec => []OnlyCapacityRefuses
<1>1. FeedbackInv => OnlyCapacityRefuses
  BY DEF FeedbackInv, HostOK, OnlyCapacityRefuses
<1> QED
  BY <1>1, FeedbackInvariant, PTL

\* An outcome releases the slot of its own press and no other.
THEOREM OutcomesReleaseTheirOwn == FeedbackSpec => OutcomeIsExact
<1>1. FeedbackInv /\ [FeedbackNext]_feedbackVars => [Exact]_feedbackVars
  BY FeedbackStep
<1>2. FeedbackSpec => [][Exact]_feedbackVars
  BY <1>1, FeedbackInvariant, PTL DEF FeedbackSpec
<1> QED
  BY <1>2 DEF OutcomeIsExact, Exact

-----------------------------------------------------------------------------
(***************************************************************************)
(* Proofs about ProjectionGate: types, that the window has caught up once  *)
(* nothing is under way, and that the music shown never goes back, for     *)
(* every number of revisions, predicted Events and epochs.                 *)
(*                                                                         *)
(* The argument rests on the order of the session's projections: the       *)
(* worker emits each one Earlier than the next, the wire keeps that order, *)
(* and the gate's cursor precedes everything still on the wire.  A reset   *)
(* that is owed is a request, an outstanding reply of the service, or a    *)
(* Reset on the wire which no canonical projection ahead of it makes       *)
(* stale.                                                                  *)
(***************************************************************************)

Delivery == [kind : {"Advance", "Repair", "Reset"}, durable : 0 .. MaxRevision]

Message == [kind : {"Canonical", "Predicted", "Advanced", "Reset"}, at : Points]

SessionKinds == {"Predicted", "Advanced", "Reset"}

Session(m) == m.kind # "Canonical"

\* The order in which the worker emits session projections.
Earlier(p, q) ==
    /\ p.durable <= q.durable
    /\ \/ p.epoch < q.epoch
       \/ p.epoch = q.epoch /\ p.generation < q.generation
       \/ p.epoch = q.epoch /\ p.generation = q.generation /\ p.sequence < q.sequence

Upto(p, q) == p = q \/ Earlier(p, q)

\* The service's counts are ordered, and the inputs the task has not handled
\* lead it from what it presents to what is announced.
CountsOK ==
    /\ published <= announced /\ announced <= revision
    /\ presented.durable \in 0 .. revision
    /\ \A i \in 1 .. Len(deliveries) : deliveries[i].durable \in presented.durable .. revision
    /\ \A i, j \in 1 .. Len(deliveries) :
          i < j => deliveries[i].durable <= deliveries[j].durable
    /\ \/ announced <= presented.durable
       \/ \E i \in 1 .. Len(deliveries) : announced <= deliveries[i].durable

\* While the service waits for a reset nothing is committed, and the reset is
\* the only one among the inputs.
ResettingOK ==
    /\ resetting => \E i \in 1 .. Len(deliveries) : deliveries[i].kind = "Reset"
    /\ \A i \in 1 .. Len(deliveries) :
          deliveries[i].kind = "Reset" => resetting /\ deliveries[i].durable = revision
    /\ \A i, j \in 1 .. Len(deliveries) :
          deliveries[i].kind = "Reset" /\ deliveries[j].kind = "Reset" => i = j

\* A session projection on its way from the presented session to the cursor.
Between(c, m, p) ==
    /\ m.at.epoch # 0
    /\ m.kind = "Reset" => m.at.sequence = 0
    /\ Upto(m.at, p)
    /\ Earlier(c, m.at)

WireOK ==
    /\ \A i \in 1 .. Len(wire) : Session(wire[i]) => Between(gate.cursor, wire[i], presented)
    /\ \A i \in 1 .. Len(wire) : ~Session(wire[i]) => wire[i].at.durable \in 0 .. published
    /\ \A i, j \in 1 .. Len(wire) :
          i < j /\ Session(wire[i]) /\ Session(wire[j]) => Earlier(wire[i].at, wire[j].at)

WindowOK ==
    /\ gate.canonical \in None .. published
    /\ gate.cursor.durable >= 0
    /\ gate.cursor.epoch = 0 => gate.cursor.durable = 0
    /\ gate.cursor.epoch # 0 => Upto(gate.cursor, presented)
    /\ gate.horizon # None => gate.cursor.epoch # 0 /\ gate.horizon = gate.cursor.durable
    /\ shown.durable <= gate.canonical \/ shown.durable <= gate.horizon
    /\ shown.epoch = 0 => shown.sequence = 0
    /\ shown.epoch # 0 => shown = gate.cursor /\ gate.horizon # None
    /\ gate.cursor.epoch = 0 => shown.durable = gate.canonical

\* A reset on the wire that is still fresh when the gate receives it.
FreshReset ==
    \E j \in 1 .. Len(wire) :
        /\ wire[j].kind = "Reset"
        /\ gate.canonical <= wire[j].at.durable
        /\ \A i \in 1 .. j - 1 : ~Session(wire[i]) => wire[i].at.durable <= wire[j].at.durable

\* A gate that waits has asked, and what it asked for is under way.
AwaitingOK ==
    /\ gate.awaiting => outstanding
    /\ outstanding => presented.epoch # 0 /\ (resets > 0 \/ resetting \/ FreshReset)

\* The latest canonical projection has been received or is on the wire.
CanonicalOK ==
    \/ gate.canonical = published
    \/ \E i \in 1 .. Len(wire) : ~Session(wire[i]) /\ wire[i].at.durable = published

\* The latest session projection is shown, or on the wire, or was dropped with
\* a reason: the gate waits for a reset, or newer canonical music has come.
PresentedOK ==
    presented.epoch # 0 =>
        \/ \E i \in 1 .. Len(wire) : Session(wire[i]) /\ wire[i].at = presented
        \/ gate.awaiting
        \/ shown = presented
        \/ presented.durable < gate.canonical

\* Where there are session projections on the wire, the latest is one of them.
LastOK ==
    \A i \in 1 .. Len(wire) :
        Session(wire[i]) =>
            \E j \in 1 .. Len(wire) : Session(wire[j]) /\ wire[j].at = presented

GateInv ==
    /\ GateTypeOK /\ CountsOK /\ ResettingOK /\ WireOK /\ WindowOK
    /\ AwaitingOK /\ CanonicalOK /\ PresentedOK /\ LastOK

-----------------------------------------------------------------------------

(***************************************************************************)
(* Queues and the order of projections.                                    *)
(***************************************************************************)

\* A posted message is the last one, and the others keep their places.
LEMMA AppendFacts ==
    ASSUME NEW S, NEW q \in Seq(S), NEW e \in S
    PROVE  /\ Append(q, e) \in Seq(S)
           /\ Len(q) \in Nat
           /\ Len(Append(q, e)) = Len(q) + 1
           /\ \A i \in 1 .. Len(q) : Append(q, e)[i] = q[i]
           /\ Append(q, e)[Len(q) + 1] = e
  OBVIOUS

\* Taking the first message moves every other one a place ahead.
LEMMA TailFacts ==
    ASSUME NEW S, NEW q \in Seq(S), q # <<>>
    PROVE  /\ Tail(q) \in Seq(S)
           /\ Len(q) \in Nat \ {0}
           /\ Len(Tail(q)) = Len(q) - 1
           /\ \A i \in 1 .. Len(q) - 1 : Tail(q)[i] = q[i + 1]
           /\ Head(q) = q[1]
           /\ \A i \in 1 .. Len(q) : q[i] \in S
  OBVIOUS

\* Earlier is transitive, and no projection is earlier than itself.
LEMMA EarlierOrder ==
    ASSUME NEW p \in Points, NEW q \in Points, NEW r \in Points
    PROVE  /\ Earlier(p, q) /\ Earlier(q, r) => Earlier(p, r)
           /\ Upto(p, q) /\ Earlier(q, r) => Earlier(p, r)
           /\ Earlier(p, q) /\ Upto(q, r) => Earlier(p, r)
           /\ ~Earlier(p, p)
  BY DEF Earlier, Upto, Points

\* The successors of a projection in the same generation and in the next one.
LEMMA Successors ==
    ASSUME NEW p \in Points, NEW r \in Int, p.durable <= r
    PROVE  /\ NextSequence(p, r) \in Points /\ Earlier(p, NextSequence(p, r))
           /\ NextGeneration(p, r) \in Points /\ Earlier(p, NextGeneration(p, r))
           /\ NextSequence(p, r).epoch = p.epoch /\ NextGeneration(p, r).epoch = p.epoch
           /\ NextSequence(p, r).durable = r /\ NextGeneration(p, r).durable = r
           /\ NextGeneration(p, r).sequence = 0
  BY DEF NextSequence, NextGeneration, Point, Points, Earlier

\* GateTypeOK in the terms the proofs use.
LEMMA Shapes ==
    ASSUME GateTypeOK
    PROVE  /\ deliveries \in Seq(Delivery) /\ wire \in Seq(Message)
           /\ Len(deliveries) \in Nat /\ Len(wire) \in Nat
           /\ \A i \in 1 .. Len(deliveries) : deliveries[i] \in Delivery
           /\ \A i \in 1 .. Len(wire) : wire[i] \in Message /\ wire[i].at \in Points
           /\ gate.cursor \in Points /\ gate.canonical \in Int /\ gate.horizon \in Int
           /\ MaxRevision \in Nat /\ MaxPredicted \in Nat /\ MaxEpoch \in Nat \ {0}
<1>1. deliveries \in Seq(Delivery) /\ wire \in Seq(Message)
  BY DEF GateTypeOK, Delivery, Message
<1>2. /\ Len(deliveries) \in Nat /\ Len(wire) \in Nat
      /\ \A i \in 1 .. Len(deliveries) : deliveries[i] \in Delivery
      /\ \A i \in 1 .. Len(wire) : wire[i] \in Message
  BY <1>1
<1>3. \A i \in 1 .. Len(wire) : wire[i].at \in Points
  BY <1>2 DEF Message
<1>4. gate.cursor \in Points /\ gate.canonical \in Int /\ gate.horizon \in Int
  BY DEF GateTypeOK
<1> QED
  BY <1>1, <1>2, <1>3, <1>4, ProjectionGateAssumption

(***************************************************************************)
(* What a posted projection preserves.                                     *)
(***************************************************************************)

\* A session projection Earlier than none on the wire keeps the wire's order,
\* leaves a fresh reset fresh, and brings the window what is now presented.
LEMMA EmitKeeps ==
    ASSUME GateTypeOK, CountsOK, WireOK, WindowOK, CanonicalOK,
           NEW kind \in SessionKinds, NEW p \in Points, Emit(kind, p),
           Earlier(presented, p), p.epoch # 0, kind = "Reset" => p.sequence = 0,
           UNCHANGED <<gate, published, shown>>
    PROVE  /\ wire' \in Seq(Message) /\ presented' \in Points
           /\ WireOK' /\ WindowOK' /\ CanonicalOK' /\ PresentedOK' /\ LastOK'
           /\ FreshReset => FreshReset'
           /\ kind = "Reset" /\ gate.canonical <= p.durable /\ published <= p.durable
                 => FreshReset'
<1> DEFINE m == Projection(kind, p)
<1>1. m \in Message /\ m.kind = kind /\ m.at = p /\ Session(m)
  BY DEF Projection, Message, SessionKinds, Session
<1> HIDE DEF m
<1>2. wire' = Append(wire, m) /\ presented' = p /\ gate' = gate /\ published' = published
      /\ shown' = shown
  BY DEF Emit, m
<1>3. /\ wire \in Seq(Message) /\ Len(wire) \in Nat /\ gate.cursor \in Points
      /\ \A i \in 1 .. Len(wire) : wire[i] \in Message /\ wire[i].at \in Points
      /\ presented \in Points /\ gate.canonical \in Int
  BY Shapes DEF GateTypeOK
<1>4. /\ wire' \in Seq(Message) /\ Len(wire') = Len(wire) + 1
      /\ \A i \in 1 .. Len(wire) : wire'[i] = wire[i]
      /\ wire'[Len(wire) + 1] = m
  BY <1>1, <1>2, <1>3, AppendFacts
<1>5. \A i \in 1 .. Len(wire') : i \in 1 .. Len(wire) \/ i = Len(wire) + 1
  BY <1>3, <1>4
<1>6. Earlier(gate.cursor, p)
  <2>1. CASE gate.cursor.epoch = 0
    BY <1>3, <2>1 DEF Earlier, Points, WindowOK, CountsOK
  <2>2. CASE gate.cursor.epoch # 0
    BY <1>3, <2>2, EarlierOrder DEF WindowOK
  <2> QED
    BY <2>1, <2>2
<1>7. Upto(gate.cursor, p) /\ Upto(p, p)
  BY <1>6 DEF Upto
<1>8. ASSUME NEW i \in 1 .. Len(wire), Session(wire[i])
      PROVE  Between(gate.cursor, wire[i], p) /\ Earlier(wire[i].at, p)
  <2>1. Between(gate.cursor, wire[i], presented)
    BY <1>8 DEF WireOK
  <2>2. Earlier(wire[i].at, p)
    BY <1>3, <1>8, <2>1, EarlierOrder DEF Between
  <2> QED
    BY <1>2, <1>4, <1>8, <2>1, <2>2 DEF Between, Upto
<1>9. Between(gate.cursor, m, p)
  BY <1>1, <1>2, <1>4, <1>6, <1>7 DEF Between
<1>10. WireOK'
  <2>1. ASSUME NEW i \in 1 .. Len(wire'), Session(wire'[i])
        PROVE  Between(gate'.cursor, wire'[i], presented')
    BY <1>2, <1>4, <1>5, <1>8, <1>9, <2>1
  <2>2. ASSUME NEW i \in 1 .. Len(wire'), ~Session(wire'[i])
        PROVE  wire'[i].at.durable \in 0 .. published'
    BY <1>1, <1>2, <1>4, <1>5, <2>2 DEF WireOK
  <2>3. ASSUME NEW i \in 1 .. Len(wire'), NEW j \in 1 .. Len(wire'),
               i < j, Session(wire'[i]), Session(wire'[j])
        PROVE  Earlier(wire'[i].at, wire'[j].at)
    <3>1. i \in 1 .. Len(wire)
      BY <1>3, <1>4, <2>3
    <3>2. CASE j \in 1 .. Len(wire)
      BY <1>4, <2>3, <3>1, <3>2 DEF WireOK
    <3>3. CASE j = Len(wire) + 1
      BY <1>1, <1>4, <1>8, <2>3, <3>1, <3>3
    <3> QED
      BY <1>5, <3>2, <3>3
  <2> QED
    BY <2>1, <2>2, <2>3 DEF WireOK
<1>11. WindowOK'
  BY <1>2, <1>7 DEF WindowOK
<1>12. CanonicalOK'
  <2>1. 1 .. Len(wire) \subseteq 1 .. Len(wire')
    BY <1>3, <1>4
  <2> QED
    BY <1>2, <1>4, <2>1 DEF CanonicalOK
<1>13. PresentedOK' /\ LastOK'
  <2>1. Len(wire) + 1 \in 1 .. Len(wire')
    BY <1>3, <1>4
  <2> QED
    BY <1>1, <1>2, <1>4, <2>1 DEF PresentedOK, LastOK
<1>14. ASSUME FreshReset PROVE FreshReset'
  <2>1. PICK j \in 1 .. Len(wire) :
          /\ wire[j].kind = "Reset"
          /\ gate.canonical <= wire[j].at.durable
          /\ \A i \in 1 .. j - 1 : ~Session(wire[i]) => wire[i].at.durable <= wire[j].at.durable
    BY <1>14 DEF FreshReset
  <2>2. j \in 1 .. Len(wire') /\ 1 .. j - 1 \subseteq 1 .. Len(wire)
    BY <1>3, <1>4
  <2> QED
    BY <1>2, <1>4, <2>1, <2>2 DEF FreshReset
<1>15. ASSUME kind = "Reset", gate.canonical <= p.durable, published <= p.durable
       PROVE  FreshReset'
  <2>1. \A i \in 1 .. Len(wire) : ~Session(wire[i]) => wire[i].at.durable <= p.durable
    <3>1. p.durable \in Int /\ published \in Int
      BY DEF Points, GateTypeOK
    <3> QED
      BY <1>3, <1>15, <3>1 DEF WireOK
  <2>2. Len(wire) + 1 \in 1 .. Len(wire') /\ (Len(wire) + 1) - 1 = Len(wire)
    BY <1>3, <1>4
  <2> QED
    BY <1>1, <1>2, <1>4, <1>15, <2>1, <2>2 DEF FreshReset
<1> QED
  BY <1>2, <1>4, <1>10, <1>11, <1>12, <1>13, <1>14, <1>15

(***************************************************************************)
(* The worker service.                                                     *)
(***************************************************************************)

\* What concerns the wire and the window alone is not touched by a step that
\* leaves both alone.
LEMMA WindowUntouched ==
    ASSUME GateInv, UNCHANGED <<wire, gate, presented, published, shown>>
    PROVE  /\ WireOK' /\ WindowOK' /\ CanonicalOK' /\ PresentedOK' /\ LastOK'
           /\ FreshReset => FreshReset'
  BY DEF GateInv, WireOK, WindowOK, CanonicalOK, PresentedOK, LastOK, FreshReset

\* A new input of the session task comes last among its inputs.
LEMMA DeliveryAppended ==
    ASSUME GateTypeOK, NEW d \in Delivery, deliveries' = Append(deliveries, d)
    PROVE  /\ deliveries' \in Seq(Delivery) /\ Len(deliveries) \in Nat
           /\ Len(deliveries') = Len(deliveries) + 1
           /\ \A i \in 1 .. Len(deliveries) :
                 /\ deliveries[i] \in Delivery /\ deliveries'[i] = deliveries[i]
                 /\ i \in 1 .. Len(deliveries')
           /\ deliveries'[Len(deliveries) + 1] = d
           /\ \A i \in 1 .. Len(deliveries') :
                 i \in 1 .. Len(deliveries) \/ i = Len(deliveries) + 1
           /\ Len(deliveries) + 1 \in 1 .. Len(deliveries')
<1>1. deliveries \in Seq(Delivery) /\ \A i \in 1 .. Len(deliveries) : deliveries[i] \in Delivery
  BY Shapes
<1> QED
  BY <1>1, AppendFacts

\* A commit or a repair frame: no reset is pending, so every input has a
\* revision up to the old one.
LEMMA DurableKeeps ==
    ASSUME GateInv, NEW kind \in {"Advance", "Repair"}, NEW r \in 1 .. MaxRevision,
           Durable(kind, r)
    PROVE  GateInv'
<1> DEFINE d == [kind |-> kind, durable |-> r]
<1>1. /\ ~resetting /\ r \in revision + 1 .. MaxRevision
      /\ revision' = r /\ announced' = r /\ deliveries' = Append(deliveries, d)
      /\ UNCHANGED <<published, presented, wire, gate, outstanding, resets, resetting, shown,
                     predicted>>
  BY DEF Durable
<1>2. GateTypeOK
  BY DEF GateInv
<1>3. /\ revision \in Nat /\ r \in Int /\ revision < r /\ r \in 0 .. MaxRevision
      /\ announced \in Int /\ published \in Int /\ presented.durable \in Int
      /\ MaxRevision \in Nat
  BY <1>1, <1>2, ProjectionGateAssumption DEF GateTypeOK, Points
<1>4. d \in Delivery /\ d.durable = r /\ d.kind # "Reset"
  BY <1>3 DEF Delivery
<1> HIDE DEF d
<1>5. /\ deliveries' \in Seq(Delivery) /\ Len(deliveries) \in Nat
      /\ Len(deliveries') = Len(deliveries) + 1
      /\ \A i \in 1 .. Len(deliveries) :
            /\ deliveries[i] \in Delivery /\ deliveries'[i] = deliveries[i]
            /\ i \in 1 .. Len(deliveries')
      /\ deliveries'[Len(deliveries) + 1] = d
      /\ \A i \in 1 .. Len(deliveries') : i \in 1 .. Len(deliveries) \/ i = Len(deliveries) + 1
      /\ Len(deliveries) + 1 \in 1 .. Len(deliveries')
  BY <1>1, <1>2, <1>4, DeliveryAppended
<1>6. GateTypeOK'
  BY <1>1, <1>2, <1>3, <1>5 DEF GateTypeOK, Delivery
<1>7. CountsOK'
  <2>1. published <= announced /\ announced <= revision /\ presented.durable \in 0 .. revision
    BY DEF GateInv, CountsOK
  <2>2. \A i \in 1 .. Len(deliveries) :
           deliveries[i].durable \in presented.durable .. revision
    BY DEF GateInv, CountsOK
  <2>3. \A i, j \in 1 .. Len(deliveries) :
           i < j => deliveries[i].durable <= deliveries[j].durable
    BY DEF GateInv, CountsOK
  <2>4. \A i \in 1 .. Len(deliveries') :
           deliveries'[i].durable \in presented'.durable .. revision'
    BY <1>1, <1>3, <1>4, <1>5, <2>1, <2>2
  <2>5. ASSUME NEW i \in 1 .. Len(deliveries'), NEW j \in 1 .. Len(deliveries'), i < j
        PROVE  deliveries'[i].durable <= deliveries'[j].durable
    <3>1. i \in 1 .. Len(deliveries)
      BY <1>5, <2>5
    <3>2. CASE j \in 1 .. Len(deliveries)
      BY <1>5, <2>3, <2>5, <3>1, <3>2
    <3>3. CASE j = Len(deliveries) + 1
      BY <1>3, <1>4, <1>5, <2>1, <2>2, <3>1, <3>3
    <3> QED
      BY <1>5, <3>2, <3>3
  <2>6. announced' <= deliveries'[Len(deliveries) + 1].durable
    BY <1>1, <1>3, <1>4, <1>5
  <2>7. /\ published' <= announced' /\ announced' <= revision'
        /\ presented'.durable \in 0 .. revision'
    BY <1>1, <1>3, <2>1
  <2> QED
    BY <1>5, <2>4, <2>5, <2>6, <2>7 DEF CountsOK
<1>8. ResettingOK'
  <2>1. \A i \in 1 .. Len(deliveries) : deliveries[i].kind # "Reset"
    BY <1>1 DEF GateInv, ResettingOK
  <2>2. \A i \in 1 .. Len(deliveries') : deliveries'[i].kind # "Reset"
    BY <1>4, <1>5, <2>1
  <2> QED
    BY <1>1, <2>2 DEF ResettingOK
<1>9. /\ WireOK' /\ WindowOK' /\ CanonicalOK' /\ PresentedOK' /\ LastOK'
      /\ FreshReset => FreshReset'
  BY <1>1, WindowUntouched
<1>10. AwaitingOK'
  BY <1>1, <1>9 DEF GateInv, AwaitingOK
<1> QED
  BY <1>6, <1>7, <1>8, <1>9, <1>10 DEF GateInv

\* A grant that fails on the extension lane grows the revision alone, and not
\* while a reset is pending.
LEMMA GrantFailsKeeps ==
    ASSUME GateInv, GrantFails
    PROVE  GateInv'
<1>1. /\ ~resetting /\ revision < MaxRevision /\ revision' = revision + 1
      /\ UNCHANGED <<announced, published, deliveries, presented, wire, gate, outstanding,
                     resets, resetting, shown, predicted>>
  BY DEF GrantFails
<1>2. GateTypeOK
  BY DEF GateInv
<1>3. GateTypeOK'
  BY <1>1, <1>2, ProjectionGateAssumption DEF GateTypeOK
<1>4. CountsOK'
  <2>1. revision \in Nat /\ announced \in Int /\ presented.durable \in Int
    BY <1>2, ProjectionGateAssumption DEF GateTypeOK, Points
  <2>2. /\ published <= announced /\ announced <= revision
        /\ presented.durable \in 0 .. revision
        /\ \A i \in 1 .. Len(deliveries) :
              deliveries[i].durable \in presented.durable .. revision
    BY DEF GateInv, CountsOK
  <2>3. /\ announced <= revision + 1 /\ presented.durable \in 0 .. revision + 1
        /\ \A i \in 1 .. Len(deliveries) :
              deliveries[i].durable \in presented.durable .. revision + 1
    BY <2>1, <2>2
  <2>4. /\ \A i, j \in 1 .. Len(deliveries) :
              i < j => deliveries[i].durable <= deliveries[j].durable
        /\ \/ announced <= presented.durable
           \/ \E i \in 1 .. Len(deliveries) : announced <= deliveries[i].durable
    BY DEF GateInv, CountsOK
  <2> QED
    BY <1>1, <2>2, <2>3, <2>4 DEF CountsOK
<1>5. ResettingOK'
  BY <1>1 DEF GateInv, ResettingOK
<1>6. /\ WireOK' /\ WindowOK' /\ CanonicalOK' /\ PresentedOK' /\ LastOK'
      /\ FreshReset => FreshReset'
  BY <1>1, WindowUntouched
<1>7. AwaitingOK'
  BY <1>1, <1>6 DEF GateInv, AwaitingOK
<1> QED
  BY <1>3, <1>4, <1>5, <1>6, <1>7 DEF GateInv

\* Publishing posts the announced revision, which no earlier canonical
\* projection exceeds; a reset on the wire is ahead of it and stays fresh.
LEMMA PublishKeeps ==
    ASSUME GateInv, Publish
    PROVE  GateInv'
<1> DEFINE m == Canonical(announced)
<1>1. /\ published < announced /\ published' = announced /\ wire' = Append(wire, m)
      /\ UNCHANGED <<revision, announced, deliveries, presented, gate, outstanding, resets,
                     resetting, shown, predicted>>
  BY DEF Publish
<1>2. GateTypeOK
  BY DEF GateInv
<1>3. /\ wire \in Seq(Message) /\ Len(wire) \in Nat
      /\ announced \in Nat /\ published \in Nat /\ gate.canonical \in Int
  BY <1>2, Shapes DEF GateTypeOK
<1>4. m \in Message /\ ~Session(m) /\ m.at.durable = announced
  BY <1>3, ProjectionGateAssumption DEF Canonical, Message, Points, Point, Session
<1> HIDE DEF m
<1>5. /\ wire' \in Seq(Message) /\ Len(wire') = Len(wire) + 1
      /\ \A i \in 1 .. Len(wire) : wire'[i] = wire[i] /\ i \in 1 .. Len(wire')
      /\ wire'[Len(wire) + 1] = m
      /\ \A i \in 1 .. Len(wire') : i \in 1 .. Len(wire) \/ i = Len(wire) + 1
      /\ Len(wire) + 1 \in 1 .. Len(wire')
  BY <1>1, <1>3, <1>4, AppendFacts
<1>6. GateTypeOK'
  BY <1>1, <1>2, <1>5 DEF GateTypeOK, Message
<1>7. CountsOK' /\ ResettingOK'
  <2>1. CountsOK /\ ResettingOK
    BY DEF GateInv
  <2>2. CountsOK'
    BY <1>1, <1>3, <2>1 DEF CountsOK
  <2>3. ResettingOK'
    BY <1>1, <2>1 DEF ResettingOK
  <2> QED
    BY <2>2, <2>3
<1>8. WireOK'
  <2>1. WireOK
    BY DEF GateInv
  <2>2. ASSUME NEW i \in 1 .. Len(wire'), Session(wire'[i])
        PROVE  i \in 1 .. Len(wire) /\ Between(gate'.cursor, wire'[i], presented')
    BY <1>1, <1>4, <1>5, <2>1, <2>2 DEF WireOK
  <2>3. ASSUME NEW i \in 1 .. Len(wire'), ~Session(wire'[i])
        PROVE  wire'[i].at.durable \in 0 .. published'
    <3>1. CASE i \in 1 .. Len(wire)
      BY <1>1, <1>3, <1>5, <2>1, <2>3, <3>1 DEF WireOK
    <3>2. CASE i = Len(wire) + 1
      BY <1>1, <1>3, <1>4, <1>5, <3>2
    <3> QED
      BY <1>5, <3>1, <3>2
  <2>4. ASSUME NEW i \in 1 .. Len(wire'), NEW j \in 1 .. Len(wire'),
               i < j, Session(wire'[i]), Session(wire'[j])
        PROVE  Earlier(wire'[i].at, wire'[j].at)
    BY <1>5, <2>1, <2>2, <2>4 DEF WireOK
  <2> QED
    BY <2>2, <2>3, <2>4 DEF WireOK
<1>9. WindowOK'
  BY <1>1, <1>3 DEF GateInv, WindowOK, None
<1>10. CanonicalOK'
  BY <1>1, <1>4, <1>5 DEF CanonicalOK
<1>11. PresentedOK' /\ LastOK'
  BY <1>1, <1>4, <1>5 DEF GateInv, PresentedOK, LastOK
<1>12. ASSUME FreshReset PROVE FreshReset'
  <2>1. PICK j \in 1 .. Len(wire) :
          /\ wire[j].kind = "Reset"
          /\ gate.canonical <= wire[j].at.durable
          /\ \A i \in 1 .. j - 1 : ~Session(wire[i]) => wire[i].at.durable <= wire[j].at.durable
    BY <1>12 DEF FreshReset
  <2>2. 1 .. j - 1 \subseteq 1 .. Len(wire)
    BY <1>3
  <2> QED
    BY <1>1, <1>5, <2>1, <2>2 DEF FreshReset
<1>13. AwaitingOK'
  BY <1>1, <1>12 DEF GateInv, AwaitingOK
<1> QED
  BY <1>6, <1>7, <1>8, <1>9, <1>10, <1>11, <1>13 DEF GateInv

\* A reset request begins: its input carries the current revision and is the
\* only reset among the inputs.
LEMMA BeginResetKeeps ==
    ASSUME GateInv, BeginReset
    PROVE  GateInv'
<1> DEFINE d == [kind |-> "Reset", durable |-> revision]
<1>1. /\ ~resetting /\ resets > 0 /\ resets' = resets - 1 /\ resetting' = TRUE
      /\ deliveries' = Append(deliveries, d)
      /\ UNCHANGED <<revision, announced, published, presented, wire, gate, outstanding,
                     shown, predicted>>
  BY DEF BeginReset
<1>2. GateTypeOK
  BY DEF GateInv
<1>3. /\ revision \in Nat /\ revision \in 0 .. MaxRevision
      /\ announced \in Int /\ presented.durable \in Int
  BY <1>2, ProjectionGateAssumption DEF GateTypeOK, Points
<1>4. d \in Delivery /\ d.durable = revision /\ d.kind = "Reset"
  BY <1>3 DEF Delivery
<1> HIDE DEF d
<1>5. /\ deliveries' \in Seq(Delivery) /\ Len(deliveries) \in Nat
      /\ Len(deliveries') = Len(deliveries) + 1
      /\ \A i \in 1 .. Len(deliveries) :
            /\ deliveries[i] \in Delivery /\ deliveries'[i] = deliveries[i]
            /\ i \in 1 .. Len(deliveries')
      /\ deliveries'[Len(deliveries) + 1] = d
      /\ \A i \in 1 .. Len(deliveries') : i \in 1 .. Len(deliveries) \/ i = Len(deliveries) + 1
      /\ Len(deliveries) + 1 \in 1 .. Len(deliveries')
  BY <1>1, <1>2, <1>4, DeliveryAppended
<1>6. GateTypeOK'
  BY <1>1, <1>2, <1>5 DEF GateTypeOK, Delivery
<1>7. CountsOK'
  <2>1. CountsOK
    BY DEF GateInv
  <2>2. \A i \in 1 .. Len(deliveries') :
           deliveries'[i].durable \in presented'.durable .. revision'
    BY <1>1, <1>3, <1>4, <1>5, <2>1 DEF CountsOK
  <2>3. ASSUME NEW i \in 1 .. Len(deliveries'), NEW j \in 1 .. Len(deliveries'), i < j
        PROVE  deliveries'[i].durable <= deliveries'[j].durable
    <3>1. i \in 1 .. Len(deliveries)
      BY <1>5, <2>3
    <3>2. CASE j \in 1 .. Len(deliveries)
      BY <1>5, <2>1, <2>3, <3>1, <3>2 DEF CountsOK
    <3>3. CASE j = Len(deliveries) + 1
      BY <1>3, <1>4, <1>5, <2>1, <3>1, <3>3 DEF CountsOK
    <3> QED
      BY <1>5, <3>2, <3>3
  <2>4. announced' <= deliveries'[Len(deliveries) + 1].durable
    BY <1>1, <1>4, <1>5, <2>1 DEF CountsOK
  <2> QED
    BY <1>1, <1>5, <2>1, <2>2, <2>3, <2>4 DEF CountsOK
<1>8. ResettingOK'
  <2>1. \A i \in 1 .. Len(deliveries) : deliveries[i].kind # "Reset"
    BY <1>1 DEF GateInv, ResettingOK
  <2>2. \A i \in 1 .. Len(deliveries') :
           deliveries'[i].kind = "Reset" => i = Len(deliveries) + 1
    BY <1>5, <2>1
  <2> QED
    BY <1>1, <1>4, <1>5, <2>2 DEF ResettingOK
<1>9. WireOK' /\ WindowOK' /\ CanonicalOK' /\ PresentedOK' /\ LastOK'
  BY <1>1, WindowUntouched
<1>10. AwaitingOK'
  BY <1>1 DEF GateInv, AwaitingOK
<1> QED
  BY <1>6, <1>7, <1>8, <1>9, <1>10 DEF GateInv

(***************************************************************************)
(* The session task.                                                       *)
(***************************************************************************)

\* An input that is handled becomes what is presented: the inputs behind it
\* lead on from there, and the reset among them, if it was this one, is over.
LEMMA InputTaken ==
    ASSUME GateTypeOK, CountsOK, ResettingOK, deliveries # <<>>,
           deliveries' = Tail(deliveries),
           presented' \in Points, presented'.durable = Head(deliveries).durable,
           resetting' = (resetting /\ Head(deliveries).kind # "Reset"),
           UNCHANGED <<revision, announced, published>>
    PROVE  /\ Head(deliveries) \in Delivery
           /\ Head(deliveries).durable \in presented.durable .. revision
           /\ Head(deliveries).kind = "Reset" => Head(deliveries).durable = revision
           /\ deliveries' \in Seq(Delivery)
           /\ CountsOK' /\ ResettingOK'
<1> DEFINE n == Len(deliveries)
<1>1. deliveries \in Seq(Delivery)
  BY Shapes
<1>2. /\ deliveries' \in Seq(Delivery) /\ n \in Nat \ {0} /\ Len(deliveries') = n - 1
      /\ \A i \in 1 .. n - 1 : deliveries'[i] = deliveries[i + 1]
      /\ Head(deliveries) = deliveries[1]
      /\ \A i \in 1 .. n : deliveries[i] \in Delivery
  BY <1>1, TailFacts
<1> HIDE DEF n
<1>3. /\ 1 \in 1 .. n /\ \A i \in 1 .. n - 1 : i + 1 \in 1 .. n
      /\ \A i \in 1 .. n : i # 1 => i - 1 \in 1 .. n - 1 /\ (i - 1) + 1 = i
  BY <1>2
<1>4. /\ revision \in Nat /\ announced \in Int /\ published \in Int
      /\ presented.durable \in Int
      /\ \A i \in 1 .. n : deliveries[i].durable \in Int
  BY <1>2, ProjectionGateAssumption DEF GateTypeOK, Points, Delivery
<1>5. /\ \A i \in 1 .. n : deliveries[i].durable \in presented.durable .. revision
      /\ \A i, j \in 1 .. n : i < j => deliveries[i].durable <= deliveries[j].durable
      /\ published <= announced /\ announced <= revision
      /\ presented.durable \in 0 .. revision
      /\ \/ announced <= presented.durable
         \/ \E i \in 1 .. n : announced <= deliveries[i].durable
  BY DEF CountsOK, n
<1>6. CountsOK'
  <2>1. presented'.durable \in 0 .. revision'
    BY <1>2, <1>3, <1>4, <1>5
  <2>2. ASSUME NEW i \in 1 .. Len(deliveries')
        PROVE  deliveries'[i].durable \in presented'.durable .. revision'
    BY <1>2, <1>3, <1>4, <1>5
  <2>3. ASSUME NEW i \in 1 .. Len(deliveries'), NEW j \in 1 .. Len(deliveries'), i < j
        PROVE  deliveries'[i].durable <= deliveries'[j].durable
    BY <1>2, <1>3, <1>5, <2>3
  <2>4. \/ announced' <= presented'.durable
        \/ \E i \in 1 .. Len(deliveries') : announced' <= deliveries'[i].durable
    <3>1. CASE announced <= presented.durable
      <4>1. presented.durable <= deliveries[1].durable /\ deliveries[1].durable \in Int
        BY <1>3, <1>4, <1>5
      <4> QED
        BY <1>2, <1>4, <3>1, <4>1
    <3>2. CASE \E i \in 1 .. n : announced <= deliveries[i].durable
      <4>1. PICK i \in 1 .. n : announced <= deliveries[i].durable
        BY <3>2
      <4>2. CASE i = 1
        BY <1>2, <4>1, <4>2
      <4>3. CASE i # 1
        <5>1. /\ i - 1 \in 1 .. Len(deliveries')
              /\ deliveries'[i - 1].durable = deliveries[i].durable
          BY <1>2, <1>3, <4>3
        <5> QED
          BY <4>1, <5>1
      <4> QED
        BY <4>2, <4>3
    <3> QED
      BY <1>5, <3>1, <3>2
  <2> QED
    BY <1>5, <2>1, <2>2, <2>3, <2>4 DEF CountsOK
<1>7. /\ resetting => \E i \in 1 .. n : deliveries[i].kind = "Reset"
      /\ \A i \in 1 .. n :
            deliveries[i].kind = "Reset" => resetting /\ deliveries[i].durable = revision
      /\ \A i, j \in 1 .. n :
            deliveries[i].kind = "Reset" /\ deliveries[j].kind = "Reset" => i = j
  BY DEF ResettingOK, n
<1>8. ResettingOK'
  <2>1. resetting' => \E i \in 1 .. Len(deliveries') : deliveries'[i].kind = "Reset"
    <3> SUFFICES ASSUME resetting'
                 PROVE  \E i \in 1 .. Len(deliveries') : deliveries'[i].kind = "Reset"
      OBVIOUS
    <3>1. PICK i \in 1 .. n : deliveries[i].kind = "Reset"
      BY <1>7
    <3>2. i # 1
      BY <1>2, <3>1
    <3>3. i - 1 \in 1 .. n - 1 /\ (i - 1) + 1 = i
      BY <1>2, <3>2
    <3>4. deliveries'[i - 1] = deliveries[i]
      BY <1>2, <3>3
    <3>5. i - 1 \in 1 .. Len(deliveries')
      BY <1>2, <3>3
    <3> QED
      BY <3>1, <3>4, <3>5
  <2>2. ASSUME NEW i \in 1 .. Len(deliveries'), deliveries'[i].kind = "Reset"
        PROVE  resetting' /\ deliveries'[i].durable = revision'
    <3>1. /\ deliveries[i + 1].kind = "Reset" /\ i + 1 \in 1 .. n /\ i + 1 # 1
          /\ deliveries'[i].durable = deliveries[i + 1].durable
      BY <1>2, <1>3, <2>2
    <3> QED
      BY <1>2, <1>3, <1>7, <3>1
  <2>3. ASSUME NEW i \in 1 .. Len(deliveries'), NEW j \in 1 .. Len(deliveries'),
               deliveries'[i].kind = "Reset", deliveries'[j].kind = "Reset"
        PROVE  i = j
    <3>1. i + 1 = j + 1
      BY <1>2, <1>3, <1>7, <2>3
    <3> QED
      BY <1>2, <3>1
  <2> QED
    BY <2>1, <2>2, <2>3 DEF ResettingOK
<1> QED
  BY <1>2, <1>3, <1>5, <1>6, <1>7, <1>8

\* Without an active session there is nothing on the wire, shown or asked for
\* that depends on what is presented.
LEMMA NoSession ==
    ASSUME GateInv, presented.epoch = 0
    PROVE  /\ \A i \in 1 .. Len(wire) : ~Session(wire[i])
           /\ gate.cursor.epoch = 0 /\ ~outstanding /\ ~gate.awaiting
<1>1. /\ GateTypeOK /\ gate.cursor \in Points /\ presented \in Points
      /\ \A i \in 1 .. Len(wire) : wire[i].at \in Points
  BY Shapes DEF GateInv, GateTypeOK
<1>2. \A q \in Points : Upto(q, presented) => q.epoch = 0
  BY <1>1 DEF Upto, Earlier, Points
<1>3. \A i \in 1 .. Len(wire) : ~Session(wire[i])
  BY <1>1, <1>2 DEF GateInv, WireOK, Between
<1>4. gate.cursor.epoch = 0
  BY <1>1, <1>2 DEF GateInv, WindowOK
<1> QED
  BY <1>3, <1>4 DEF GateInv, AwaitingOK

\* An input without an active session only moves the presented frontier.
LEMMA HandleInactive ==
    ASSUME GateInv, HandleInput, presented.epoch = 0
    PROVE  GateInv'
<1> DEFINE i == Head(deliveries)
<1>1. /\ deliveries # <<>> /\ deliveries' = Tail(deliveries)
      /\ presented' = [presented EXCEPT !.durable = i.durable] /\ UNCHANGED wire
      /\ resetting' = (resetting /\ i.kind # "Reset")
      /\ outstanding' = (outstanding /\ (i.kind = "Reset" => FALSE))
      /\ UNCHANGED <<revision, announced, published, gate, resets, shown, predicted>>
  BY DEF HandleInput
<1>2. GateTypeOK /\ presented \in Points
  BY DEF GateInv, GateTypeOK
<1>3. i \in Delivery
  BY <1>1, <1>2, Shapes, TailFacts
<1>4. presented' \in Points /\ presented'.durable = i.durable /\ presented'.epoch = 0
  BY <1>1, <1>2, <1>3, ProjectionGateAssumption DEF Points, Delivery
<1>5. deliveries' \in Seq(Delivery) /\ CountsOK' /\ ResettingOK'
  BY <1>1, <1>2, <1>4, InputTaken DEF GateInv
<1>6. /\ \A j \in 1 .. Len(wire) : ~Session(wire[j])
      /\ gate.cursor.epoch = 0 /\ ~outstanding /\ ~gate.awaiting
  BY NoSession
<1>7. GateTypeOK'
  BY <1>1, <1>2, <1>4, <1>5 DEF GateTypeOK, Delivery
<1>8. WireOK'
  BY <1>1, <1>6 DEF GateInv, WireOK
<1>9. WindowOK'
  BY <1>1, <1>6 DEF GateInv, WindowOK
<1>10. AwaitingOK' /\ CanonicalOK' /\ PresentedOK' /\ LastOK'
  BY <1>1, <1>4, <1>6 DEF GateInv, AwaitingOK, CanonicalOK, PresentedOK, LastOK
<1> QED
  BY <1>5, <1>7, <1>8, <1>9, <1>10 DEF GateInv

\* The cases of an input of an active session: nothing new, the next revision,
\* or a reset of the projection.
LEMMA HandleCases ==
    ASSUME HandleInput, presented.epoch # 0
    PROVE  LET i == Head(deliveries)
           IN  \/ i.kind = "Advance" /\ i.durable <= presented.durable
                     /\ UNCHANGED <<presented, wire>>
               \/ i.kind = "Advance" /\ Emit("Advanced", NextSequence(presented, i.durable))
               \/ Emit("Reset", NextGeneration(presented, i.durable))
  BY DEF HandleInput, AdvanceDurable

\* Every other input of an active session is presented, and a pending reset
\* request is answered by a Reset as fresh as the worker's revision.
LEMMA HandleActive ==
    ASSUME GateInv, HandleInput, presented.epoch # 0
    PROVE  GateInv'
<1> DEFINE i == Head(deliveries)
<1>1. /\ deliveries # <<>> /\ deliveries' = Tail(deliveries)
      /\ resetting' = (resetting /\ i.kind # "Reset")
      /\ outstanding' = outstanding
      /\ UNCHANGED <<revision, announced, published, gate, resets, shown, predicted>>
  BY DEF HandleInput, GateInv, GateTypeOK
<1>2. GateTypeOK /\ CountsOK /\ ResettingOK /\ WireOK /\ WindowOK /\ CanonicalOK
  BY DEF GateInv
<1>3. /\ presented \in Points /\ deliveries \in Seq(Delivery)
      /\ Len(deliveries) \in Nat \ {0} /\ i = deliveries[1] /\ i \in Delivery
  BY <1>1, <1>2, Shapes, TailFacts DEF GateTypeOK
<1>4. i.durable \in Int /\ presented.durable <= i.durable /\ presented.durable \in Int
  <2> HIDE DEF i
  <2>1. i.durable \in Int /\ presented.durable \in Int /\ revision \in Int
    <3>1. i.durable \in Int
      BY <1>3, ProjectionGateAssumption DEF Delivery
    <3> QED
      BY <1>2, <1>3, <3>1, ProjectionGateAssumption DEF GateTypeOK, Points
  <2>2. 1 \in 1 .. Len(deliveries)
    BY <1>3
  <2>3. deliveries[1].durable \in presented.durable .. revision
    BY <1>2, <2>2 DEF CountsOK
  <2> QED
    BY <1>3, <2>1, <2>3
<1>5. i.kind = "Reset" => published <= i.durable /\ gate.canonical <= i.durable
  BY <1>2, <1>3, ProjectionGateAssumption, SMTT(60)
  DEF ResettingOK, CountsOK, WindowOK, GateTypeOK, None, Delivery
<1> HIDE DEF i
<1>6. CASE i.kind = "Advance" /\ i.durable <= presented.durable
             /\ UNCHANGED <<presented, wire>>
  <2>1. presented' \in Points /\ presented'.durable = i.durable
    BY <1>3, <1>4, <1>6
  <2>2. deliveries' \in Seq(Delivery) /\ CountsOK' /\ ResettingOK'
    BY <1>1, <1>2, <2>1, InputTaken DEF i
  <2>3. /\ WireOK' /\ WindowOK' /\ CanonicalOK' /\ PresentedOK' /\ LastOK'
        /\ FreshReset => FreshReset'
    BY <1>1, <1>6, WindowUntouched
  <2>4. AwaitingOK'
    BY <1>1, <1>6, <2>3 DEF GateInv, AwaitingOK
  <2>5. GateTypeOK'
    BY <1>1, <1>2, <1>6, <2>2 DEF GateTypeOK, Delivery
  <2> QED
    BY <2>2, <2>3, <2>4, <2>5 DEF GateInv
<1>7. ASSUME NEW kind \in {"Advanced", "Reset"}, NEW p \in Points, Emit(kind, p),
             Earlier(presented, p), p.epoch = presented.epoch, p.durable = i.durable,
             kind = "Reset" => p.sequence = 0,
             i.kind = "Reset" => kind = "Reset"
      PROVE  GateInv'
  <2>1. presented' = p
    BY <1>7 DEF Emit
  <2>2. deliveries' \in Seq(Delivery) /\ CountsOK' /\ ResettingOK'
    BY <1>1, <1>2, <1>7, <2>1, InputTaken DEF i
  <2>3. kind \in SessionKinds
    BY <1>7 DEF SessionKinds
  <2>4. /\ wire' \in Seq(Message)
        /\ WireOK' /\ WindowOK' /\ CanonicalOK' /\ PresentedOK' /\ LastOK'
        /\ FreshReset => FreshReset'
        /\ kind = "Reset" /\ gate.canonical <= p.durable /\ published <= p.durable
              => FreshReset'
    BY <1>1, <1>2, <1>7, <2>3, EmitKeeps
  <2>5. AwaitingOK'
    BY <1>1, <1>5, <1>7, <2>1, <2>4 DEF GateInv, AwaitingOK
  <2>6. GateTypeOK'
    BY <1>1, <1>2, <1>7, <2>1, <2>2, <2>4 DEF GateTypeOK, Delivery, Message
  <2> QED
    BY <2>2, <2>4, <2>5, <2>6 DEF GateInv
<1>8. CASE i.kind = "Advance" /\ Emit("Advanced", NextSequence(presented, i.durable))
  BY <1>3, <1>4, <1>7, <1>8, Successors
<1>9. CASE Emit("Reset", NextGeneration(presented, i.durable))
  BY <1>3, <1>4, <1>7, <1>9, Successors
<1> QED
  BY <1>6, <1>8, <1>9, HandleCases DEF i

\* A prediction and a new epoch post one more session projection.
LEMMA PredictKeeps ==
    ASSUME GateInv, Predict
    PROVE  GateInv'
<1> DEFINE p == NextSequence(presented, presented.durable)
<1>1. /\ presented.epoch # 0 /\ predicted < MaxPredicted /\ predicted' = predicted + 1
      /\ Emit("Predicted", p)
      /\ UNCHANGED <<revision, announced, published, deliveries, gate, outstanding, resets,
                     resetting, shown>>
  BY DEF Predict
<1>2. GateTypeOK /\ CountsOK /\ WireOK /\ WindowOK /\ CanonicalOK /\ presented \in Points
      /\ presented.durable \in Int
  BY DEF GateInv, GateTypeOK, Points
<1>3. /\ p \in Points /\ Earlier(presented, p) /\ p.epoch = presented.epoch
      /\ p.durable = presented.durable
  BY <1>2, Successors
<1> HIDE DEF p
<1>4. presented' = p
  BY <1>1 DEF Emit
<1>5. /\ wire' \in Seq(Message)
      /\ WireOK' /\ WindowOK' /\ CanonicalOK' /\ PresentedOK' /\ LastOK'
      /\ FreshReset => FreshReset'
  BY <1>1, <1>2, <1>3, EmitKeeps DEF SessionKinds
<1>6. CountsOK' /\ ResettingOK'
  BY <1>1, <1>3, <1>4 DEF GateInv, CountsOK, ResettingOK
<1>7. AwaitingOK'
  BY <1>1, <1>3, <1>4, <1>5 DEF GateInv, AwaitingOK
<1>8. GateTypeOK'
  <2>1. predicted' \in 0 .. MaxPredicted
    BY <1>1, <1>2, ProjectionGateAssumption DEF GateTypeOK
  <2> QED
    BY <1>1, <1>2, <1>3, <1>4, <1>5, <2>1 DEF GateTypeOK, Message
<1> QED
  BY <1>5, <1>6, <1>7, <1>8 DEF GateInv

\* A new epoch keeps the invariant of the gate.
LEMMA InstallEpochKeeps ==
    ASSUME GateInv, InstallEpoch
    PROVE  GateInv'
<1> DEFINE p == Point(presented.epoch + 1, 1, 0, presented.durable)
<1>1. /\ presented.epoch < MaxEpoch /\ Emit("Reset", p)
      /\ UNCHANGED <<revision, announced, published, deliveries, gate, outstanding, resets,
                     resetting, shown, predicted>>
  BY DEF InstallEpoch
<1>2. GateTypeOK /\ CountsOK /\ WireOK /\ WindowOK /\ CanonicalOK /\ presented \in Points
  BY DEF GateInv, GateTypeOK
<1>3. /\ p \in Points /\ Earlier(presented, p) /\ p.epoch # 0
      /\ p.durable = presented.durable /\ p.sequence = 0
  BY <1>1, <1>2, ProjectionGateAssumption DEF Points, Point, Earlier
<1> HIDE DEF p
<1>4. presented' = p
  BY <1>1 DEF Emit
<1>5. /\ wire' \in Seq(Message)
      /\ WireOK' /\ WindowOK' /\ CanonicalOK' /\ PresentedOK' /\ LastOK'
      /\ FreshReset => FreshReset'
  BY <1>1, <1>2, <1>3, EmitKeeps DEF SessionKinds
<1>6. CountsOK' /\ ResettingOK'
  BY <1>1, <1>3, <1>4 DEF GateInv, CountsOK, ResettingOK
<1>7. AwaitingOK'
  BY <1>1, <1>3, <1>4, <1>5 DEF GateInv, AwaitingOK
<1>8. GateTypeOK'
  BY <1>1, <1>2, <1>3, <1>4, <1>5 DEF GateTypeOK, Message
<1> QED
  BY <1>5, <1>6, <1>7, <1>8 DEF GateInv

(***************************************************************************)
(* The window.                                                             *)
(***************************************************************************)

\* The message received was the first one, and the others move up.
LEMMA MessageTaken ==
    ASSUME GateTypeOK, wire # <<>>, wire' = Tail(wire)
    PROVE  /\ wire' \in Seq(Message) /\ Len(wire) \in Nat \ {0}
           /\ Head(wire) = wire[1] /\ 1 \in 1 .. Len(wire)
           /\ \A i \in 1 .. Len(wire) : wire[i] \in Message /\ wire[i].at \in Points
           /\ Len(wire') = Len(wire) - 1
           /\ \A i \in 1 .. Len(wire') :
                 i + 1 \in 1 .. Len(wire) /\ i + 1 > 1 /\ wire'[i] = wire[i + 1]
           /\ \A i \in 1 .. Len(wire) :
                 i # 1 => i - 1 \in 1 .. Len(wire') /\ wire'[i - 1] = wire[i]
<1>1. wire \in Seq(Message) /\ \A i \in 1 .. Len(wire) : wire[i] \in Message /\ wire[i].at \in Points
  BY Shapes
<1>2. /\ wire' \in Seq(Message) /\ Len(wire) \in Nat \ {0} /\ Len(wire') = Len(wire) - 1
      /\ \A i \in 1 .. Len(wire) - 1 : wire'[i] = wire[i + 1]
      /\ Head(wire) = wire[1]
  BY <1>1, TailFacts
<1>3. \A i \in 1 .. Len(wire) :
         i # 1 => i - 1 \in 1 .. Len(wire') /\ (i - 1) + 1 = i
  BY <1>2
<1>4. \A i \in 1 .. Len(wire') : i + 1 \in 1 .. Len(wire) /\ i + 1 > 1
  BY <1>2
<1> QED
  BY <1>1, <1>2, <1>3, <1>4

\* The wire keeps its order when its first message is taken, if the cursor
\* stays or moves to that message.
LEMMA WireKeptInOrder ==
    ASSUME GateInv, wire # <<>>, wire' = Tail(wire), UNCHANGED <<presented, published>>,
           \/ gate'.cursor = gate.cursor
           \/ Session(Head(wire)) /\ gate'.cursor = Head(wire).at
    PROVE  WireOK'
<1>1. GateTypeOK /\ WireOK
  BY DEF GateInv
<1>2. /\ Len(wire) \in Nat \ {0} /\ Head(wire) = wire[1] /\ 1 \in 1 .. Len(wire)
      /\ \A i \in 1 .. Len(wire') :
            i + 1 \in 1 .. Len(wire) /\ i + 1 > 1 /\ wire'[i] = wire[i + 1]
      /\ Len(wire') = Len(wire) - 1
  BY <1>1, MessageTaken
<1>3. ASSUME NEW i \in 1 .. Len(wire'), Session(wire'[i])
      PROVE  Between(gate'.cursor, wire'[i], presented')
  <2>1. /\ Between(gate.cursor, wire[i + 1], presented)
        /\ Session(wire[1]) => Earlier(wire[1].at, wire[i + 1].at)
    BY <1>1, <1>2, <1>3 DEF WireOK
  <2> QED
    BY <1>2, <2>1 DEF Between
<1>4. ASSUME NEW i \in 1 .. Len(wire'), ~Session(wire'[i])
      PROVE  wire'[i].at.durable \in 0 .. published'
  BY <1>1, <1>2, <1>4 DEF WireOK
<1>5. ASSUME NEW i \in 1 .. Len(wire'), NEW j \in 1 .. Len(wire'), i < j,
             Session(wire'[i]), Session(wire'[j])
      PROVE  Earlier(wire'[i].at, wire'[j].at)
  <2>1. i + 1 < j + 1
    BY <1>2, <1>5
  <2> QED
    BY <1>1, <1>2, <1>5, <2>1 DEF WireOK
<1> QED
  BY <1>3, <1>4, <1>5 DEF WireOK

\* A fresh reset behind the first message stays fresh, if the gate's canonical
\* revision stays or becomes that of the first message.
LEMMA ResetStaysFresh ==
    ASSUME GateInv, wire # <<>>, wire' = Tail(wire), FreshReset,
           \/ gate'.canonical = gate.canonical
           \/ ~Session(Head(wire)) /\ gate'.canonical = Head(wire).at.durable,
           Head(wire).kind = "Reset" => Head(wire).at.durable < gate.canonical
    PROVE  FreshReset'
<1>1. GateTypeOK /\ gate.canonical \in Int
  BY Shapes DEF GateInv
<1>2. /\ Len(wire) \in Nat \ {0} /\ Head(wire) = wire[1] /\ 1 \in 1 .. Len(wire)
      /\ \A i \in 1 .. Len(wire) : wire[i] \in Message /\ wire[i].at \in Points
      /\ \A i \in 1 .. Len(wire) :
            i # 1 => i - 1 \in 1 .. Len(wire') /\ wire'[i - 1] = wire[i]
      /\ Len(wire') = Len(wire) - 1
      /\ \A i \in 1 .. Len(wire') :
            i + 1 \in 1 .. Len(wire) /\ i + 1 > 1 /\ wire'[i] = wire[i + 1]
  BY <1>1, MessageTaken
<1>3. PICK j \in 1 .. Len(wire) :
        /\ wire[j].kind = "Reset"
        /\ gate.canonical <= wire[j].at.durable
        /\ \A i \in 1 .. j - 1 : ~Session(wire[i]) => wire[i].at.durable <= wire[j].at.durable
  BY DEF FreshReset
<1>4. j # 1
  BY <1>1, <1>2, <1>3 DEF Points
<1>5. j - 1 \in 1 .. Len(wire') /\ wire'[j - 1] = wire[j] /\ 1 \in 1 .. j - 1
  BY <1>2, <1>4
<1>6. gate'.canonical <= wire[j].at.durable
  BY <1>2, <1>3, <1>5
<1>7. \A i \in 1 .. (j - 1) - 1 : i \in 1 .. Len(wire') /\ i + 1 \in 1 .. j - 1
  BY <1>2, <1>5
<1>8. \A i \in 1 .. (j - 1) - 1 :
         ~Session(wire'[i]) => wire'[i].at.durable <= wire'[j - 1].at.durable
  BY <1>2, <1>3, <1>5, <1>7
<1> QED
  BY <1>3, <1>5, <1>6, <1>8 DEF FreshReset

\* The latest projections other than the first message are still on the wire.
LEMMA LatestStayOnWire ==
    ASSUME GateInv, wire # <<>>, wire' = Tail(wire), UNCHANGED <<presented, published>>
    PROVE  /\ \/ gate.canonical = published
              \/ ~Session(Head(wire)) /\ Head(wire).at.durable = published
              \/ \E i \in 1 .. Len(wire') :
                    ~Session(wire'[i]) /\ wire'[i].at.durable = published'
           /\ presented.epoch # 0 =>
                 \/ Session(Head(wire)) /\ Head(wire).at = presented
                 \/ \E i \in 1 .. Len(wire') : Session(wire'[i]) /\ wire'[i].at = presented'
                 \/ gate.awaiting
                 \/ shown = presented
                 \/ presented.durable < gate.canonical
           /\ Session(Head(wire)) =>
                 \/ Head(wire).at = presented
                 \/ \E i \in 1 .. Len(wire') : Session(wire'[i]) /\ wire'[i].at = presented'
           /\ LastOK'
<1>1. GateTypeOK /\ WireOK /\ CanonicalOK /\ PresentedOK /\ LastOK
  BY DEF GateInv
<1>2. /\ Head(wire) = wire[1] /\ 1 \in 1 .. Len(wire)
      /\ \A i \in 1 .. Len(wire) : wire[i].at \in Points
      /\ \A i \in 1 .. Len(wire') :
            i + 1 \in 1 .. Len(wire) /\ i + 1 > 1 /\ wire'[i] = wire[i + 1]
      /\ \A i \in 1 .. Len(wire) :
            i # 1 => i - 1 \in 1 .. Len(wire') /\ wire'[i - 1] = wire[i]
  BY <1>1, MessageTaken
<1>3. ASSUME NEW i \in 1 .. Len(wire), ~Session(wire[i]), wire[i].at.durable = published
      PROVE  \/ ~Session(Head(wire)) /\ Head(wire).at.durable = published
             \/ \E j \in 1 .. Len(wire') :
                   ~Session(wire'[j]) /\ wire'[j].at.durable = published'
  BY <1>2, <1>3
<1>4. ASSUME NEW i \in 1 .. Len(wire), Session(wire[i]), wire[i].at = presented
      PROVE  \/ Session(Head(wire)) /\ Head(wire).at = presented
             \/ \E j \in 1 .. Len(wire') : Session(wire'[j]) /\ wire'[j].at = presented'
  BY <1>2, <1>4
<1>5. \/ gate.canonical = published
      \/ ~Session(Head(wire)) /\ Head(wire).at.durable = published
      \/ \E i \in 1 .. Len(wire') : ~Session(wire'[i]) /\ wire'[i].at.durable = published'
  BY <1>1, <1>3 DEF CanonicalOK
<1>6. presented.epoch # 0 =>
         \/ Session(Head(wire)) /\ Head(wire).at = presented
         \/ \E i \in 1 .. Len(wire') : Session(wire'[i]) /\ wire'[i].at = presented'
         \/ gate.awaiting
         \/ shown = presented
         \/ presented.durable < gate.canonical
  BY <1>1, <1>4 DEF PresentedOK
<1>7. \A i \in 1 .. Len(wire) :
         Session(wire[i]) =>
            \/ Session(Head(wire)) /\ Head(wire).at = presented
            \/ \E j \in 1 .. Len(wire') : Session(wire'[j]) /\ wire'[j].at = presented'
  BY <1>1, <1>4 DEF LastOK
<1>8. ASSUME NEW i \in 1 .. Len(wire'), Session(wire'[i]), Session(Head(wire)),
             Head(wire).at = presented
      PROVE  FALSE
  <2>1. /\ Earlier(wire[1].at, wire[i + 1].at)
        /\ Upto(wire[i + 1].at, presented)
        /\ presented \in Points /\ wire[i + 1].at \in Points
    BY <1>1, <1>2, <1>8 DEF WireOK, Between
  <2> QED
    BY <1>2, <1>8, <2>1, EarlierOrder
<1>9. LastOK'
  BY <1>2, <1>7, <1>8 DEF LastOK
<1> QED
  BY <1>2, <1>5, <1>6, <1>7, <1>9

\* The verdicts on a canonical projection, as the gate and the window take them.
LEMMA CanonicalVerdicts ==
    ASSUME GateTypeOK, NEW r \in Int, ReceiveCanonical(r)
    PROVE  /\ UNCHANGED <<outstanding, resets>>
           /\ gate' \in [canonical : Int, cursor : Points, horizon : Int, awaiting : BOOLEAN]
           /\ gate'.cursor = gate.cursor /\ gate'.awaiting = gate.awaiting
           /\ \/ r < gate.canonical /\ gate' = gate /\ shown' = shown
              \/ /\ r >= gate.canonical /\ gate.horizon >= r
                 /\ gate'.canonical = r /\ gate'.horizon = gate.horizon
                 /\ shown' = shown
              \/ /\ r >= gate.canonical /\ gate.horizon < r
                 /\ gate'.canonical = r /\ gate'.horizon = None
                 /\ shown' = Point(0, 0, 0, r)
<1>1. gate \in [canonical : Int, cursor : Points, horizon : Int, awaiting : BOOLEAN]
  BY DEF GateTypeOK
<1>2. None \in Int
  BY DEF None
<1>3. CASE r < gate.canonical
  <2>1. CanonicalVerdict(r) = "stale"
    BY <1>1, <1>3 DEF CanonicalVerdict
  <2> QED
    BY <1>1, <1>3, <2>1 DEF ReceiveCanonical
<1>4. CASE r >= gate.canonical /\ gate.horizon >= r
  <2>1. CanonicalVerdict(r) = "hidden"
    BY <1>1, <1>4 DEF CanonicalVerdict
  <2> QED
    BY <1>1, <1>4, <2>1 DEF ReceiveCanonical
<1>5. CASE r >= gate.canonical /\ gate.horizon < r
  <2>1. CanonicalVerdict(r) = "show"
    BY <1>1, <1>5 DEF CanonicalVerdict
  <2> QED
    BY <1>1, <1>2, <1>5, <2>1 DEF ReceiveCanonical
<1> QED
  BY <1>1, <1>3, <1>4, <1>5

\* A canonical projection advances the gate's canonical revision, and it
\* replaces a session projection only when it is newer than that one.
LEMMA ReceiveCanonicalKeeps ==
    ASSUME GateInv, ReceiveMessage, ~Session(Head(wire))
    PROVE  /\ GateInv' /\ shown'.durable >= shown.durable
           /\ shown' = shown \/ shown'.epoch = 0
<1> DEFINE r == Head(wire).at.durable
<1>1. /\ wire # <<>> /\ wire' = Tail(wire) /\ ReceiveCanonical(r)
      /\ UNCHANGED <<revision, announced, published, deliveries, presented, resetting,
                     predicted>>
  BY DEF ReceiveMessage, Session
<1>2. GateTypeOK /\ WireOK /\ WindowOK /\ CountsOK
  BY DEF GateInv
<1>3. /\ wire' \in Seq(Message) /\ Head(wire) = wire[1] /\ 1 \in 1 .. Len(wire)
      /\ wire[1] \in Message /\ wire[1].at \in Points
  BY <1>1, <1>2, MessageTaken
<1>4. r \in 0 .. published /\ r \in Int
  BY <1>2, <1>3 DEF WireOK, Points
<1>5. /\ gate.canonical \in Int /\ gate.horizon \in Int /\ shown \in Points
      /\ shown.durable \in Int /\ published \in Int
  BY <1>2, Shapes DEF GateTypeOK, Points
<1>6. ~Session(Head(wire)) /\ (Head(wire).kind = "Reset" => r < gate.canonical)
  BY DEF Session
<1>7. /\ \/ gate.canonical = published
         \/ r = published
         \/ \E i \in 1 .. Len(wire') : ~Session(wire'[i]) /\ wire'[i].at.durable = published'
      /\ presented.epoch # 0 =>
            \/ \E i \in 1 .. Len(wire') : Session(wire'[i]) /\ wire'[i].at = presented'
            \/ gate.awaiting
            \/ shown = presented
            \/ presented.durable < gate.canonical
      /\ LastOK'
  BY <1>1, LatestStayOnWire
<1>8. (gate'.canonical = gate.canonical \/ gate'.canonical = r) /\ FreshReset => FreshReset'
  BY <1>1, <1>6, ResetStaysFresh
<1> HIDE DEF r
<1>9. /\ UNCHANGED <<outstanding, resets>>
      /\ gate' \in [canonical : Int, cursor : Points, horizon : Int, awaiting : BOOLEAN]
      /\ gate'.cursor = gate.cursor /\ gate'.awaiting = gate.awaiting
      /\ \/ r < gate.canonical /\ gate' = gate /\ shown' = shown
         \/ /\ r >= gate.canonical /\ gate.horizon >= r
            /\ gate'.canonical = r /\ gate'.horizon = gate.horizon
            /\ shown' = shown
         \/ /\ r >= gate.canonical /\ gate.horizon < r
            /\ gate'.canonical = r /\ gate'.horizon = None
            /\ shown' = Point(0, 0, 0, r)
  BY <1>1, <1>2, <1>4, CanonicalVerdicts
<1>10. shown' \in Points
  BY <1>4, <1>5, <1>9, ProjectionGateAssumption DEF Point, Points
<1>11. GateTypeOK'
  BY <1>1, <1>2, <1>3, <1>9, <1>10 DEF GateTypeOK, Message
<1>12. CountsOK' /\ ResettingOK'
  BY <1>1 DEF GateInv, CountsOK, ResettingOK
<1>13. WireOK'
  BY <1>1, <1>9, WireKeptInOrder
<1>14. FreshReset => FreshReset'
  BY <1>8, <1>9
<1>15. AwaitingOK'
  BY <1>1, <1>9, <1>14 DEF GateInv, AwaitingOK
<1>16. CanonicalOK'
  <2>1. gate.canonical <= published
    BY <1>2, <1>5 DEF WindowOK, None
  <2>2. gate.canonical = published \/ r = published => gate'.canonical = published
    BY <1>4, <1>5, <1>9, <2>1
  <2> QED
    BY <1>1, <1>7, <2>2 DEF CanonicalOK
<1>17. WindowOK' /\ shown'.durable >= shown.durable
  <2>1. CASE r < gate.canonical /\ gate' = gate /\ shown' = shown
    BY <1>1, <1>2, <1>5, <2>1 DEF WindowOK
  <2>2. CASE /\ r >= gate.canonical /\ gate.horizon >= r
             /\ gate'.canonical = r /\ gate'.horizon = gate.horizon
             /\ shown' = shown
    BY <1>1, <1>2, <1>4, <1>5, <1>9, <2>2 DEF WindowOK, None
  <2>3. CASE /\ r >= gate.canonical /\ gate.horizon < r
             /\ gate'.canonical = r /\ gate'.horizon = None
             /\ shown' = Point(0, 0, 0, r)
    <3>1. shown'.durable = r /\ shown'.epoch = 0 /\ shown'.sequence = 0
      BY <2>3 DEF Point
    <3> QED
      BY <1>1, <1>2, <1>4, <1>5, <1>9, <2>3, <3>1 DEF WindowOK, None
  <2> QED
    BY <1>9, <2>1, <2>2, <2>3
<1>18. PresentedOK'
  <2> SUFFICES ASSUME presented.epoch # 0
               PROVE  \/ \E i \in 1 .. Len(wire') : Session(wire'[i]) /\ wire'[i].at = presented'
                      \/ gate'.awaiting
                      \/ shown' = presented
                      \/ presented.durable < gate'.canonical
    BY <1>1 DEF PresentedOK
  <2>1. CASE shown' = shown
    <3>1. gate.canonical <= gate'.canonical /\ gate'.canonical \in Int
          /\ presented.durable \in Int
      <4>1. presented.durable \in Int
        BY <1>2 DEF GateTypeOK, Points
      <4> QED
        BY <1>4, <1>5, <1>9, <4>1
    <3> QED
      BY <1>5, <1>7, <1>9, <2>1, <3>1
  <2>2. CASE r >= gate.canonical /\ gate.horizon < r /\ gate'.canonical = r
    <3>1. CASE shown = presented
      BY <1>2, <2>2, <3>1 DEF WindowOK
    <3>2. CASE presented.durable < gate.canonical
      <4>1. presented.durable \in Int
        BY <1>2 DEF GateTypeOK, Points
      <4> QED
        BY <1>4, <1>5, <2>2, <3>2, <4>1
    <3> QED
      BY <1>7, <1>9, <3>1, <3>2
  <2> QED
    BY <1>9, <2>1, <2>2
<1> QED
  BY <1>7, <1>9, <1>11, <1>12, <1>13, <1>15, <1>16, <1>17, <1>18 DEF GateInv, Point

\* The verdict on a session projection that comes after the cursor: a reset is
\* never refused, and is ignored only behind newer canonical music.
LEMMA Verdicts ==
    ASSUME GateTypeOK, NEW m \in Message, Session(m), Between(gate.cursor, m, presented)
    PROVE  \/ /\ Verdict(m) = "ignore"
              /\ (gate.awaiting /\ m.kind # "Reset") \/ m.at.durable < gate.canonical
           \/ Verdict(m) = "refuse" /\ m.kind # "Reset"
           \/ /\ Verdict(m) = "accept"
              /\ gate.awaiting => m.kind = "Reset"
              /\ gate.canonical <= m.at.durable
<1> DEFINE c == gate.cursor
           p == m.at
<1>1. c \in Points /\ p \in Points /\ gate.canonical \in Int /\ gate.awaiting \in BOOLEAN
  BY DEF GateTypeOK, Message
<1>2. /\ p.durable \in Int /\ c.epoch \in Int /\ p.epoch \in Int
      /\ c.generation \in Nat /\ p.generation \in Nat
      /\ c.sequence \in Nat /\ p.sequence \in Nat
  BY <1>1, ProjectionGateAssumption DEF Points
<1>3. /\ \/ c.epoch < p.epoch
         \/ c.epoch = p.epoch /\ c.generation < p.generation
         \/ c.epoch = p.epoch /\ c.generation = p.generation /\ c.sequence < p.sequence
      /\ m.kind = "Reset" => p.sequence = 0
  BY DEF Between, Earlier
<1>4. CASE gate.awaiting /\ m.kind # "Reset"
  BY <1>4 DEF Verdict
<1>5. CASE ~(gate.awaiting /\ m.kind # "Reset") /\ p.durable < gate.canonical
  BY <1>5 DEF Verdict
<1>6. CASE ~(gate.awaiting /\ m.kind # "Reset") /\ ~(p.durable < gate.canonical)
  <2>1. gate.canonical <= p.durable
    BY <1>1, <1>2, <1>6
  <2>2. CASE c.epoch = 0
    <3>1. Verdict(m) = IF m.kind = "Reset" THEN "accept" ELSE "refuse"
      BY <1>6, <2>2 DEF Verdict
    <3> QED
      BY <1>6, <2>1, <3>1
  <2>3. CASE c.epoch # 0 /\ c.epoch < p.epoch
    <3>1. ~(p.epoch <= c.epoch) /\ c.epoch # p.epoch
      BY <1>2, <2>3
    <3>2. Verdict(m) = IF m.kind = "Reset" THEN "accept" ELSE "refuse"
      BY <1>6, <2>3, <3>1 DEF Verdict
    <3> QED
      BY <1>6, <2>1, <3>2
  <2>4. CASE c.epoch # 0 /\ c.epoch = p.epoch /\ c.generation < p.generation
    <3>1. c.generation # p.generation /\ p.generation > c.generation
      BY <1>2, <2>4
    <3>2. Verdict(m) = IF m.kind = "Reset" THEN "accept" ELSE "refuse"
      BY <1>6, <2>4, <3>1 DEF Verdict
    <3> QED
      BY <1>6, <2>1, <3>2
  <2>5. CASE c.epoch # 0 /\ c.epoch = p.epoch /\ c.generation = p.generation
             /\ c.sequence < p.sequence
    <3>1. m.kind # "Reset"
      BY <1>2, <1>3, <2>5
    <3>2. Verdict(m) = IF p.sequence = c.sequence + 1 THEN "accept" ELSE "refuse"
      BY <1>6, <2>5 DEF Verdict
    <3> QED
      BY <1>6, <2>1, <3>1, <3>2
  <2> QED
    BY <1>3, <2>2, <2>3, <2>4, <2>5
<1> QED
  BY <1>4, <1>5, <1>6

\* A session projection moves the cursor, or is dropped behind newer canonical
\* music, or leaves the gate waiting for a reset that has been asked for.
LEMMA ReceiveProjectionKeeps ==
    ASSUME GateInv, ReceiveMessage, Session(Head(wire))
    PROVE  /\ GateInv' /\ shown'.durable >= shown.durable
           /\ shown' = shown \/ (shown'.epoch # 0 /\ Earlier(gate.cursor, shown'))
<1> DEFINE m == Head(wire)
<1>1. /\ wire # <<>> /\ wire' = Tail(wire) /\ ReceiveProjection(m)
      /\ UNCHANGED <<revision, announced, published, deliveries, presented, resetting,
                     predicted>>
  BY DEF ReceiveMessage, Session
<1>2. GateTypeOK /\ WireOK /\ WindowOK /\ CountsOK /\ AwaitingOK
  BY DEF GateInv
<1>3. /\ wire' \in Seq(Message) /\ m = wire[1] /\ 1 \in 1 .. Len(wire)
      /\ m \in Message /\ m.at \in Points
  BY <1>1, <1>2, MessageTaken
<1>4. Between(gate.cursor, m, presented)
  BY <1>2, <1>3 DEF WireOK
<1>5. /\ gate \in [canonical : Int, cursor : Points, horizon : Int, awaiting : BOOLEAN]
      /\ gate.cursor \in Points /\ presented \in Points /\ shown \in Points
      /\ outstanding \in BOOLEAN /\ resets \in Nat
  BY <1>2 DEF GateTypeOK
<1>6. /\ m.at.epoch # 0 /\ Upto(m.at, presented) /\ Earlier(gate.cursor, m.at)
      /\ presented.epoch # 0
  <2>1. m.at.epoch # 0 /\ Upto(m.at, presented) /\ Earlier(gate.cursor, m.at)
    BY <1>4 DEF Between
  <2>2. m.at.epoch \in Nat /\ presented.epoch \in Nat
    BY <1>3, <1>5, ProjectionGateAssumption, SMTT(60) DEF Points
  <2>3. m.at.epoch <= presented.epoch
    BY <2>1, <2>2 DEF Upto, Earlier
  <2> QED
    BY <2>1, <2>2, <2>3
<1>7. /\ \/ gate.canonical = published
         \/ \E i \in 1 .. Len(wire') : ~Session(wire'[i]) /\ wire'[i].at.durable = published'
      /\ presented.epoch # 0 =>
            \/ m.at = presented
            \/ \E i \in 1 .. Len(wire') : Session(wire'[i]) /\ wire'[i].at = presented'
            \/ gate.awaiting
            \/ shown = presented
            \/ presented.durable < gate.canonical
      /\ \/ m.at = presented
         \/ \E i \in 1 .. Len(wire') : Session(wire'[i]) /\ wire'[i].at = presented'
      /\ LastOK'
  BY <1>1, LatestStayOnWire
<1>8. ASSUME FreshReset, gate'.canonical = gate.canonical,
             m.kind = "Reset" => m.at.durable < gate.canonical
      PROVE  FreshReset'
  BY <1>1, <1>8, ResetStaysFresh
<1>9. gate'.cursor = gate.cursor \/ gate'.cursor = m.at => WireOK'
  BY <1>1, WireKeptInOrder
<1>10. CountsOK' /\ ResettingOK'
  BY <1>1 DEF GateInv, CountsOK, ResettingOK
<1>11. gate'.canonical = gate.canonical => CanonicalOK'
  BY <1>1, <1>7 DEF CanonicalOK
<1> HIDE DEF m
<1>12. CASE /\ Verdict(m) = "ignore"
            /\ (gate.awaiting /\ m.kind # "Reset") \/ m.at.durable < gate.canonical
  <2>1. UNCHANGED <<gate, outstanding, resets, shown>>
    BY <1>1, <1>12 DEF ReceiveProjection
  <2>2. GateTypeOK'
    BY <1>1, <1>2, <1>3, <2>1 DEF GateTypeOK, Message
  <2>3. WindowOK'
    BY <1>1, <1>2, <2>1 DEF WindowOK
  <2>4. AwaitingOK'
    <3>1. FreshReset => FreshReset'
      BY <1>8, <1>12, <2>1
    <3> QED
      BY <1>1, <1>2, <2>1, <3>1 DEF AwaitingOK
  <2>5. PresentedOK'
    BY <1>1, <1>7, <1>12, <2>1 DEF PresentedOK
  <2>6. shown.durable \in Int
    BY <1>5 DEF Points
  <2> QED
    BY <1>7, <1>9, <1>10, <1>11, <2>1, <2>2, <2>3, <2>4, <2>5, <2>6 DEF GateInv
<1>13. CASE Verdict(m) = "refuse" /\ m.kind # "Reset"
  <2>1. /\ gate' = [gate EXCEPT !.awaiting = TRUE] /\ outstanding' = TRUE
        /\ resets' = (IF outstanding THEN resets ELSE resets + 1) /\ shown' = shown
    BY <1>1, <1>13 DEF ReceiveProjection
  <2>2. /\ gate' \in [canonical : Int, cursor : Points, horizon : Int, awaiting : BOOLEAN]
        /\ gate'.canonical = gate.canonical /\ gate'.cursor = gate.cursor
        /\ gate'.horizon = gate.horizon /\ gate'.awaiting
    BY <1>5, <2>1
  <2>3. resets' \in Nat /\ (~outstanding => resets' > 0) /\ (outstanding => resets' = resets)
    BY <1>5, <2>1
  <2>4. GateTypeOK'
    BY <1>1, <1>2, <1>3, <2>1, <2>2, <2>3 DEF GateTypeOK, Message
  <2>5. WindowOK'
    BY <1>1, <1>2, <2>1, <2>2 DEF WindowOK
  <2>6. AwaitingOK'
    <3>1. FreshReset => FreshReset'
      BY <1>8, <1>13, <2>2
    <3> QED
      BY <1>1, <1>2, <1>6, <2>1, <2>3, <3>1 DEF AwaitingOK
  <2>7. PresentedOK'
    BY <2>2 DEF PresentedOK
  <2>8. shown.durable \in Int
    BY <1>5 DEF Points
  <2> QED
    BY <1>7, <1>9, <1>10, <1>11, <2>1, <2>2, <2>4, <2>5, <2>6, <2>7, <2>8 DEF GateInv
<1>14. CASE /\ Verdict(m) = "accept"
            /\ gate.awaiting => m.kind = "Reset"
            /\ gate.canonical <= m.at.durable
  <2>1. /\ gate' = [gate EXCEPT !.cursor = m.at, !.horizon = m.at.durable,
                                !.awaiting = @ /\ m.kind # "Reset"]
        /\ outstanding' = (outstanding /\ m.kind # "Reset")
        /\ shown' = m.at /\ resets' = resets
    BY <1>1, <1>14 DEF ReceiveProjection
  <2>2. /\ gate' \in [canonical : Int, cursor : Points, horizon : Int, awaiting : BOOLEAN]
        /\ gate'.canonical = gate.canonical /\ gate'.cursor = m.at
        /\ gate'.horizon = m.at.durable /\ ~gate'.awaiting
    <3>1. m.at.durable \in Int
      BY <1>3 DEF Points
    <3> QED
      BY <1>3, <1>5, <1>14, <2>1, <3>1
  <2>3. GateTypeOK'
    BY <1>1, <1>2, <1>3, <2>1, <2>2 DEF GateTypeOK, Message
  <2>4. /\ m.at.durable \in Int /\ gate.canonical \in Int /\ shown.durable \in Int
        /\ gate.cursor.durable \in Int /\ gate.horizon \in Int
        /\ gate.cursor.durable >= 0 /\ gate.cursor.durable <= m.at.durable
    BY <1>2, <1>3, <1>5, <1>6 DEF Points, WindowOK, Earlier
  <2>5. m.at.durable >= 0
    BY <2>4
  <2>6. WindowOK'
    <3>1. gate'.canonical \in None .. published'
      BY <1>1, <1>2, <2>2 DEF WindowOK
    <3> QED
      BY <1>1, <1>6, <2>1, <2>2, <2>4, <2>5, <3>1 DEF WindowOK, None
  <2>7. shown'.durable >= shown.durable
    BY <1>2, <1>14, <2>1, <2>4 DEF WindowOK, None
  <2>8. AwaitingOK'
    <3>1. m.kind # "Reset" /\ FreshReset => FreshReset'
      BY <1>8, <2>2
    <3> QED
      BY <1>1, <1>2, <2>1, <2>2, <3>1 DEF AwaitingOK
  <2>9. PresentedOK'
    BY <1>1, <1>7, <2>1 DEF PresentedOK
  <2> QED
    BY <1>6, <1>7, <1>9, <1>10, <1>11, <2>1, <2>2, <2>3, <2>6, <2>7, <2>8, <2>9 DEF GateInv, m
<1> QED
  BY <1>2, <1>3, <1>4, <1>12, <1>13, <1>14, Verdicts DEF m

(***************************************************************************)
(* Theorems.                                                               *)
(***************************************************************************)

\* Only the window changes what is shown, and the invariant survives it.
LEMMA WindowStep ==
    ASSUME GateInv, ReceiveMessage
    PROVE  /\ GateInv' /\ shown'.durable >= shown.durable
           /\ \/ shown' = shown
              \/ shown'.epoch = 0
              \/ shown'.epoch # 0 /\ Earlier(gate.cursor, shown')
  BY ReceiveCanonicalKeeps, ReceiveProjectionKeeps

\* The gate starts in its invariant.
LEMMA InitGateInv == GateInit => GateInv
<1> SUFFICES ASSUME GateInit PROVE GateInv
  OBVIOUS
<1> DEFINE origin == Point(0, 0, 0, 0)
<1>1. /\ origin \in Points /\ origin.durable = 0 /\ origin.epoch = 0
      /\ Point(0, 0, 0, None) \in Points
  BY ProjectionGateAssumption DEF Point, Points, None
<1>2. /\ Canonical(0) \in Message /\ Canonical(0).at.durable = 0 /\ ~Session(Canonical(0))
      /\ Canonical(0).kind # "Reset"
  BY <1>1 DEF Canonical, Message, Session, Point
<1>3. /\ wire = <<Canonical(0)>> /\ Len(wire) = 1 /\ wire \in Seq(Message)
      /\ \A i \in 1 .. Len(wire) : wire[i] = Canonical(0)
      /\ 1 \in 1 .. Len(wire)
  BY <1>2 DEF GateInit
<1>4. deliveries = <<>> /\ Len(deliveries) = 0 /\ deliveries \in Seq(Delivery)
  BY DEF GateInit
<1>5. /\ gate.canonical = None /\ gate.cursor = origin /\ gate.horizon = None
      /\ ~gate.awaiting
      /\ gate \in [canonical : Int, cursor : Points, horizon : Int, awaiting : BOOLEAN]
  BY <1>1 DEF GateInit, None
<1>6. presented = origin /\ shown = Point(0, 0, 0, None)
  BY DEF GateInit
<1>7. GateTypeOK
  <2> HIDE DEF origin
  <2>1. /\ revision = 0 /\ announced = 0 /\ published = 0 /\ outstanding = FALSE
        /\ resets = 0 /\ resetting = FALSE /\ predicted = 0
    BY DEF GateInit
  <2>2. /\ deliveries \in Seq([kind : {"Advance", "Repair", "Reset"}, durable : 0 .. MaxRevision])
        /\ wire \in Seq([kind : {"Canonical", "Predicted", "Advanced", "Reset"}, at : Points])
    BY <1>3, <1>4 DEF Message, Delivery
  <2>3. presented \in Points /\ shown \in Points
    BY <1>1, <1>6
  <2>4. 0 \in 0 .. MaxRevision /\ 0 \in 0 .. MaxPredicted
    BY ProjectionGateAssumption
  <2> QED
    BY <1>5, <2>1, <2>2, <2>3, <2>4 DEF GateTypeOK
<1>8. CountsOK /\ ResettingOK
  BY <1>1, <1>4, <1>6 DEF GateInit, CountsOK, ResettingOK
<1>9. WireOK /\ LastOK /\ CanonicalOK
  BY <1>2, <1>3 DEF GateInit, WireOK, LastOK, CanonicalOK
<1>10. WindowOK
  BY <1>1, <1>5, <1>6 DEF GateInit, WindowOK, Point, None
<1>11. AwaitingOK /\ PresentedOK
  BY <1>1, <1>5, <1>6 DEF GateInit, AwaitingOK, PresentedOK
<1> QED
  BY <1>7, <1>8, <1>9, <1>10, <1>11 DEF GateInv

\* Every step keeps the invariant of the gate.
LEMMA StepGateInv == GateInv /\ [GateNext]_gateVars => GateInv'
<1> SUFFICES ASSUME GateInv, [GateNext]_gateVars PROVE GateInv'
  OBVIOUS
<1>1. CASE UNCHANGED gateVars
  BY <1>1 DEF gateVars, GateInv, GateTypeOK, CountsOK, ResettingOK, WireOK, WindowOK,
              AwaitingOK, FreshReset, CanonicalOK, PresentedOK, LastOK
<1>2. CASE GateNext
  BY <1>2, DurableKeeps, GrantFailsKeeps, PublishKeeps, BeginResetKeeps, HandleInactive,
     HandleActive, PredictKeeps, InstallEpochKeeps, WindowStep DEF GateNext
<1> QED
  BY <1>1, <1>2

\* The inductive invariant of the projection gate: how the service's counts,
\* the task's inputs, the wire, the gate and the window stand to each other.
THEOREM GateInvariant == GateSpec => []GateInv
  BY InitGateInv, StepGateInv, PTL DEF GateSpec

\* The gate, its cursors and the queues keep their types.
THEOREM GateTypeCorrect == GateSpec => []GateTypeOK
<1>1. GateInv => GateTypeOK
  BY DEF GateInv
<1> QED
  BY <1>1, GateInvariant, PTL

\* Once nothing is under way the window shows the latest projection: whatever
\* the gate dropped has been made good by a reset.
THEOREM QuietWindowIsCurrent == GateSpec => []ShowsTheLatest
<1>1. GateInv => ShowsTheLatest
  <2> SUFFICES ASSUME GateInv, GateQuiet
               PROVE  IF presented.epoch = 0 THEN shown.durable = announced
                      ELSE shown = presented
    BY DEF ShowsTheLatest
  <2>1. /\ Len(wire) = 0 /\ Len(deliveries) = 0
        /\ published = announced /\ resets = 0 /\ ~resetting
    BY DEF GateQuiet
  <2>2. gate.canonical = announced
    BY <2>1 DEF GateInv, CanonicalOK
  <2>3. CASE presented.epoch = 0
    BY <2>2, <2>3, NoSession DEF GateInv, WindowOK
  <2>4. CASE presented.epoch # 0
    <3>1. ~gate.awaiting
      BY <2>1 DEF GateInv, AwaitingOK, FreshReset
    <3>2. announced <= presented.durable
      BY <2>1 DEF GateInv, CountsOK
    <3>3. announced \in Int /\ presented.durable \in Int
      BY DEF GateInv, GateTypeOK, Points
    <3> QED
      BY <2>1, <2>2, <2>4, <3>1, <3>2, <3>3 DEF GateInv, PresentedOK
  <2> QED
    BY <2>3, <2>4
<1> QED
  BY <1>1, GateInvariant, PTL

\* What the window shows never goes back to an older durable revision, nor to
\* an earlier projection of the same session and generation.
THEOREM MusicNeverGoesBack == GateSpec => NeverGoesBack
<1> DEFINE Step == /\ shown'.durable >= shown.durable
                   /\ shown'.epoch = shown.epoch /\ shown'.generation = shown.generation
                         => shown'.sequence >= shown.sequence
<1>1. GateInv /\ [GateNext]_gateVars => [Step]_gateVars
  <2> SUFFICES ASSUME GateInv, GateNext PROVE Step
    OBVIOUS
  <2>1. shown.durable \in Int /\ shown.sequence \in Nat /\ gate.cursor \in Points
    BY Shapes DEF GateInv, GateTypeOK, Points
  <2>2. CASE ReceiveMessage
    <3>1. /\ GateInv' /\ shown'.durable >= shown.durable
          /\ \/ shown' = shown
             \/ shown'.epoch = 0
             \/ shown'.epoch # 0 /\ Earlier(gate.cursor, shown')
      BY <2>2, WindowStep
    <3>2. CASE shown' = shown
      BY <2>1, <3>1, <3>2
    <3>3. CASE shown'.epoch = 0
      <4>1. shown'.sequence = 0
        BY <3>1, <3>3 DEF GateInv, WindowOK
      <4>2. shown.epoch = 0 => shown.sequence = 0
        BY DEF GateInv, WindowOK
      <4> QED
        BY <3>1, <3>3, <4>1, <4>2
    <3>4. CASE shown'.epoch # 0 /\ Earlier(gate.cursor, shown')
      <4>1. shown.epoch # 0 => shown = gate.cursor
        BY DEF GateInv, WindowOK
      <4>2. shown' \in Points /\ shown \in Points
        BY <3>1 DEF GateInv, GateTypeOK
      <4> QED
        BY <3>1, <3>4, <4>1, <4>2 DEF Earlier, Points
    <3> QED
      BY <3>1, <3>2, <3>3, <3>4
  <2>3. CASE shown' = shown
    BY <2>1, <2>3
  <2>4. ReceiveMessage \/ shown' = shown
    BY DEF GateNext, Durable, GrantFails, Publish, BeginReset, HandleInput, Predict, InstallEpoch
  <2> QED
    BY <2>2, <2>3, <2>4
<1> QED
  BY <1>1, GateInvariant, PTL DEF GateSpec, NeverGoesBack

-----------------------------------------------------------------------------
(***************************************************************************)
(* Proofs about the circle of waits for any capacity of the inbox, with    *)
(* resets or without: every request is outstanding once, the session       *)
(* task's future has one store request or result under way while it waits, *)
(* and a reset is answered by its own input.                               *)
(***************************************************************************)

\* x is at one place of q at most.
Once(q, x) == \A i, j \in 1 .. Len(q) : q[i] = x /\ q[j] = x => i = j

\* A request is posted once and not again before it was served.
PostedOnce ==
    /\ \A r \in Request : Once(queue, r)
    /\ serving.request \notin Range(queue)

\* The input of a reset is still to be sent, or in the inbox, or handled, and it
\* is the last that its request sends.
ResetInputOK ==
    /\ "Reset" \in Range(serving.todo) =>
           serving.request = "Reset" /\ serving.todo = <<"Reset">>
    /\ serving.request = "Reset" => serving.todo \in {<<>>, <<"Reset">>}
    /\ "Reset" \in Range(inbox) => serving.request = "Reset" /\ serving.todo = <<>>
    /\ Once(inbox, "Reset")

ServiceInv ==
    ServiceTypeOK /\ PostedOnce /\ ResetInputOK /\ OneStoreRequest /\ OneResetReply

(***************************************************************************)
(* What posting and taking do to the contents of a queue.                  *)
(***************************************************************************)

\* A posted message joins the queue, and is there once if it was not before.
LEMMA Posted ==
    ASSUME NEW S, NEW q \in Seq(S), NEW e \in S
    PROVE  /\ Append(q, e) \in Seq(S) /\ Len(Append(q, e)) = Len(q) + 1
           /\ Range(Append(q, e)) = Range(q) \cup {e}
           /\ \A x : Once(q, x) /\ (x = e => e \notin Range(q)) => Once(Append(q, e), x)
<1> DEFINE a == Append(q, e)
           n == Len(q)
<1>1. /\ a \in Seq(S) /\ n \in Nat /\ Len(a) = n + 1
      /\ \A i \in 1 .. n : a[i] = q[i]
      /\ a[n + 1] = e /\ DOMAIN a = 1 .. n + 1 /\ DOMAIN q = 1 .. n
    OBVIOUS
<1> HIDE DEF a
<1>2. Range(a) = Range(q) \cup {e}
    <2>1. \A i \in 1 .. n + 1 : i \in 1 .. n \/ i = n + 1
        BY <1>1
    <2>2. 1 .. n \subseteq 1 .. n + 1 /\ n + 1 \in 1 .. n + 1
        BY <1>1
    <2> HIDE DEF n
    <2> QED BY <1>1, <2>1, <2>2 DEF Range
<1>3. ASSUME NEW x, Once(q, x), x = e => e \notin Range(q) PROVE Once(a, x)
    <2> SUFFICES ASSUME NEW i \in 1 .. n + 1, NEW j \in 1 .. n + 1, a[i] = x, a[j] = x
                 PROVE  i = j
        BY <1>1 DEF Once
    <2>1. CASE i \in 1 .. n /\ j \in 1 .. n
        BY <1>1, <1>3, <2>1 DEF Once
    <2>2. CASE i = n + 1 /\ j \in 1 .. n
        BY <1>1, <1>3, <2>2 DEF Range
    <2>3. CASE j = n + 1 /\ i \in 1 .. n
        BY <1>1, <1>3, <2>3 DEF Range
    <2> QED BY <1>1, <2>1, <2>2, <2>3
<1> QED BY <1>1, <1>2, <1>3 DEF a

\* The message taken leaves the queue, for good if it was there once.
LEMMA Taken ==
    ASSUME NEW S, NEW q \in Seq(S), q # <<>>
    PROVE  /\ Tail(q) \in Seq(S) /\ Len(Tail(q)) = Len(q) - 1 /\ Len(q) \in Nat
           /\ Head(q) \in S /\ Range(q) = Range(Tail(q)) \cup {Head(q)}
           /\ \A x : Once(q, x) => Once(Tail(q), x) /\ (x = Head(q) => x \notin Range(Tail(q)))
<1> DEFINE t == Tail(q)
           n == Len(q)
           h == Head(q)
<1>1. /\ t \in Seq(S) /\ n \in Nat \ {0} /\ Len(t) = n - 1 /\ h = q[1] /\ h \in S
      /\ \A i \in 1 .. n - 1 : t[i] = q[i + 1]
      /\ DOMAIN t = 1 .. n - 1 /\ DOMAIN q = 1 .. n
    OBVIOUS
<1> HIDE DEF t, h
<1> HIDE DEF n
<1>2. ASSUME NEW i \in 1 .. n, i # 1 PROVE i - 1 \in 1 .. n - 1 /\ t[i - 1] = q[i]
    <2>1. i - 1 \in 1 .. n - 1 /\ (i - 1) + 1 = i
        BY <1>1, <1>2
    <2> QED BY <1>1, <2>1
<1>3. \A i \in 1 .. n - 1 : i + 1 \in 1 .. n /\ i + 1 # 1
    BY <1>1
<1>4. 1 \in 1 .. n
    BY <1>1
<1>5. Range(q) = Range(t) \cup {h}
    <2>1. ASSUME NEW i \in 1 .. n PROVE q[i] \in Range(t) \cup {h}
        <3>1. CASE i = 1
            BY <1>1, <3>1
        <3>2. CASE i # 1
            BY <1>1, <1>2, <3>2 DEF Range
        <3> QED BY <3>1, <3>2
    <2>2. ASSUME NEW i \in 1 .. n - 1 PROVE t[i] \in Range(q)
        BY <1>1, <1>3 DEF Range
    <2>3. h \in Range(q)
        BY <1>1, <1>4 DEF Range
    <2> QED BY <1>1, <2>1, <2>2, <2>3 DEF Range
<1>6. ASSUME NEW x, Once(q, x) PROVE Once(t, x) /\ (x = h => x \notin Range(t))
    <2>1. ASSUME NEW i \in 1 .. n - 1, NEW j \in 1 .. n - 1, t[i] = x, t[j] = x PROVE i = j
        <3>1. i + 1 = j + 1
            BY <1>1, <1>3, <1>6, <2>1 DEF Once
        <3> QED BY <1>1, <3>1
    <2>2. ASSUME NEW i \in 1 .. n - 1 PROVE ~(t[i] = x /\ x = h)
        BY <1>1, <1>3, <1>4, <1>6, <2>2 DEF Once
    <2> QED BY <1>1, <2>1, <2>2 DEF Once, Range
<1> QED BY <1>1, <1>5, <1>6 DEF t, h, n

\* Nothing is in an empty queue.
LEMMA EmptyRange == Range(<<>>) = {} /\ \A e : Range(<<e>>) = {e} /\ Tail(<<e>>) = <<>>
<1>1. \A e : Range(<<e>>) = {e}
    BY DEF Range
<1> QED BY <1>1 DEF Range

(***************************************************************************)
(* The invariant is kept.                                                  *)
(***************************************************************************)

\* The inputs a request sends are inputs, and only a reset sends its own.
LEMMA InputsFacts ==
    ASSUME NEW r \in Request
    PROVE  /\ Inputs(r) \in Seq(Input)
           /\ r = "Reset" => Inputs(r) = <<"Reset">>
           /\ r # "Reset" => "Reset" \notin Range(Inputs(r))
<1>1. CASE r = "Start"
    BY <1>1 DEF Inputs, Input, Range
<1>2. CASE r = "Record"
    BY <1>2 DEF Inputs, Input, Range
<1>3. CASE r = "Drain"
    BY <1>3 DEF Inputs, Input, Range
<1>4. CASE r = "Reset"
    BY <1>4 DEF Inputs, Input
<1>5. CASE r = "Store"
    BY <1>5, EmptyRange DEF Inputs, Input
<1> QED BY <1>1, <1>2, <1>3, <1>4, <1>5 DEF Request, Loop

\* The circle starts in the invariant.
LEMMA InitService == ServiceInit => ServiceInv
<1> SUFFICES ASSUME ServiceInit PROVE ServiceInv
    OBVIOUS
<1>1. ServiceTypeOK
    <2>1. Len(<<>>) = 0 /\ \A S : <<>> \in Seq(S)
        OBVIOUS
    <2>2. Len(<<>>) <= InboxCapacity
        BY <2>1, SessionServiceAssumption
    <2>3. /\ NoRequest \in [request : Request \cup {"none"}, todo : Seq(Input)]
          /\ NoInput \in [input : {"none", "Start", "Carrier"}, stores : 0 .. 2]
        BY <2>1 DEF NoRequest, NoInput
    <2> QED BY <2>1, <2>2, <2>3 DEF ServiceInit, ServiceTypeOK
<1>2. PostedOnce /\ ResetInputOK
    BY EmptyRange DEF ServiceInit, PostedOnce, ResetInputOK, Once, NoRequest
<1>3. OneStoreRequest /\ OneResetReply
    BY EmptyRange DEF ServiceInit, OneStoreRequest, OneResetReply, StoreAt, NoRequest, NoInput
<1> QED BY <1>1, <1>2, <1>3 DEF ServiceInv

\* A loop posts a request that is not outstanding.
LEMMA PostKeeps == ASSUME ServiceInv, NEW r \in Loop, Post(r) PROVE ServiceInv'
<1>1. /\ r # serving.request /\ r \notin Range(queue) /\ r \in Request /\ r # "Store"
      /\ queue' = Append(queue, r)
      /\ UNCHANGED <<serving, inbox, session, egress, response, replied>>
    BY DEF Post, Outstanding, Request, Loop
<1>2. /\ queue' \in Seq(Request) /\ Range(queue') = Range(queue) \cup {r}
      /\ \A x : Once(queue, x) /\ (x = r => r \notin Range(queue)) => Once(queue', x)
    BY <1>1, Posted DEF ServiceInv, ServiceTypeOK
<1>3. ServiceTypeOK'
    BY <1>1, <1>2 DEF ServiceInv, ServiceTypeOK
<1>4. PostedOnce'
    BY <1>1, <1>2 DEF ServiceInv, PostedOnce
<1>5. ResetInputOK' /\ OneResetReply'
    BY <1>1 DEF ServiceInv, ResetInputOK, OneResetReply, Once
<1>6. OneStoreRequest'
    BY <1>1, <1>2 DEF ServiceInv, OneStoreRequest, StoreAt
<1> QED BY <1>3, <1>4, <1>5, <1>6 DEF ServiceInv

\* The store request comes from the session task to the queue: it is nowhere else.
LEMMA RouteKeeps == ASSUME ServiceInv, Route PROVE ServiceInv'
<1>1. /\ egress /\ egress' = FALSE /\ queue' = Append(queue, "Store")
      /\ UNCHANGED <<serving, inbox, session, response, replied>>
    BY DEF Route
<1>2. "Store" \notin Range(queue) /\ serving.request # "Store" /\ ~response /\ session.stores > 0
    BY <1>1 DEF ServiceInv, OneStoreRequest, StoreAt, StorePlace
<1>3. /\ queue' \in Seq(Request) /\ Range(queue') = Range(queue) \cup {"Store"}
      /\ \A x : Once(queue, x) /\ (x = "Store" => "Store" \notin Range(queue)) => Once(queue', x)
    BY <1>1, Posted DEF ServiceInv, ServiceTypeOK, Request
<1>4. ServiceTypeOK'
    BY <1>1, <1>3 DEF ServiceInv, ServiceTypeOK
<1>5. PostedOnce'
    BY <1>1, <1>2, <1>3 DEF ServiceInv, PostedOnce
<1>6. ResetInputOK' /\ OneResetReply'
    BY <1>1 DEF ServiceInv, ResetInputOK, OneResetReply, Once
<1>7. OneStoreRequest'
    BY <1>1, <1>2, <1>3 DEF OneStoreRequest, StoreAt, StorePlace
<1> QED BY <1>4, <1>5, <1>6, <1>7 DEF ServiceInv

\* What an input that enters the inbox keeps.
LEMMA InboxAppended ==
    ASSUME ServiceInv, NEW e \in Input, inbox' = Append(inbox, e), Len(inbox) < InboxCapacity
    PROVE  /\ inbox' \in Seq(Input) /\ Len(inbox') <= InboxCapacity
           /\ Range(inbox') = Range(inbox) \cup {e}
           /\ (e = "Reset" => "Reset" \notin Range(inbox)) => Once(inbox', "Reset")
<1>1. inbox \in Seq(Input) /\ Len(inbox) \in Nat /\ Once(inbox, "Reset")
    BY DEF ServiceInv, ServiceTypeOK, ResetInputOK
<1>2. /\ inbox' \in Seq(Input) /\ Range(inbox') = Range(inbox) \cup {e} /\ Len(inbox') = Len(inbox) + 1
      /\ (e = "Reset" => "Reset" \notin Range(inbox)) => Once(inbox', "Reset")
    BY <1>1, Posted
<1> QED BY <1>1, <1>2, SessionServiceAssumption

\* A frame of the peer keeps it.
LEMMA FrameKeeps == ASSUME ServiceInv, Frame PROVE ServiceInv'
<1>1. /\ Len(inbox) < InboxCapacity /\ inbox' = Append(inbox, "Carrier") /\ "Carrier" \in Input
      /\ UNCHANGED <<queue, serving, session, egress, response, replied>>
    BY DEF Frame, Input
<1>2. /\ inbox' \in Seq(Input) /\ Len(inbox') <= InboxCapacity
      /\ Range(inbox') = Range(inbox) \cup {"Carrier"} /\ Once(inbox', "Reset")
    BY <1>1, InboxAppended
<1>3. ServiceTypeOK'
    BY <1>1, <1>2 DEF ServiceInv, ServiceTypeOK
<1>4. PostedOnce' /\ OneStoreRequest'
    BY <1>1 DEF ServiceInv, PostedOnce, Once, OneStoreRequest, StoreAt
<1>5. ResetInputOK' /\ OneResetReply'
    BY <1>1, <1>2 DEF ServiceInv, ResetInputOK, OneResetReply
<1> QED BY <1>3, <1>4, <1>5 DEF ServiceInv

\* A request is begun by an idle service: it is served once.
LEMMA BeginKeeps == ASSUME ServiceInv, BeginRequest PROVE ServiceInv'
<1> DEFINE r == Head(queue)
<1>1. PICK todo \in {Inputs(r), <<>>} :
          /\ todo = <<>> => r = "Drain" \/ Inputs(r) = <<>>
          /\ serving' = [request |-> r, todo |-> todo]
    BY DEF BeginRequest
<1>2. /\ serving = NoRequest /\ queue # <<>> /\ queue' = Tail(queue)
      /\ UNCHANGED <<inbox, session, egress, response, replied>>
    BY DEF BeginRequest
<1>3. /\ queue' \in Seq(Request) /\ r \in Request /\ Range(queue) = Range(queue') \cup {r}
      /\ \A x : Once(queue, x) => Once(queue', x) /\ (x = r => x \notin Range(queue'))
    BY <1>2, Taken DEF ServiceInv, ServiceTypeOK
<1> HIDE DEF r
<1>4. /\ Inputs(r) \in Seq(Input) /\ (r = "Reset" => Inputs(r) = <<"Reset">>)
      /\ (r # "Reset" => "Reset" \notin Range(Inputs(r)))
    BY <1>3, InputsFacts
<1>5. /\ todo \in Seq(Input) /\ (r = "Reset" => todo = <<"Reset">> /\ todo # <<>>)
      /\ (r # "Reset" => "Reset" \notin Range(todo))
    <2>1. <<"Reset">> # <<>> /\ <<>> \in Seq(Input)
        OBVIOUS
    <2>2. CASE todo = Inputs(r)
        BY <1>4, <2>1, <2>2
    <2>3. CASE todo = <<>>
        <3>1. r # "Reset"
            BY <1>1, <1>4, <2>1, <2>3
        <3> QED BY <2>1, <2>3, <3>1, EmptyRange
    <2> QED BY <1>1, <2>2, <2>3
<1>6. "Reset" \notin Range(inbox) /\ ~replied
    BY <1>2 DEF ServiceInv, ResetInputOK, OneResetReply, NoRequest
<1>7. serving'.request = r /\ serving'.todo = todo
    BY <1>1
<1>8. ServiceTypeOK'
    BY <1>1, <1>2, <1>3, <1>5 DEF ServiceInv, ServiceTypeOK
<1>9. PostedOnce'
    BY <1>3, <1>7 DEF ServiceInv, PostedOnce
<1>10. ResetInputOK'
    BY <1>2, <1>5, <1>6, <1>7, EmptyRange DEF ServiceInv, ResetInputOK, Once
<1>11. OneResetReply'
    BY <1>2, <1>5, <1>6, <1>7 DEF OneResetReply
<1>12. OneStoreRequest'
    <2>1. serving.request # "Store"
        BY <1>2 DEF NoRequest
    <2>2. r = "Store" => "Store" \notin Range(queue')
        BY <1>3 DEF ServiceInv, PostedOnce
    <2> QED BY <1>2, <1>3, <1>7, <2>1, <2>2 DEF ServiceInv, OneStoreRequest, StoreAt, StorePlace
<1> QED BY <1>8, <1>9, <1>10, <1>11, <1>12 DEF ServiceInv

\* It is kept when the service hands an input to the session task.
LEMMA SendKeeps == ASSUME ServiceInv, SendInput PROVE ServiceInv'
<1> DEFINE e == Head(serving.todo)
           rest == Tail(serving.todo)
<1>1. /\ serving.todo # <<>> /\ Len(inbox) < InboxCapacity /\ inbox' = Append(inbox, e)
      /\ serving' = [serving EXCEPT !.todo = rest]
      /\ UNCHANGED <<queue, session, egress, response, replied>>
    BY DEF SendInput
<1>2. /\ serving \in [request : Request \cup {"none"}, todo : Seq(Input)] /\ serving.todo \in Seq(Input)
    BY DEF ServiceInv, ServiceTypeOK
<1>3. /\ rest \in Seq(Input) /\ e \in Input /\ Range(serving.todo) = Range(rest) \cup {e}
    BY <1>1, <1>2, Taken
<1>4. serving.todo = <<"Reset">> => rest = <<>> /\ e = "Reset"
    OBVIOUS
<1> HIDE DEF e, rest
<1>5. serving'.request = serving.request /\ serving'.todo = rest
      /\ serving' \in [request : Request \cup {"none"}, todo : Seq(Input)]
    BY <1>1, <1>2, <1>3
<1>6. "Reset" \notin Range(inbox) /\ ~replied
    BY <1>1 DEF ServiceInv, ResetInputOK, OneResetReply
<1>7. /\ inbox' \in Seq(Input) /\ Len(inbox') <= InboxCapacity
      /\ Range(inbox') = Range(inbox) \cup {e} /\ Once(inbox', "Reset")
    BY <1>1, <1>3, <1>6, InboxAppended
<1>8. serving.request = "Reset" => e = "Reset" /\ rest = <<>>
    BY <1>1, <1>4 DEF ServiceInv, ResetInputOK
<1>9. serving.request # "Reset" => "Reset" \notin Range(rest) /\ e # "Reset"
    BY <1>3 DEF ServiceInv, ResetInputOK
<1>10. ServiceTypeOK'
    BY <1>1, <1>5, <1>7 DEF ServiceInv, ServiceTypeOK
<1>11. PostedOnce' /\ OneStoreRequest'
    BY <1>1, <1>5 DEF ServiceInv, PostedOnce, Once, OneStoreRequest, StoreAt
<1>12. ResetInputOK' /\ OneResetReply'
    BY <1>1, <1>5, <1>6, <1>7, <1>8, <1>9, EmptyRange DEF ResetInputOK, OneResetReply
<1> QED BY <1>10, <1>11, <1>12 DEF ServiceInv

\* It is kept when the service has served a request.
LEMMA FinishKeeps == ASSUME ServiceInv, Finish PROVE ServiceInv'
<1>1. /\ serving.request # "none" /\ serving.todo = <<>> /\ (serving.request = "Reset" => replied)
      /\ serving' = NoRequest /\ replied' = FALSE
      /\ response' = (response \/ serving.request = "Store")
      /\ UNCHANGED <<queue, inbox, session, egress>>
    BY DEF Finish
<1>2. NoRequest \in [request : Request \cup {"none"}, todo : Seq(Input)]
      /\ NoRequest.request = "none" /\ NoRequest.todo = <<>>
    BY DEF NoRequest
<1>3. "Reset" \notin Range(inbox)
    BY <1>1 DEF ServiceInv, ResetInputOK, OneResetReply
<1>4. response \in BOOLEAN
    BY DEF ServiceInv, ServiceTypeOK
<1>5. ServiceTypeOK'
    BY <1>1, <1>2, <1>4 DEF ServiceInv, ServiceTypeOK
<1>6. PostedOnce'
    <2>1. "none" \notin Request
        BY DEF Request, Loop
    <2>2. Range(queue) \subseteq Request
        BY DEF ServiceInv, ServiceTypeOK, Range
    <2> QED BY <1>1, <1>2, <2>1, <2>2 DEF ServiceInv, PostedOnce, Once
<1>7. ResetInputOK' /\ OneResetReply'
    BY <1>1, <1>2, <1>3, EmptyRange DEF ServiceInv, ResetInputOK, OneResetReply, Once
<1>8. OneStoreRequest'
    BY <1>1, <1>2, <1>4 DEF ServiceInv, OneStoreRequest, StoreAt, StorePlace
<1> QED BY <1>5, <1>6, <1>7, <1>8 DEF ServiceInv

\* The session task takes its next input: it makes a store request, or the reply
\* of a reset goes out as its input leaves the inbox.
LEMMA HandleKeeps == ASSUME ServiceInv, Handle PROVE ServiceInv'
<1> DEFINE e == Head(inbox)
<1>1. /\ session = NoInput /\ inbox # <<>> /\ inbox' = Tail(inbox)
      /\ UNCHANGED <<queue, serving, response>>
      /\ \/ /\ e \in {"Start", "Carrier"} /\ session' = [input |-> e, stores |-> 1]
            /\ egress' = TRUE /\ UNCHANGED replied
         \/ replied' = (replied \/ e = "Reset") /\ UNCHANGED <<session, egress>>
    BY DEF Handle, NeedsStore
<1>2. inbox \in Seq(Input) /\ Len(inbox) \in Nat /\ Len(inbox) <= InboxCapacity
    BY DEF ServiceInv, ServiceTypeOK
<1>3. /\ inbox' \in Seq(Input) /\ Len(inbox') = Len(inbox) - 1
      /\ Range(inbox) = Range(inbox') \cup {e}
      /\ Once(inbox, "Reset") => Once(inbox', "Reset") /\ ("Reset" = e => "Reset" \notin Range(inbox'))
    BY <1>1, <1>2, Taken
<1> HIDE DEF e
<1>4. Len(inbox') <= InboxCapacity
    BY <1>2, <1>3, SessionServiceAssumption
<1>5. ServiceTypeOK'
    <2>1. session' \in [input : {"none", "Start", "Carrier"}, stores : 0 .. 2]
        BY <1>1 DEF ServiceInv, ServiceTypeOK
    <2>2. egress' \in BOOLEAN /\ replied' \in BOOLEAN
        BY <1>1 DEF ServiceInv, ServiceTypeOK
    <2> QED BY <1>1, <1>3, <1>4, <2>1, <2>2 DEF ServiceInv, ServiceTypeOK
<1>6. PostedOnce'
    BY <1>1 DEF ServiceInv, PostedOnce, Once
<1>7. ResetInputOK'
    BY <1>1, <1>3 DEF ServiceInv, ResetInputOK
<1>8. OneResetReply'
    <2>1. replied \in BOOLEAN /\ OneResetReply
        BY DEF ServiceInv, ServiceTypeOK
    <2>2. e = "Reset" =>
              serving.request = "Reset" /\ serving.todo = <<>> /\ "Reset" \notin Range(inbox')
        BY <1>3 DEF ServiceInv, ResetInputOK
    <2>3. replied' = (replied \/ e = "Reset")
        BY <1>1, <2>1
    <2> QED BY <1>1, <1>3, <2>1, <2>2, <2>3 DEF OneResetReply
<1>9. OneStoreRequest'
    <2>1. session.stores = 0
        BY <1>1 DEF NoInput
    <2>2. \A place \in StorePlace : ~StoreAt(place)
        BY <2>1 DEF ServiceInv, OneStoreRequest
    <2>3. CASE UNCHANGED <<session, egress>>
        BY <1>1, <2>1, <2>2, <2>3 DEF OneStoreRequest, StoreAt
    <2>4. CASE session' = [input |-> e, stores |-> 1] /\ egress' = TRUE
        BY <1>1, <2>2, <2>4 DEF OneStoreRequest, StoreAt, StorePlace
    <2> QED BY <1>1, <2>3, <2>4
<1> QED BY <1>5, <1>6, <1>7, <1>8, <1>9 DEF ServiceInv

\* A result finds its future, which ends or makes the second request.
LEMMA ResolveKeeps == ASSUME ServiceInv, ResolveStore PROVE ServiceInv'
<1>1. /\ response /\ response' = FALSE /\ UNCHANGED <<queue, serving, inbox, replied>>
      /\ \/ /\ session.input = "Start" /\ session.stores = 1
            /\ session' = [session EXCEPT !.stores = 2] /\ egress' = TRUE
         \/ session' = NoInput /\ UNCHANGED egress
    BY DEF ResolveStore
<1>2. ~egress /\ "Store" \notin Range(queue) /\ serving.request # "Store"
    BY <1>1 DEF ServiceInv, OneStoreRequest, StoreAt, StorePlace
<1>3. /\ session' \in [input : {"none", "Start", "Carrier"}, stores : 0 .. 2]
      /\ egress' \in BOOLEAN
      /\ \/ session'.stores = 2 /\ egress'
         \/ session'.stores = 0 /\ ~egress'
    <2>1. session \in [input : {"none", "Start", "Carrier"}, stores : 0 .. 2] /\ egress \in BOOLEAN
        BY DEF ServiceInv, ServiceTypeOK
    <2>2. CASE session' = [session EXCEPT !.stores = 2] /\ egress' = TRUE
        BY <2>1, <2>2
    <2>3. CASE session' = NoInput /\ UNCHANGED egress
        <3>1. egress' \in BOOLEAN /\ ~egress'
            BY <1>2, <2>1, <2>3
        <3> QED BY <2>3, <3>1 DEF NoInput
    <2> QED BY <1>1, <2>2, <2>3
<1>4. ServiceTypeOK'
    BY <1>1, <1>3 DEF ServiceInv, ServiceTypeOK
<1>5. PostedOnce' /\ ResetInputOK' /\ OneResetReply'
    BY <1>1 DEF ServiceInv, PostedOnce, Once, ResetInputOK, OneResetReply
<1>6. OneStoreRequest'
    BY <1>1, <1>2, <1>3 DEF OneStoreRequest, StoreAt, StorePlace
<1> QED BY <1>4, <1>5, <1>6 DEF ServiceInv

\* Every step keeps the invariant.
LEMMA NextService == ASSUME ServiceInv, [ServiceNext]_serviceVars PROVE ServiceInv'
<1>1. CASE UNCHANGED serviceVars
    <2>1. UNCHANGED <<queue, serving, inbox, session, egress, response, replied>>
        BY <1>1 DEF serviceVars
    <2>2. ServiceTypeOK'
        BY <2>1 DEF ServiceInv, ServiceTypeOK
    <2>3. PostedOnce' /\ ResetInputOK'
        BY <2>1 DEF ServiceInv, PostedOnce, ResetInputOK, Once
    <2>4. OneStoreRequest'
        BY <2>1 DEF ServiceInv, OneStoreRequest, StoreAt
    <2>5. OneResetReply'
        BY <2>1 DEF ServiceInv, OneResetReply
    <2> QED BY <2>2, <2>3, <2>4, <2>5 DEF ServiceInv
<1> QED BY <1>1, PostKeeps, RouteKeeps, FrameKeeps, BeginKeeps, SendKeeps, FinishKeeps,
           HandleKeeps, ResolveKeeps DEF ServiceNext

\* For every capacity, the types and what the waits need to know of each other.
THEOREM ServiceInvariant == ServiceSpec => []ServiceInv
BY InitService, NextService, PTL DEF ServiceSpec

\* For every capacity, the queues, the service's request and the future of the
\* session task keep their shape.
THEOREM ServiceTypeCorrect == ServiceSpec => []ServiceTypeOK
<1>1. ServiceInv => ServiceTypeOK
    BY DEF ServiceInv
<1> QED BY <1>1, ServiceInvariant, PTL

\* For every capacity, resolve finds the one future that waits, and no future
\* waits for a request that is nowhere.
THEOREM EveryWaitHasItsRequest == ServiceSpec => []OneStoreRequest
<1>1. ServiceInv => OneStoreRequest
    BY DEF ServiceInv
<1> QED BY <1>1, ServiceInvariant, PTL

\* For every capacity, ResetSessionProjection is answered by its own input.
THEOREM ResetsAreAnsweredOnce == ServiceSpec => []OneResetReply
<1>1. ServiceInv => OneResetReply
    BY DEF ServiceInv
<1> QED BY <1>1, ServiceInvariant, PTL

(***************************************************************************)
(* The circle of waits is the only place where the loops stop.             *)
(***************************************************************************)

\* An input that made no store request is not being handled, and a request of the
\* store sends no input.
Settled ==
    /\ session.stores = 0 => session = NoInput
    /\ serving.request \in {"none", "Store"} => serving.todo = <<>>

\* A step keeps the task's input and the service's request so.
LEMMA SettledKept == ASSUME ServiceInv, Settled, [ServiceNext]_serviceVars PROVE Settled'
<1>1. ASSUME UNCHANGED session PROVE (session.stores = 0 => session = NoInput)'
    BY <1>1 DEF Settled, NoInput
<1>2. ASSUME UNCHANGED serving
      PROVE  (serving.request \in {"none", "Store"} => serving.todo = <<>>)'
    BY <1>2 DEF Settled
<1>3. CASE UNCHANGED serviceVars \/ (\E r \in Loop : Post(r)) \/ Route \/ Frame
    BY <1>1, <1>2, <1>3 DEF serviceVars, Post, Route, Frame, Settled
<1>4. CASE BeginRequest
    <2>1. PICK todo \in {Inputs(Head(queue)), <<>>} :
              serving' = [request |-> Head(queue), todo |-> todo]
        BY <1>4 DEF BeginRequest
    <2>2. UNCHANGED session /\ Head(queue) \in Request
        BY <1>4, Taken DEF BeginRequest, ServiceInv, ServiceTypeOK
    <2>3. Head(queue) = "Store" => Inputs(Head(queue)) = <<>>
        BY DEF Inputs
    <2>4. "none" \notin Request
        BY DEF Request, Loop
    <2> QED BY <1>1, <2>1, <2>2, <2>3, <2>4 DEF Settled
<1>5. CASE SendInput
    <2>1. serving' = [serving EXCEPT !.todo = Tail(serving.todo)] /\ serving.todo # <<>>
          /\ UNCHANGED session
        BY <1>5 DEF SendInput
    <2>2. serving'.request = serving.request
        BY <2>1 DEF ServiceInv, ServiceTypeOK
    <2> QED BY <1>1, <2>1, <2>2 DEF Settled
<1>6. CASE Finish
    BY <1>1, <1>6 DEF Finish, NoRequest, Settled
<1>7. CASE Handle
    <2>1. session' = session \/ session'.stores = 1
        BY <1>7 DEF Handle
    <2> QED BY <1>1, <1>2, <1>7, <2>1 DEF Handle, Settled
<1>8. CASE ResolveStore
    <2>1. session' = NoInput \/ session'.stores = 2
        BY <1>8 DEF ResolveStore, ServiceInv, ServiceTypeOK
    <2> QED BY <1>2, <1>8, <2>1 DEF ResolveStore, Settled
<1> QED BY <1>3, <1>4, <1>5, <1>6, <1>7, <1>8 DEF ServiceNext

\* It holds with the invariant of the waits.
LEMMA ServiceSettles == ServiceSpec => [](ServiceInv /\ Settled)
<1>1. ServiceInit => ServiceInv /\ Settled
    BY InitService DEF ServiceInit, Settled, NoRequest, NoInput
<1>2. ServiceInv /\ Settled /\ [ServiceNext]_serviceVars => (ServiceInv /\ Settled)'
    BY NextService, SettledKept
<1> QED BY <1>1, <1>2, PTL DEF ServiceSpec

\* In the circle both sides wait.
LEMMA CircleWaits ==
    ASSUME ServiceInv, InCircle
    PROVE  /\ session.stores > 0 /\ session # NoInput /\ ~egress /\ ~response
           /\ serving # NoRequest
<1>1. StoreAt("queue")
    BY DEF InCircle, StoreAt
<1>2. session.stores > 0 /\ ~egress /\ ~response
    BY <1>1 DEF ServiceInv, OneStoreRequest, StoreAt, StorePlace
<1> QED BY <1>2 DEF InCircle, NoInput, NoRequest

\* For every capacity, and with resets or without: while anything is left to do,
\* one of the loops can go on unless the session task waits for a request that is
\* queued behind one that waits for the session task.
THEOREM OnlyOneCircle == ServiceSpec => []OnlyTheCircleStops
<1>1. ServiceInv /\ Settled => OnlyTheCircleStops
    <2> SUFFICES ASSUME ServiceInv, Settled, Busy PROVE CanStep <=> ~InCircle
        BY DEF OnlyTheCircleStops
    <2>1. ASSUME InCircle, CanStep PROVE FALSE
        BY <2>1, CircleWaits DEF InCircle, CanStep
    <2>2. ASSUME ~CanStep PROVE InCircle
        <3>1. /\ ~egress /\ ~response
              /\ session = NoInput => inbox = <<>>
              /\ serving = NoRequest => queue = <<>>
            BY <2>2 DEF CanStep
        <3>2. serving.todo # <<>> => Len(inbox) = InboxCapacity
            <4>1. Len(inbox) \in Nat /\ Len(inbox) <= InboxCapacity
                BY DEF ServiceInv, ServiceTypeOK
            <4> QED BY <2>2, <4>1, SessionServiceAssumption DEF CanStep
        <3>3. serving.todo = <<>> =>
                  serving = NoRequest \/ (serving.request = "Reset" /\ ~replied)
            <4>1. serving.request = "none" /\ serving.todo = <<>> => serving = NoRequest
                BY DEF ServiceInv, ServiceTypeOK, NoRequest
            <4> QED BY <2>2, <4>1 DEF CanStep
        <3>4. CASE session = NoInput
            <4>1. inbox = <<>> /\ Len(inbox) = 0
                BY <3>1, <3>4
            <4>2. serving.todo = <<>>
                BY <3>2, <4>1, SessionServiceAssumption
            <4>3. serving # NoRequest
                BY <3>1, <3>4, <4>1 DEF Busy
            <4>4. serving.request = "Reset" /\ ~replied
                BY <3>3, <4>2, <4>3
            <4> QED BY <4>1, <4>2, <4>4, EmptyRange DEF ServiceInv, OneResetReply
        <3>5. CASE session # NoInput
            <4>1. session.stores > 0
                BY <3>5 DEF Settled, ServiceInv, ServiceTypeOK
            <4>2. StoreAt("queue") \/ StoreAt("service")
                BY <3>1, <4>1 DEF ServiceInv, OneStoreRequest, StorePlace, StoreAt
            <4>3. serving.request # "Store"
                BY <2>2 DEF CanStep, Settled
            <4>4. "Store" \in Range(queue)
                BY <4>2, <4>3 DEF StoreAt
            <4>5. serving # NoRequest
                BY <3>1, <4>4, EmptyRange
            <4> QED BY <3>2, <3>3, <4>4, <4>5 DEF InCircle
        <3> QED BY <3>4, <3>5
    <2> QED BY <2>1, <2>2
<1> QED BY <1>1, ServiceSettles, PTL

\* Once in the circle, neither the window's further requests nor the peer's frames
\* free the two.
THEOREM CircleNeverEnds == ServiceSpec => CircleIsForGood
<1>1. ServiceInv /\ [ServiceNext]_serviceVars => [InCircle => InCircle']_serviceVars
    <2> SUFFICES ASSUME ServiceInv, InCircle, ServiceNext PROVE InCircle'
        OBVIOUS
    <2>1. /\ session # NoInput /\ ~egress /\ ~response /\ serving # NoRequest
        BY CircleWaits
    <2>2. ~Route /\ ~BeginRequest /\ ~Handle /\ ~ResolveStore
        BY <2>1 DEF Route, BeginRequest, Handle, ResolveStore
    <2>3. ~SendInput /\ ~Finish
        BY SessionServiceAssumption DEF InCircle, SendInput, Finish
    <2>4. ASSUME NEW r \in Loop, Post(r) PROVE InCircle'
        <3>1. /\ queue' = Append(queue, r) /\ r \in Request
              /\ UNCHANGED <<serving, inbox, replied>>
            BY <2>4 DEF Post, Request
        <3>2. Range(queue') = Range(queue) \cup {r}
            BY <3>1, Posted DEF ServiceInv, ServiceTypeOK
        <3> QED BY <3>1, <3>2 DEF InCircle
    <2>5. CASE Frame
        <3>1. UNCHANGED <<queue, serving, replied>> /\ Len(inbox) # InboxCapacity
            BY <2>5, SessionServiceAssumption DEF Frame
        <3> QED BY <3>1 DEF InCircle
    <2> QED BY <2>2, <2>3, <2>4, <2>5 DEF ServiceNext
<1> QED BY <1>1, ServiceInvariant, PTL DEF ServiceSpec, CircleIsForGood


\* What light traffic keeps, when nobody asks for a reset.
Light ==
    ~Resets /\ LightTraffic =>
        /\ "Reset" \notin Range(queue) /\ serving.request # "Reset"
        /\ Len(inbox) + Demand <= InboxCapacity

\* The slots that the requests of one loop need.
LEMMA SlotsAreFew ==
    ASSUME NEW posted, NEW r \in Loop
    PROVE  Slots(posted, r) \in Nat /\ Len(Inputs(r)) \in Nat /\ Inputs(r) \in Seq(Input)
<1>1. r \in Request
    BY DEF Request
<1> QED BY <1>1, InputsFacts DEF Slots

\* Sums of four, as the posted requests are counted.
LEMMA SumOfFour ==
    ASSUME NEW a \in Nat, NEW b \in Nat, NEW c \in Nat, NEW d \in Nat
    PROVE  /\ a + b + (c + d) \in Nat
           /\ \A n \in Nat :
                 /\ a = 0 => n + b + (c + d) = a + b + (c + d) + n
                 /\ b = 0 => a + n + (c + d) = a + b + (c + d) + n
                 /\ c = 0 => a + b + (n + d) = a + b + (c + d) + n
                 /\ d = 0 => a + b + (c + n) = a + b + (c + d) + n
OBVIOUS

\* What the posted requests need: nothing more when no loop's request comes or goes,
\* and what one more request makes the service send.
LEMMA WaitingCounts ==
    ASSUME NEW p, NEW q
    PROVE  /\ Waiting(p) \in Nat
           /\ (\A r \in Loop : r \in Range(q) <=> r \in Range(p)) => Waiting(q) = Waiting(p)
           /\ \A r \in Loop :
                 Range(q) = Range(p) \cup {r} /\ r \notin Range(p)
                     => Waiting(q) = Waiting(p) + Len(Inputs(r))
<1> DEFINE P(r) == Slots(p, r)
<1> DEFINE Q(r) == Slots(q, r)
<1>1. \A r \in Loop : P(r) \in Nat /\ Q(r) \in Nat /\ Len(Inputs(r)) \in Nat
    BY SlotsAreFew
<1>2. "Start" \in Loop /\ "Record" \in Loop /\ "Drain" \in Loop /\ "Reset" \in Loop
    BY DEF Loop
<1>3. /\ Waiting(p) = P("Start") + P("Record") + (P("Drain") + P("Reset"))
      /\ Waiting(q) = Q("Start") + Q("Record") + (Q("Drain") + Q("Reset"))
    BY DEF Waiting
<1>4. \A r \in Loop : (r \in Range(q) <=> r \in Range(p)) => Q(r) = P(r)
    BY DEF Slots
<1>5. \A r \in Loop : r \in Range(q) /\ r \notin Range(p) => Q(r) = Len(Inputs(r)) /\ P(r) = 0
    BY DEF Slots
<1> HIDE DEF P, Q
<1>6. /\ P("Start") \in Nat /\ P("Record") \in Nat /\ P("Drain") \in Nat /\ P("Reset") \in Nat
    BY <1>1, <1>2
<1>7. Waiting(p) \in Nat
    BY <1>3, <1>6, SumOfFour
<1>8. ASSUME \A r \in Loop : r \in Range(q) <=> r \in Range(p) PROVE Waiting(q) = Waiting(p)
    BY <1>2, <1>3, <1>4, <1>8
<1>9. ASSUME NEW r \in Loop, Range(q) = Range(p) \cup {r}, r \notin Range(p)
      PROVE  Waiting(q) = Waiting(p) + Len(Inputs(r))
    <2> DEFINE n == Len(Inputs(r))
    <2>1. Q(r) = n /\ P(r) = 0 /\ n \in Nat
        BY <1>1, <1>5, <1>9
    <2>2. \A s \in Loop : s # r => Q(s) = P(s)
        BY <1>4, <1>9
    <2> HIDE DEF n
    <2>3. CASE r = "Start"
        <3>1. Q("Record") = P("Record") /\ Q("Drain") = P("Drain") /\ Q("Reset") = P("Reset")
            BY <1>2, <2>2, <2>3
        <3> QED BY <1>3, <1>6, <2>1, <2>3, <3>1, SumOfFour DEF n
    <2>4. CASE r = "Record"
        <3>1. Q("Start") = P("Start") /\ Q("Drain") = P("Drain") /\ Q("Reset") = P("Reset")
            BY <1>2, <2>2, <2>4
        <3> QED BY <1>3, <1>6, <2>1, <2>4, <3>1, SumOfFour DEF n
    <2>5. CASE r = "Drain"
        <3>1. Q("Start") = P("Start") /\ Q("Record") = P("Record") /\ Q("Reset") = P("Reset")
            BY <1>2, <2>2, <2>5
        <3> QED BY <1>3, <1>6, <2>1, <2>5, <3>1, SumOfFour DEF n
    <2>6. CASE r = "Reset"
        <3>1. Q("Start") = P("Start") /\ Q("Record") = P("Record") /\ Q("Drain") = P("Drain")
            BY <1>2, <2>2, <2>6
        <3> QED BY <1>3, <1>6, <2>1, <2>6, <3>1, SumOfFour DEF n
    <2> QED BY <2>3, <2>4, <2>5, <2>6 DEF Loop
<1> QED BY <1>7, <1>8, <1>9

\* The numbers of a state.
LEMMA ServiceNumbers ==
    ASSUME ServiceInv
    PROVE  /\ Len(inbox) \in Nat /\ Len(serving.todo) \in Nat /\ Waiting(queue) \in Nat
           /\ inbox \in Seq(Input) /\ serving.todo \in Seq(Input)
<1>1. inbox \in Seq(Input) /\ serving.todo \in Seq(Input)
    BY DEF ServiceInv, ServiceTypeOK
<1> QED BY <1>1, WaitingCounts

\* A step that changes neither the requests nor what the service has to send needs
\* only to leave the inbox as short as it was.
LEMMA LightStays ==
    ASSUME ServiceInv, ServiceInv', Light, \A r \in Loop : r \in Range(queue') <=> r \in Range(queue),
           serving'.request # "Reset" \/ serving'.request = serving.request,
           Len(serving'.todo) + Len(inbox') <= Len(serving.todo) + Len(inbox)
    PROVE  Light'
<1>1. Waiting(queue') = Waiting(queue)
    BY WaitingCounts
<1>2. "Reset" \in Loop
    BY DEF Loop
<1>3. /\ Len(inbox) \in Nat /\ Len(serving.todo) \in Nat /\ Waiting(queue) \in Nat
      /\ Len(inbox') \in Nat /\ Len(serving'.todo) \in Nat
    BY ServiceNumbers DEF ServiceInv, ServiceTypeOK
<1>4. Len(inbox) + Demand <= InboxCapacity => Len(inbox') + Demand' <= InboxCapacity
    BY <1>1, <1>3, SessionServiceAssumption DEF Demand
<1> QED BY <1>2, <1>4 DEF Light

\* A loop that posts waits until there is room for what it makes the service send.
LEMMA LightPosts == ASSUME ServiceInv, Light, NEW r \in Loop, Post(r) PROVE Light'
<1> SUFFICES ASSUME ~Resets, LightTraffic
             PROVE  /\ "Reset" \notin Range(queue') /\ serving'.request # "Reset"
                    /\ Len(inbox') + Demand' <= InboxCapacity
    BY DEF Light
<1>1. /\ r # "Reset" /\ r \notin Range(queue) /\ r \in Request
      /\ Len(inbox) + Demand + Len(Inputs(r)) <= InboxCapacity
      /\ queue' = Append(queue, r) /\ UNCHANGED <<serving, inbox>>
    BY DEF Post, Outstanding, HasRoom, Request
<1>2. Range(queue') = Range(queue) \cup {r}
    BY <1>1, Posted DEF ServiceInv, ServiceTypeOK
<1>3. Waiting(queue') = Waiting(queue) + Len(Inputs(r))
    BY <1>1, <1>2, WaitingCounts
<1>4. Len(Inputs(r)) \in Nat
    BY SlotsAreFew
<1>5. "Reset" \notin Range(queue) /\ serving.request # "Reset"
    BY DEF Light
<1>6. Len(inbox') + Demand' <= InboxCapacity
    BY <1>1, <1>3, <1>4, ServiceNumbers, SessionServiceAssumption DEF Demand
<1> QED BY <1>1, <1>2, <1>5, <1>6

\* The service takes a request with the slots it was posted with.
LEMMA LightBegins == ASSUME ServiceInv, Light, BeginRequest PROVE Light'
<1> SUFFICES ASSUME ~Resets, LightTraffic
             PROVE  /\ "Reset" \notin Range(queue') /\ serving'.request # "Reset"
                    /\ Len(inbox') + Demand' <= InboxCapacity
    BY DEF Light
<1> DEFINE r == Head(queue)
<1>1. PICK todo \in {Inputs(r), <<>>} : serving' = [request |-> r, todo |-> todo]
    BY DEF BeginRequest
<1>2. serving = NoRequest /\ queue # <<>> /\ queue' = Tail(queue) /\ UNCHANGED inbox
    BY DEF BeginRequest
<1>3. /\ r \in Request /\ Range(queue) = Range(queue') \cup {r} /\ r \notin Range(queue')
    BY <1>2, Taken DEF ServiceInv, ServiceTypeOK, PostedOnce
<1> HIDE DEF r
<1>4. /\ "Reset" \notin Range(queue) /\ Len(inbox) + Demand <= InboxCapacity
      /\ Len(serving.todo) = 0
    BY <1>2 DEF Light, NoRequest
<1>5. /\ Len(todo) \in Nat /\ Len(Inputs(r)) \in Nat /\ Len(todo) <= Len(Inputs(r))
      /\ serving'.todo = todo
    <2>1. Inputs(r) \in Seq(Input) /\ Len(<<>>) = 0
        BY <1>3, InputsFacts
    <2> QED BY <1>1, <2>1
<1>6. Waiting(queue') \in Nat /\ Waiting(queue) = Waiting(queue') + Len(Inputs(r))
    <2>1. CASE r \in Loop
        BY <1>3, <2>1, WaitingCounts
    <2>2. CASE r \notin Loop
        <3>1. Len(Inputs(r)) = 0
            BY <1>3, <2>2 DEF Request, Inputs
        <3>2. \A s \in Loop : s \in Range(queue) <=> s \in Range(queue')
            BY <1>3, <2>2
        <3>3. Waiting(queue) = Waiting(queue') /\ Waiting(queue') \in Nat
            BY <3>2, WaitingCounts
        <3> QED BY <3>1, <3>3
    <2> QED BY <2>1, <2>2
<1>7. Len(inbox') + Demand' <= InboxCapacity
    BY <1>2, <1>4, <1>5, <1>6, ServiceNumbers, SessionServiceAssumption DEF Demand
<1> QED BY <1>1, <1>3, <1>4, <1>7

\* Every step keeps to it.
LEMMA LightKept ==
    ASSUME ServiceInv, ServiceInv', Settled, Light, [ServiceNext]_serviceVars PROVE Light'
<1>n. Len(inbox) \in Nat /\ Len(serving.todo) \in Nat /\ inbox \in Seq(Input)
      /\ serving.todo \in Seq(Input)
    BY ServiceNumbers DEF ServiceInv, ServiceTypeOK
<1>1. CASE UNCHANGED serviceVars \/ ResolveStore
    BY <1>1, <1>n, LightStays DEF serviceVars, ResolveStore
<1>2. CASE Route
    <2>1. queue' = Append(queue, "Store") /\ UNCHANGED <<serving, inbox>> /\ "Store" \in Request
        BY <1>2 DEF Route, Request
    <2>2. Range(queue') = Range(queue) \cup {"Store"}
        BY <2>1, Posted DEF ServiceInv, ServiceTypeOK
    <2>3. \A r \in Loop : r \in Range(queue') <=> r \in Range(queue)
        BY <2>2 DEF Loop
    <2> QED BY <1>n, <2>1, <2>3, LightStays
<1>3. CASE Frame
    <2>1. UNCHANGED <<queue, serving>> /\ Len(inbox') = Len(inbox) + 1
        BY <1>3, <1>n DEF Frame
    <2>2. LightTraffic => Len(inbox) + Demand + 1 <= InboxCapacity
        BY <1>3 DEF Frame, HasRoom
    <2>3. Demand' = Demand /\ Demand \in Nat
        BY <2>1, ServiceNumbers DEF Demand
    <2> QED BY <1>n, <2>1, <2>2, <2>3, SessionServiceAssumption DEF Light
<1>4. CASE SendInput
    <2>1. /\ serving.todo # <<>> /\ inbox' = Append(inbox, Head(serving.todo))
          /\ serving' = [serving EXCEPT !.todo = Tail(serving.todo)] /\ UNCHANGED queue
        BY <1>4 DEF SendInput
    <2>2. Len(Tail(serving.todo)) = Len(serving.todo) - 1 /\ Len(inbox') = Len(inbox) + 1
        BY <1>n, <2>1, Taken, Posted
    <2>3. serving'.request = serving.request /\ serving'.todo = Tail(serving.todo)
        BY <2>1 DEF ServiceInv, ServiceTypeOK
    <2>4. Len(serving'.todo) + Len(inbox') <= Len(serving.todo) + Len(inbox)
        <3>1. PICK m \in Nat, n \in Nat : Len(inbox) = m /\ Len(serving.todo) = n
            BY <1>n
        <3>2. Len(serving'.todo) = n - 1 /\ Len(inbox') = m + 1
            BY <2>2, <2>3, <3>1
        <3>3. n - 1 + (m + 1) <= n + m
            OBVIOUS
        <3> QED BY <3>1, <3>2, <3>3
    <2>5. \A r \in Loop : r \in Range(queue') <=> r \in Range(queue)
        BY <2>1
    <2> QED BY <2>3, <2>4, <2>5, LightStays
<1>5. CASE Finish
    <2>1. serving' = NoRequest /\ UNCHANGED <<queue, inbox>>
        BY <1>5 DEF Finish
    <2>2. serving'.request = "none" /\ Len(serving'.todo) = 0
        BY <2>1 DEF NoRequest
    <2> QED BY <1>n, <2>1, <2>2, LightStays
<1>6. CASE Handle
    <2>1. inbox # <<>> /\ inbox' = Tail(inbox) /\ UNCHANGED <<queue, serving>>
        BY <1>6 DEF Handle
    <2>2. Len(inbox') = Len(inbox) - 1
        BY <1>n, <2>1, Taken
    <2> QED BY <1>n, <2>1, <2>2, LightStays
<1>7. CASE BeginRequest
    BY <1>7, LightBegins
<1>8. CASE \E r \in Loop : Post(r)
    BY <1>8, LightPosts
<1> QED BY <1>1, <1>2, <1>3, <1>4, <1>5, <1>6, <1>7, <1>8 DEF ServiceNext

\* For every capacity: as long as nobody asks for a projection reset and requests
\* and frames come only while the inbox has room for them, the service and the
\* session task never wait for each other.
THEOREM LightTrafficNeverStops == ServiceSpec => [](~Resets /\ LightTraffic => ~InCircle)
<1>1. ServiceInit => Light
    <2> SUFFICES ASSUME ServiceInit PROVE Light
        OBVIOUS
    <2>1. /\ queue = <<>> /\ Range(queue) = {} /\ Len(inbox) = 0 /\ Len(serving.todo) = 0
          /\ serving.request = "none"
        BY EmptyRange DEF ServiceInit, NoRequest
    <2>2. Slots(queue, "Start") = 0 /\ Slots(queue, "Record") = 0
          /\ Slots(queue, "Drain") = 0 /\ Slots(queue, "Reset") = 0
        BY <2>1 DEF Slots
    <2>3. Waiting(queue) = 0
        BY <2>2 DEF Waiting
    <2>4. Demand = 0
        BY <2>1, <2>3 DEF Demand
    <2> QED BY <2>1, <2>4, SessionServiceAssumption DEF Light
<1>2. ServiceInv /\ ServiceInv' /\ Settled /\ Light /\ [ServiceNext]_serviceVars => Light'
    BY LightKept
<1>3. ServiceInv /\ Light => (~Resets /\ LightTraffic => ~InCircle)
    <2> SUFFICES ASSUME ServiceInv, Light, ~Resets, LightTraffic, InCircle PROVE FALSE
        OBVIOUS
    <2>1. serving.todo # <<>> /\ Len(inbox) = InboxCapacity
        BY DEF Light, InCircle
    <2>2. Len(serving.todo) \in Nat \ {0}
        BY <2>1, ServiceNumbers
    <2>3. Demand \in Nat /\ Demand > 0
        BY <2>2, ServiceNumbers DEF Demand
    <2>4. InboxCapacity + Demand <= InboxCapacity
        BY <2>1 DEF Light
    <2> QED BY <2>3, <2>4, SessionServiceAssumption
<1> QED BY <1>1, <1>2, <1>3, ServiceSettles, PTL DEF ServiceSpec


-----------------------------------------------------------------------------
(***************************************************************************)
(* The instance that TLC checks composes the four parts: each of its       *)
(* behaviours is one of every part, so all that is proved above is true of *)
(* the specification of the run.                                           *)
(***************************************************************************)

\* A step of the instance is a step of one part, the others stutter.
THEOREM HostIsItsParts == HostSpec => GateSpec /\ FeedbackSpec /\ GenerationsSpec /\ ServiceSpec
<1>1. HostInit => GateInit /\ FeedbackInit /\ GenerationsInit /\ ServiceInit
    BY DEF HostInit
<1>2. [HostNext]_hostVars => [GateNext]_gateVars
    BY DEF HostNext, hostVars, OnlyFeedback, OnlyGenerations, OnlyService
<1>3. [HostNext]_hostVars => [FeedbackNext]_feedbackVars
    BY DEF HostNext, hostVars, OnlyGate, OnlyGenerations, OnlyService
<1>4. [HostNext]_hostVars => [GenerationsNext]_generationVars
    BY DEF HostNext, hostVars, OnlyGate, OnlyFeedback, OnlyService
<1>5. [HostNext]_hostVars => [ServiceNext]_serviceVars
    BY DEF HostNext, hostVars, OnlyGate, OnlyFeedback, OnlyGenerations
<1> QED BY <1>1, <1>2, <1>3, <1>4, <1>5, PTL
    DEF HostSpec, GateSpec, FeedbackSpec, GenerationsSpec, ServiceSpec

\* The state of the host's parts has the shape of their structs in every behaviour
\* of the instance: HostState, the feedback table, the gate and the service's queue.
THEOREM HostTypesCorrect == HostSpec => []HostTypeOK
<1>1. GateTypeOK /\ FeedbackTypeOK /\ GenerationsTypeOK /\ ServiceTypeOK => HostTypeOK
    BY DEF HostTypeOK
<1> QED BY <1>1, HostIsItsParts, GateTypeCorrect, FeedbackTypeCorrect, GenerationsTypeCorrect,
           ServiceTypeCorrect, PTL
=============================================================================
