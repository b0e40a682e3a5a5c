----------------------------- MODULE CausalLog ------------------------------
(***************************************************************************)
(* What a lane promises its readers, whatever the network does: no         *)
(* placement's log ever holds an entry without the entries its author had  *)
(* seen, and a log only grows, except that a placement that keeps it in    *)
(* memory may start over with nothing.  LaneRepair and RoomReplica         *)
(* implement it.                                                           *)
(***************************************************************************)
EXTENDS Naturals

CONSTANT Placement

VARIABLES
    log,      \* log[p]: the entries p holds
    causes,   \* causes[e]: what e's author held when it made e
    made,     \* the entries made so far are 1 .. made
    volatile  \* the placements whose log is only in memory; it does not change

vars == <<log, causes, made, volatile>>

Init ==
    /\ log = [p \in Placement |-> {}]
    /\ \A e \in DOMAIN causes : causes[e] = {}
    /\ made = 0
    /\ volatile \subseteq Placement

Make(p) ==
    /\ made' = made + 1
    /\ causes' = [causes EXCEPT ![made'] = log[p]]
    /\ log' = [log EXCEPT ![p] = @ \cup {made'}]
    /\ UNCHANGED volatile

\* Entries that others made arrive, together with whatever they depend on.
Learn(p) ==
    \E new \in SUBSET (1 .. made) :
        /\ \A e \in new : causes[e] \subseteq log[p] \cup new
        /\ log' = [log EXCEPT ![p] = @ \cup new]
        /\ UNCHANGED <<causes, made, volatile>>

\* What was only in memory is gone.
Forget(p) ==
    /\ p \in volatile
    /\ log' = [log EXCEPT ![p] = {}]
    /\ UNCHANGED <<causes, made, volatile>>

Next == \E p \in Placement : Make(p) \/ Learn(p) \/ Forget(p)

Spec == Init /\ [][Next]_vars
=============================================================================
