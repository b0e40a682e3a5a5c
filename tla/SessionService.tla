--------------------------- MODULE SessionService ---------------------------
(***************************************************************************)
(* How a browser placement's session task and its worker service wait for  *)
(* each other.  The service (src/room/worker.rs) handles one request at a  *)
(* time and passes inputs to the session task through a bounded inbox; the *)
(* session task (src/room/session.rs) handles one input at a time and, to  *)
(* load or persist a renewal floor, waits for a request that travels       *)
(* through the window (src/web/replica_host.rs) and back into the queue of *)
(* that same service (src/web/replica_worker.rs).                          *)
(*                                                                         *)
(* Each loop of the window has at most one request outstanding, so the     *)
(* requests are told apart by the loop that posts them.  What the handlers *)
(* do to the room is left out: module RoomSession has it.                  *)
(***************************************************************************)
EXTENDS Naturals, Sequences, SequencesExt, FiniteSets

CONSTANTS
    InboxCapacity, \* SESSION_QUEUE_CAPACITY
    Resets,        \* the window may ask for a session projection reset
    LightTraffic   \* requests and carriers only come while the inbox has room

ASSUME SessionServiceAssumption ==
    /\ InboxCapacity \in Nat \ {0}
    /\ Resets \in BOOLEAN
    /\ LightTraffic \in BOOLEAN

\* The window's loops: establishment, the room loop's inbound records and
\* commits, the drain loop and the session loop's continuity reset.
Loop == {"Start", "Record", "Drain", "Reset"}

Request == Loop \cup {"Store"}

Input == {"Start", "Advanced", "Refresh", "Committed", "Reset", "Carrier"}

VARIABLES
    queue,    \* requests posted to the worker and not yet begun
    serving,  \* the request the service handles and the inputs it still sends
    inbox,    \* RoomSessionTaskInput channel
    session,  \* the input being handled and how many store requests it made
    egress,   \* a store request on its way to the window
    response, \* a store response on its way to the session task
    replied   \* the reset reply has been sent through its oneshot

serviceVars == <<queue, serving, inbox, session, egress, response, replied>>

NoRequest == [request |-> "none", todo |-> <<>>]

NoInput == [input |-> "none", stores |-> 0]

ServiceInit ==
    /\ queue = <<>>
    /\ serving = NoRequest
    /\ inbox = <<>>
    /\ session = NoInput
    /\ egress = FALSE
    /\ response = FALSE
    /\ replied = FALSE

\* The inputs a request makes the service send to the session task.
Inputs(r) ==
    CASE r = "Start"  -> <<"Start">>
      [] r = "Record" -> <<"Advanced", "Refresh">>
      [] r = "Drain"  -> <<"Committed", "Refresh">>
      [] r = "Reset"  -> <<"Reset">>
      [] r = "Store"  -> <<>>

Outstanding(r) == r = serving.request \/ r \in Range(queue)

\* Slots the posted requests will still need.
Slots(posted, r) == IF r \in Range(posted) THEN Len(Inputs(r)) ELSE 0

Waiting(posted) ==
    Slots(posted, "Start") + Slots(posted, "Record")
        + (Slots(posted, "Drain") + Slots(posted, "Reset"))

Demand == Len(serving.todo) + Waiting(queue)

HasRoom(slots) == Len(inbox) + Demand + slots <= InboxCapacity

(***************************************************************************)
(* Window.                                                                 *)
(***************************************************************************)

\* A loop of the window posts its next request and waits for the answer.
Post(r) ==
    /\ r = "Reset" => Resets
    /\ ~Outstanding(r)
    /\ LightTraffic => HasRoom(Len(Inputs(r)))
    /\ queue' = Append(queue, r)
    /\ UNCHANGED <<serving, inbox, session, egress, response, replied>>

\* The session loop routes a store request back to the worker.
Route ==
    /\ egress
    /\ egress' = FALSE
    /\ queue' = Append(queue, "Store")
    /\ UNCHANGED <<serving, inbox, session, response, replied>>

\* Mutant: an application frame is queued whatever the inbox holds.
MutFrame ==
    /\ inbox' = Append(inbox, "Carrier")
    /\ UNCHANGED <<queue, serving, session, egress, response, replied>>

\* An application frame goes straight to the inbox; a full inbox refuses it.
Frame ==
    /\ Len(inbox) < InboxCapacity
    /\ LightTraffic => HasRoom(1)
    /\ inbox' = Append(inbox, "Carrier")
    /\ UNCHANGED <<queue, serving, session, egress, response, replied>>

(***************************************************************************)
(* Worker service.                                                         *)
(***************************************************************************)

\* Mutant: the service takes the request posted last.
MutBeginLast ==
    /\ serving = NoRequest
    /\ queue # <<>>
    /\ serving' = [request |-> Last(queue), todo |-> Inputs(Last(queue))]
    /\ queue' = Front(queue)
    /\ UNCHANGED <<inbox, session, egress, response, replied>>

\* The service takes the next request; a drain may find nothing queued.
BeginRequest ==
    /\ serving = NoRequest
    /\ queue # <<>>
    /\ \E todo \in {Inputs(Head(queue))} \cup (IF Head(queue) = "Drain" THEN {<<>>} ELSE {}) :
          serving' = [request |-> Head(queue), todo |-> todo]
    /\ queue' = Tail(queue)
    /\ UNCHANGED <<inbox, session, egress, response, replied>>

\* task.send(..).await
SendInput ==
    /\ serving.todo # <<>>
    /\ Len(inbox) < InboxCapacity
    /\ inbox' = Append(inbox, Head(serving.todo))
    /\ serving' = [serving EXCEPT !.todo = Tail(@)]
    /\ UNCHANGED <<queue, session, egress, response, replied>>

\* The request is answered.  A reset waits for the session task's reply, and
\* the window hands the result of a store request to the waiting future.
Finish ==
    /\ serving.request # "none"
    /\ serving.todo = <<>>
    /\ serving.request = "Reset" => replied
    /\ serving' = NoRequest
    /\ replied' = FALSE
    /\ response' = (response \/ serving.request = "Store")
    /\ UNCHANGED <<queue, inbox, session, egress>>

(***************************************************************************)
(* Session task.  start_peer loads the floor and an Offer or an Answer     *)
(* persists one; every other input finds the floor loaded already.         *)
(***************************************************************************)
NeedsStore(input) == input \in {"Start", "Carrier"}

Handle ==
    /\ session = NoInput
    /\ inbox # <<>>
    /\ inbox' = Tail(inbox)
    /\ \/ /\ NeedsStore(Head(inbox))
          /\ session' = [input |-> Head(inbox), stores |-> 1]
          /\ egress' = TRUE
          /\ UNCHANGED replied
       \/ /\ replied' = (replied \/ Head(inbox) = "Reset")
          /\ UNCHANGED <<session, egress>>
    /\ UNCHANGED <<queue, serving, response>>

\* resolve: the waiting future gets its result.  A load that finds no floor
\* may migrate a legacy one with a second request.
ResolveStore ==
    /\ response
    /\ response' = FALSE
    /\ \/ /\ session.input = "Start" /\ session.stores = 1
          /\ session' = [session EXCEPT !.stores = 2]
          /\ egress' = TRUE
       \/ /\ session' = NoInput
          /\ UNCHANGED egress
    /\ UNCHANGED <<queue, serving, inbox, replied>>

ServiceNext ==
    \/ \E r \in Loop : Post(r)
    \/ Route \/ Frame
    \/ BeginRequest \/ SendInput \/ Finish
    \/ Handle \/ ResolveStore

ServiceSpec == ServiceInit /\ [][ServiceNext]_serviceVars

\* Window, service and session task are tasks of running event loops.  No
\* request and no carrier is owed.
ServiceFairSpec ==
    /\ ServiceSpec
    /\ WF_serviceVars(Route)
    /\ WF_serviceVars(BeginRequest) /\ WF_serviceVars(SendInput) /\ WF_serviceVars(Finish)
    /\ WF_serviceVars(Handle) /\ WF_serviceVars(ResolveStore)

-----------------------------------------------------------------------------
\* The state has the shape of the queues and futures of the code.
ServiceTypeOK ==
    /\ queue \in Seq(Request)
    /\ serving \in [request : Request \cup {"none"}, todo : Seq(Input)]
    /\ inbox \in Seq(Input)
    /\ Len(inbox) <= InboxCapacity
    /\ session \in [input : {"none", "Start", "Carrier"}, stores : 0 .. 2]
    /\ egress \in BOOLEAN
    /\ response \in BOOLEAN
    /\ replied \in BOOLEAN

\* Where a store request of the session task, or its result, can be.
StoreAt(place) ==
    \/ place = "window"  /\ egress
    \/ place = "queue"   /\ "Store" \in Range(queue)
    \/ place = "service" /\ serving.request = "Store"
    \/ place = "task"    /\ response

StorePlace == {"window", "queue", "service", "task"}

\* The session task waits for the store exactly while one request or result of
\* its own is under way: no result finds a future that another request made, and
\* no future waits for a request that was served already.
OneStoreRequest ==
    /\ session.stores > 0 <=> \E place \in StorePlace : StoreAt(place)
    /\ \A x, y \in StorePlace : StoreAt(x) /\ StoreAt(y) => x = y

\* A reset is answered by its own input alone: from the moment the service waits
\* for the reply, either that input is in the inbox or its reply was sent.
OneResetReply ==
    /\ replied => serving.request = "Reset" /\ serving.todo = <<>>
    /\ serving.request = "Reset" /\ serving.todo = <<>> =>
           (replied <=> "Reset" \notin Range(inbox))

\* Something was posted, sent or asked for that is not done.
Busy ==
    \/ queue # <<>> \/ serving # NoRequest
    \/ inbox # <<>> \/ session # NoInput \/ egress \/ response

\* One of the loops can do more of it (Route, ResolveStore, Handle, BeginRequest,
\* SendInput, Finish).
CanStep ==
    \/ egress
    \/ response
    \/ session = NoInput /\ inbox # <<>>
    \/ serving = NoRequest /\ queue # <<>>
    \/ serving.todo # <<>> /\ Len(inbox) < InboxCapacity
    \/ /\ serving.request # "none" /\ serving.todo = <<>>
       /\ serving.request = "Reset" => replied

\* The session task waits for the service to reach its store request, and the
\* service for the session task: to answer a reset, or to empty a full inbox.
InCircle ==
    /\ "Store" \in Range(queue)
    /\ \/ serving.request = "Reset" /\ serving.todo = <<>> /\ ~replied
       \/ serving.todo # <<>> /\ Len(inbox) = InboxCapacity

\* The loops stop with work left in that circle and nowhere else.
OnlyTheCircleStops == Busy => (CanStep <=> ~InCircle)

\* Nothing gets them out of it again.
CircleIsForGood == [][InCircle => InCircle']_serviceVars

\* A session task that waits for the renewal store gets the exact result.
StoreAnswered == session.stores > 0 ~> session.stores = 0

\* Every request the window posts is answered.
RequestsAnswered == \A r \in Loop : Outstanding(r) ~> ~Outstanding(r)
=============================================================================
