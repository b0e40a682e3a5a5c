------------------------------- MODULE MCHost -------------------------------
(***************************************************************************)
(* The parts of the browser host share no state at the level at which they *)
(* are modelled: the projection gate, the pressed controls, the            *)
(* generations of a room and the worker service.  A behaviour of this      *)
(* instance is a behaviour of one of them, named by part, while the others *)
(* stay in their initial state.                                            *)
(***************************************************************************)
EXTENDS ProjectionGate, PerformanceFeedback, RoomGenerations, SessionService

VARIABLE part

hostVars == <<gateVars, feedbackVars, generationVars, serviceVars, part>>

HostInit ==
    /\ part \in {"gate", "feedback", "generations", "service"}
    /\ GateInit /\ FeedbackInit /\ GenerationsInit /\ ServiceInit

OnlyGate == part = "gate" /\ UNCHANGED <<feedbackVars, generationVars, serviceVars, part>>

OnlyFeedback == part = "feedback" /\ UNCHANGED <<gateVars, generationVars, serviceVars, part>>

OnlyGenerations == part = "generations" /\ UNCHANGED <<gateVars, feedbackVars, serviceVars, part>>

OnlyService == part = "service" /\ UNCHANGED <<gateVars, feedbackVars, generationVars, part>>

HostNext ==
    \/ OnlyGate /\ GateNext
    \/ OnlyFeedback /\ FeedbackNext
    \/ OnlyGenerations /\ GenerationsNext
    \/ OnlyService /\ ServiceNext

\* The fairness of the part that runs (GateFairSpec, FeedbackFairSpec,
\* GenerationsFairSpec, ServiceFairSpec).
HostFairness ==
    /\ WF_gateVars(part = "gate" /\ Publish) /\ WF_gateVars(part = "gate" /\ BeginReset)
    /\ WF_gateVars(part = "gate" /\ HandleInput) /\ WF_gateVars(part = "gate" /\ ReceiveMessage)
    /\ WF_feedbackVars(part = "feedback" /\ \E valid \in BOOLEAN : Dispatch(valid))
    /\ WF_feedbackVars(part = "feedback" /\ \E taken, acknowledged \in BOOLEAN :
                           Submit(taken, acknowledged))
    /\ WF_feedbackVars(part = "feedback" /\ SubmitFails)
    /\ WF_feedbackVars(part = "feedback" /\ (\E m \in outcomes : m.outcome = "Reset")
                           /\ ResetProjection)
    /\ \A press \in Slot :
        /\ WF_feedbackVars(part = "feedback" /\
               \E stage \in {"rejected", "reified", "waiting", "fallback"} :
                   LocalEdit(press, stage))
        /\ WF_feedbackVars(part = "feedback" /\
               \E stage \in EditStage, outcome \in Outcome : Confirm(press, stage, outcome))
        /\ WF_feedbackVars(part = "feedback" /\
               \E m \in outcomes : m.press = press /\ ReceiveOutcome(m))
    /\ WF_generationVars(part = "generations" /\ Stopped)
    /\ \A t \in {User} \cup Recovery :
        /\ WF_generationVars(part = "generations" /\ Acquire(t))
        /\ WF_generationVars(part = "generations" /\ Opened(t))
        /\ WF_generationVars(part = "generations" /\ Bound(t))
    /\ \A t \in Recovery :
        /\ WF_generationVars(part = "generations" /\ Joined(t))
        /\ WF_generationVars(part = "generations" /\ Retry(t))
    /\ \A g \in Gen :
        /\ WF_generationVars(part = "generations" /\ EndLoops(g))
        /\ WF_generationVars(part = "generations" /\ Release(g))
    /\ WF_serviceVars(part = "service" /\ Route)
    /\ WF_serviceVars(part = "service" /\ BeginRequest)
    /\ WF_serviceVars(part = "service" /\ SendInput) /\ WF_serviceVars(part = "service" /\ Finish)
    /\ WF_serviceVars(part = "service" /\ Handle) /\ WF_serviceVars(part = "service" /\ ResolveStore)

HostSpec == HostInit /\ [][HostNext]_hostVars /\ HostFairness

-----------------------------------------------------------------------------
\* The state of every part has the shape of its structs.
HostTypeOK == GateTypeOK /\ FeedbackTypeOK /\ GenerationsTypeOK /\ ServiceTypeOK

=============================================================================
