--------------------------- MODULE MCSagaRecovery ---------------------------
(***************************************************************************)
(* Small instances of SagaRecovery and of CommandDispatch for TLC.  The    *)
(* engine's recovery is checked against a dispatcher that executes an      *)
(* intent in one step (SagaRecovery!Dispatch), the dispatcher against a    *)
(* process manager that records and withdraws intents in one step          *)
(* (CommandDispatch!ProcessStep), so the two share no variable; one run    *)
(* checks them side by side, `moving` choosing in the initial state which  *)
(* of them moves.                                                          *)
(***************************************************************************)
EXTENDS SagaRecovery, CommandDispatch

CONSTANTS d1, d2

TwoDispatchers == {d1, d2}

VARIABLE moving

MCvars == <<moving, vars, dispatchVars>>

MCInit == moving \in {"recovery", "dispatch"} /\ Init /\ DispatchInit

MCNext ==
    \/ moving = "recovery" /\ Next /\ UNCHANGED <<moving, dispatchVars>>
    \/ moving = "dispatch" /\ DispatchNext /\ UNCHANGED <<moving, vars>>

\* FairSpec and DispatchFairSpec, each asked of the part that moves.
MCFairSpec ==
    /\ MCInit /\ [][MCNext]_MCvars
    /\ WF_vars(moving = "recovery" /\ StartSaga)
    /\ WF_vars(moving = "recovery" /\ ReplayTrigger)
    /\ WF_vars(moving = "recovery" /\ EngineStep)
    /\ WF_vars(moving = "recovery" /\ JobStep)
    /\ \A d \in Dispatchers : WF_dispatchVars(moving = "dispatch" /\ DispatcherStep(d))
    /\ \A i \in Intents : WF_dispatchVars(moving = "dispatch" /\ Lapse(i))
=============================================================================
