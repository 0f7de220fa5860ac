-------------------------- MODULE SagaRecoveryProofs --------------------------
(***************************************************************************)
(* Proofs about SagaRecovery for every recovery budget and every bound on  *)
(* failures, crashes, resets and replays, and about CommandDispatch, which *)
(* carries out what the sagas delegate, for every number of steps and      *)
(* dispatchers, every batch size, budget and bound.                        *)
(***************************************************************************)
EXTENDS SagaRecovery, CommandDispatch, TLAPS

Forward == {"next", "acted", "roll back"}
Backward == {"undo", "undone"}
Onboarded == events["PlantOnboarded"]

RunModel ==
    [by : {"nobody", "consumer", "job"},
     pc : {"idle", "create", "pending", "load", "announce", "refused", "retry", "park"}
            \cup Forward \cup Backward,
     done : SUBSET Steps, step : 0 .. 4, flags : SUBSET Recorded]

\* Where a run is, the stored status says too.
StatusOK ==
    /\ run \in RunModel
    /\ run.pc = "idle" => run = NoRun
    /\ run.pc = "create" => saga.status = "none"
    /\ run.pc = "pending" => saga.status = "pending"
    /\ run.pc = "load" => saga.status \in {"pending", "running", "compensating", "failed"}
    /\ run.pc \in Forward => saga.status = "running"
    /\ run.pc \in Backward => saga.status = "compensating"
    /\ run.pc \in {"refused", "retry", "park"} => saga.status = "failed"
    /\ run.pc = "announce" => saga.status = "completed"
    /\ saga.status = "none" => acted = {} /\ saga.flags = {}

\* A job's run is within the budget; parking is over it.
AttemptsOK ==
    /\ run.pc \in {"retry", "park"} => run.by = "job"
    /\ run.by = "job" => IF run.pc = "park" THEN saga.attempts = MaxAttempts + PARK_MARGIN
                         ELSE saga.attempts <= MaxAttempts

\* A run that goes forward has done what the log restores, in the order of the
\* steps; a step between its commit and its checkpoint has left its effect.
DoneOK ==
    /\ run.done \subseteq acted
    /\ run.pc \in Forward \cup {"pending"} => run.done = Restored
    /\ run.pc = "acted" => /\ run.step \in Steps
                           /\ run.step \notin run.done
                           /\ \A k \in Steps : k < run.step => k \in run.done
                           /\ run.step \in Recorded => intents[run.step] # "none"
                           /\ run.step = 4 => Onboarded > 0
    /\ run.pc = "undone" => run.step \in run.done
    /\ run.pc = "roll back" => run.done # Steps

\* The last step is logged only when the others stand in the log, and from then
\* on the saga only completes.
LastStepOK ==
    /\ 4 \in acted => /\ acted = Steps /\ (reruns => undone = {})
                      /\ saga.status \in {"running", "completed"}
    /\ saga.status = "completed" => 4 \in acted

\* What the log holds has happened.
EffectsOK ==
    /\ \A k \in Recorded \cap acted : intents[k] # "none"
    /\ 4 \in acted => Onboarded > 0
    /\ ~everUndone => undo = {} /\ \A k \in Recorded : intents[k] # "cancelled"

\* Unless a step was torn from its checkpoint, PlantOnboarded was announced by the
\* one act of the last step.
OnboardedOK ==
    ~torn => \/ Onboarded = 0
             \/ Onboarded = 1 /\ (4 \in acted \/ (run.pc = "acted" /\ run.step = 4))

\* The context's flags know of every logged step that recorded a command, so a
\* compensation withdraws each.
FlagsOK ==
    /\ Recorded \cap acted \subseteq saga.flags
    /\ run.pc \in Forward \cup {"pending"} => saga.flags \subseteq run.flags
    /\ run.pc = "acted" /\ run.step \in Recorded => run.step \in run.flags
    /\ run.pc = "undo" => Recorded \cap run.done \subseteq run.flags
    /\ run.pc = "undone" => Recorded \cap (run.done \ {run.step}) \subseteq run.flags

Left == {k \in Recorded : intents[k] # "none" /\ Standing(k)}

\* Unless a step was torn from its checkpoint, the log knows of every recorded
\* command, a compensated step's command is withdrawn, and a run that goes back
\* has the others still before it.
WithdrawnOK ==
    ~torn => /\ \A k \in Recorded : intents[k] # "none"
                  => k \in acted \/ (run.pc = "acted" /\ run.step = k)
             /\ Left \cap undone = {}
             /\ run.pc = "undo" => Left \subseteq run.done
             /\ run.pc = "undone" => Left \subseteq run.done \ {run.step}
             /\ saga.status = "failed" => Left = {}

Least(a, b) == IF a < b THEN a ELSE b

\* A retry is paid for by a counted failure, a crash or a reset; the one that is
\* under way, or that completed the saga, by an attempt that is left.
Owed == IF saga.attempts < MaxAttempts /\ (run.by = "job" \/ saga.status = "completed")
        THEN 1 ELSE 0

BudgetOK ==
    events["SagaRetrying"] <= MaxAttempts * (MaxResets - resets)
        + Least(saga.attempts, MaxAttempts) + (MaxCrashes - crashes) + Owed

\* The bounds and the histories have their types.
BoundsOK ==
    /\ failures \in 0 .. MaxFailures /\ crashes \in 0 .. MaxCrashes
    /\ resets \in 0 .. MaxResets /\ replays \in 0 .. MaxReplays
    /\ claimed \in BOOLEAN /\ reruns \in BOOLEAN /\ torn \in BOOLEAN /\ everUndone \in BOOLEAN

TypeInv == TypeOK /\ BoundsOK /\ StatusOK /\ AttemptsOK /\ DoneOK

IInv ==
    /\ TypeInv /\ LastStepOK /\ EffectsOK /\ OnboardedOK /\ FlagsOK /\ WithdrawnOK /\ BudgetOK

-----------------------------------------------------------------------------

\* Every set of steps that is not empty has a first and a last one.
LEMMA FirstAndLast ==
  ASSUME NEW S \in SUBSET Steps, S # {}
  PROVE  /\ Min(S) \in S /\ \A k \in S : Min(S) <= k
         /\ Max(S) \in S /\ \A k \in S : k <= Max(S)
<1>1. \E m \in S : \A k \in S : m <= k
  <2>1. CASE 1 \in S
    BY <2>1 DEF Steps
  <2>2. CASE 1 \notin S /\ 2 \in S
    BY <2>2 DEF Steps
  <2>3. CASE 1 \notin S /\ 2 \notin S /\ 3 \in S
    BY <2>3 DEF Steps
  <2>4. CASE 1 \notin S /\ 2 \notin S /\ 3 \notin S
    <3>1. \A k \in S : k = 4
      BY <2>4 DEF Steps
    <3> QED
      BY <3>1
  <2> QED
    BY <2>1, <2>2, <2>3, <2>4
<1>2. \E m \in S : \A k \in S : k <= m
  <2>1. CASE 4 \in S
    BY <2>1 DEF Steps
  <2>2. CASE 4 \notin S /\ 3 \in S
    BY <2>2 DEF Steps
  <2>3. CASE 4 \notin S /\ 3 \notin S /\ 2 \in S
    BY <2>3 DEF Steps
  <2>4. CASE 4 \notin S /\ 3 \notin S /\ 2 \notin S
    <3>1. \A k \in S : k = 1
      BY <2>4 DEF Steps
    <3> QED
      BY <3>1
  <2> QED
    BY <2>1, <2>2, <2>3, <2>4
<1> QED
  BY <1>1, <1>2 DEF Min, Max

\* The next step is the first that is not done.
LEMMA NextStepIs ==
  ASSUME run.done \subseteq Steps, run.done # Steps
  PROVE  /\ NextStep \in Steps /\ NextStep \notin run.done
         /\ \A k \in Steps : k < NextStep => k \in run.done
<1>1. Steps \ run.done \in SUBSET Steps /\ Steps \ run.done # {}
  OBVIOUS
<1>2. NextStep \in Steps \ run.done /\ \A k \in Steps \ run.done : NextStep <= k
  BY <1>1, FirstAndLast DEF NextStep
<1> QED
  BY <1>2 DEF Steps

\* The step compensated next is one of those done.
LEMMA LastDoneIs ==
  ASSUME run.done \subseteq Steps, run.done # {}
  PROVE  LastDone \in run.done /\ LastDone \in Steps
  BY FirstAndLast DEF LastDone

\* The steps of the specification, for the case analyses below.
LEMMA Cases ==
  ASSUME [Next]_vars, NEW P,
         StartSaga => P,
         ReplayTrigger => P,
         RebuildGroup => P,
         create_saga => P,
         BeginSteps => P,
         LoadSaga => P,
         Act => P,
         ActFails => P,
         Checkpoint => P,
         CompleteSaga => P,
         AnnounceCompleted => P,
         BeginCompensation => P,
         Compensate => P,
         CompensateFails => P,
         LogCompensated => P,
         EndCompensation => P,
         RecordFailure => P,
         Resume => P,
         AnnounceRetry => P,
         ClearStatus => P,
         ParkCounter => P,
         ParkAnnounce => P,
         increment_recovery_attempts => P,
         reset_for_retry => P,
         Crash => P,
         \A k \in Recorded : Dispatch(k) => P,
         UNCHANGED vars => P
  PROVE  P
  BY DEF Next, EngineStep, JobStep


\* What the types say, for the arithmetic of the steps below.
LEMMA InvTypes ==
  ASSUME TypeInv
  PROVE  /\ saga \in SagaStateModel /\ saga.attempts \in Nat /\ run \in RunModel
         /\ crashes \in Int /\ resets \in Int /\ MaxAttempts * (MaxResets - resets) \in Int
         /\ Onboarded \in Nat /\ events["SagaRetrying"] \in Nat
<1>1. resets \in Int /\ crashes \in Int /\ MaxResets - resets \in Int /\ MaxAttempts \in Int
  BY ConstantsAssumption DEF TypeInv, BoundsOK
<1>2. MaxAttempts * (MaxResets - resets) \in Int
  BY <1>1
<1> QED
  BY <1>1, <1>2 DEF TypeInv, TypeOK, StatusOK, SagaStateModel, EventTypes, Onboarded

\* No run at all is a run of its type.
LEMMA NoRunIs ==
  /\ NoRun \in RunModel
  /\ NoRun.by = "nobody" /\ NoRun.pc = "idle"
  /\ NoRun.done = {} /\ NoRun.step = 0 /\ NoRun.flags = {}
  BY DEF NoRun, RunModel

\* A bound that is counted down stays a bound.
LEMMA OneLess ==
  ASSUME NEW n \in Nat, NEW m \in 0 .. n, m > 0
  PROVE  m - 1 \in 0 .. n
  OBVIOUS

\* Announcing counts the announced types up, and no other.
LEMMA AnnounceIs ==
  ASSUME events \in [EventTypes -> Nat], NEW T, Announce(T)
  PROVE  /\ events' \in [EventTypes -> Nat]
         /\ \A t \in EventTypes : events'[t] = IF t \in T THEN events[t] + 1 ELSE events[t]
  BY DEF Announce

\* A saga that starts: only the run and the counts of events change.
LEMMA StartSagaKeeps == ASSUME IInv, StartSaga PROVE IInv'
<1> USE ConstantsAssumption DEF IInv, TypeInv, Steps, Recorded, Forward, Backward, PARK_MARGIN
<1>0. /\ saga \in SagaStateModel /\ saga.attempts \in Nat /\ run \in RunModel
      /\ crashes \in Int /\ resets \in Int /\ MaxAttempts * (MaxResets - resets) \in Int
      /\ Onboarded \in Nat /\ events["SagaRetrying"] \in Nat
  BY InvTypes DEF SagaStateModel
<1>1. /\ saga.status = "none"
      /\ saga' = saga
      /\ acted' = acted /\ undone' = undone
      /\ intents' = intents /\ undo' = undo
      /\ claimed' \in BOOLEAN
      /\ reruns' = reruns /\ torn' = torn /\ everUndone' = everUndone
      /\ failures' = failures /\ crashes' = crashes /\ resets' = resets /\ replays' = replays
  BY <1>0, OneLess
     DEF StartSaga, BoundsOK, tables, history, bounds, Announce, Goto, Claims,
         get_sagas_for_recovery, BudgetSpent
<1>2. /\ run = NoRun
      /\ run.by = "nobody" /\ run.pc = "idle"
      /\ run' \in RunModel
      /\ run'.by = "consumer" /\ run'.pc = "create"
      /\ run'.done = {} /\ run'.step = 0 /\ run'.flags = {}
  BY <1>0 DEF StartSaga, RunModel, NoRun, Goto, tables, history, bounds
<1>4. /\ events' \in [EventTypes -> Nat]
      /\ events'["PlantOnboarded"] = Onboarded
      /\ events'["SagaRetrying"] = events["SagaRetrying"]
  BY AnnounceIs DEF StartSaga, TypeOK, EventTypes, Onboarded, tables
<1>5. TypeOK'
  BY <1>0, <1>1, <1>2, <1>4
     DEF TypeOK, SagaStateModel, OnboardPlantContext, RunModel, AttemptsOK
<1>6. BoundsOK'
  BY <1>0, <1>1, <1>2, <1>4 DEF BoundsOK
<1>7. StatusOK'
  BY <1>0, <1>1, <1>2, <1>4 DEF StatusOK, NoRun
<1>8. AttemptsOK'
  BY <1>0, <1>1, <1>2, <1>4 DEF AttemptsOK
<1>9. DoneOK'
  BY <1>0, <1>1, <1>2, <1>4 DEF DoneOK, Restored, Onboarded, StatusOK
<1>10. LastStepOK'
  BY <1>0, <1>1, <1>2, <1>4 DEF LastStepOK, StatusOK, DoneOK, Restored
<1>11. EffectsOK'
  BY <1>0, <1>1, <1>2, <1>4 DEF EffectsOK, Onboarded
<1>12. OnboardedOK'
  BY <1>0, <1>1, <1>2, <1>4 DEF OnboardedOK, Onboarded
<1>13. FlagsOK'
  BY <1>0, <1>1, <1>2, <1>4 DEF FlagsOK, StatusOK, DoneOK
<1>14. WithdrawnOK'
  BY <1>0, <1>1, <1>2, <1>4 DEF WithdrawnOK, Left, Standing, StatusOK, DoneOK
<1>15. BudgetOK'
  BY <1>0, <1>1, <1>2, <1>4 DEF BudgetOK, Least, Owed, AttemptsOK, StatusOK
<1> QED
  BY <1>5, <1>6, <1>7, <1>8, <1>9, <1>10, <1>11, <1>12, <1>13, <1>14, <1>15

\* A replayed trigger loads the saga, or only claims.
LEMMA ReplayTriggerKeeps == ASSUME IInv, ReplayTrigger PROVE IInv'
<1> USE ConstantsAssumption DEF IInv, TypeInv, Steps, Recorded, Forward, Backward, PARK_MARGIN
<1>0. /\ saga \in SagaStateModel /\ saga.attempts \in Nat /\ run \in RunModel
      /\ crashes \in Int /\ resets \in Int /\ MaxAttempts * (MaxResets - resets) \in Int
      /\ Onboarded \in Nat /\ events["SagaRetrying"] \in Nat
  BY InvTypes DEF SagaStateModel
<1>1. /\ run = NoRun
      /\ run.by = "nobody" /\ run.pc = "idle"
      /\ run' \in RunModel
      /\ saga' = saga
      /\ acted' = acted /\ undone' = undone
      /\ intents' = intents /\ undo' = undo
      /\ events' = events
      /\ claimed' \in BOOLEAN
      /\ reruns' = reruns /\ torn' = torn /\ everUndone' = everUndone
      /\ failures' = failures /\ crashes' = crashes /\ resets' = resets /\ replays' = replays
      /\ \/ run' = run
         \/ /\ run'.by = "consumer" /\ run'.pc = "load"
            /\ run'.done = {} /\ run'.step = 0 /\ run'.flags = {}
            /\ saga.status \in {"pending", "running", "compensating", "failed"}
  <2>1. CASE saga.status = "completed"
    BY <1>0, <2>1, NoRunIs DEF ReplayTrigger, history, bounds, BoundsOK
  <2>2. CASE saga.status # "completed"
    BY <1>0, <2>2
       DEF ReplayTrigger, NoRun, RunModel, SagaStateModel, Status, history, bounds,
           BoundsOK
  <2> QED
    BY <2>1, <2>2
<1>5. TypeOK'
  BY <1>0, <1>1 DEF TypeOK, SagaStateModel, OnboardPlantContext, RunModel, AttemptsOK
<1>6. BoundsOK'
  BY <1>0, <1>1 DEF BoundsOK
<1>7. StatusOK'
  BY <1>0, <1>1 DEF StatusOK, NoRun
<1>8. AttemptsOK'
  BY <1>0, <1>1 DEF AttemptsOK
<1>9. DoneOK'
  BY <1>0, <1>1 DEF DoneOK, Restored, Onboarded, StatusOK
<1>10. LastStepOK'
  BY <1>0, <1>1 DEF LastStepOK, StatusOK, DoneOK, Restored
<1>11. EffectsOK'
  BY <1>0, <1>1 DEF EffectsOK, Onboarded
<1>12. OnboardedOK'
  BY <1>0, <1>1 DEF OnboardedOK, Onboarded
<1>13. FlagsOK'
  BY <1>0, <1>1 DEF FlagsOK, StatusOK, DoneOK
<1>14. WithdrawnOK'
  BY <1>0, <1>1 DEF WithdrawnOK, Left, Standing, StatusOK, DoneOK
<1>15. BudgetOK'
  BY <1>0, <1>1 DEF BudgetOK, Least, Owed, AttemptsOK, StatusOK
<1> QED
  BY <1>5, <1>6, <1>7, <1>8, <1>9, <1>10, <1>11, <1>12, <1>13, <1>14, <1>15

\* A rebuilt group touches the claim alone.
LEMMA RebuildGroupKeeps == ASSUME IInv, RebuildGroup PROVE IInv'
<1> USE ConstantsAssumption DEF IInv, TypeInv, Steps, Recorded, Forward, Backward, PARK_MARGIN
<1>0. /\ saga \in SagaStateModel /\ saga.attempts \in Nat /\ run \in RunModel
      /\ crashes \in Int /\ resets \in Int /\ MaxAttempts * (MaxResets - resets) \in Int
      /\ Onboarded \in Nat /\ events["SagaRetrying"] \in Nat
  BY InvTypes DEF SagaStateModel
<1>1. /\ saga' = saga
      /\ acted' = acted /\ undone' = undone
      /\ intents' = intents /\ undo' = undo
      /\ claimed' \in BOOLEAN
      /\ reruns' = reruns /\ torn' = torn /\ everUndone' = everUndone
      /\ failures' = failures /\ crashes' = crashes /\ resets' = resets
      /\ replays' \in 0 .. MaxReplays
  BY <1>0, OneLess
     DEF RebuildGroup, BoundsOK, tables, history, bounds, Announce, Goto, Claims,
         get_sagas_for_recovery, BudgetSpent
<1>2. /\ run' = run
  BY <1>0 DEF RebuildGroup, RunModel, NoRun, Goto, tables, history, bounds
<1>4. /\ events' = events
  BY AnnounceIs DEF RebuildGroup, TypeOK, EventTypes, Onboarded, tables
<1>5. TypeOK'
  BY <1>0, <1>1, <1>2, <1>4
     DEF TypeOK, SagaStateModel, OnboardPlantContext, RunModel, AttemptsOK
<1>6. BoundsOK'
  BY <1>0, <1>1, <1>2, <1>4 DEF BoundsOK
<1>7. StatusOK'
  BY <1>0, <1>1, <1>2, <1>4 DEF StatusOK, NoRun
<1>8. AttemptsOK'
  BY <1>0, <1>1, <1>2, <1>4 DEF AttemptsOK
<1>9. DoneOK'
  BY <1>0, <1>1, <1>2, <1>4 DEF DoneOK, Restored, Onboarded, StatusOK
<1>10. LastStepOK'
  BY <1>0, <1>1, <1>2, <1>4 DEF LastStepOK, StatusOK, DoneOK, Restored
<1>11. EffectsOK'
  BY <1>0, <1>1, <1>2, <1>4 DEF EffectsOK, Onboarded
<1>12. OnboardedOK'
  BY <1>0, <1>1, <1>2, <1>4 DEF OnboardedOK, Onboarded
<1>13. FlagsOK'
  BY <1>0, <1>1, <1>2, <1>4 DEF FlagsOK, StatusOK, DoneOK
<1>14. WithdrawnOK'
  BY <1>0, <1>1, <1>2, <1>4 DEF WithdrawnOK, Left, Standing, StatusOK, DoneOK
<1>15. BudgetOK'
  BY <1>0, <1>1, <1>2, <1>4 DEF BudgetOK, Least, Owed, AttemptsOK, StatusOK
<1> QED
  BY <1>5, <1>6, <1>7, <1>8, <1>9, <1>10, <1>11, <1>12, <1>13, <1>14, <1>15

\* create_saga: the row appears as pending, with an empty log.
LEMMA create_sagaKeeps == ASSUME IInv, create_saga PROVE IInv'
<1> USE ConstantsAssumption DEF IInv, TypeInv, Steps, Recorded, Forward, Backward, PARK_MARGIN
<1>0. /\ saga \in SagaStateModel /\ saga.attempts \in Nat /\ run \in RunModel
      /\ crashes \in Int /\ resets \in Int /\ MaxAttempts * (MaxResets - resets) \in Int
      /\ Onboarded \in Nat /\ events["SagaRetrying"] \in Nat
  BY InvTypes DEF SagaStateModel
<1>1. /\ acted' = acted /\ undone' = undone
      /\ intents' = intents /\ undo' = undo
      /\ claimed' \in BOOLEAN
      /\ reruns' = reruns /\ torn' = torn /\ everUndone' = everUndone
      /\ failures' = failures /\ crashes' = crashes /\ resets' = resets /\ replays' = replays
  BY <1>0, OneLess
     DEF create_saga, BoundsOK, tables, history, bounds, Announce, Goto, Claims,
         get_sagas_for_recovery, BudgetSpent
<1>2. /\ run.pc = "create"
      /\ run' \in RunModel
      /\ run'.by = run.by /\ run'.pc = "pending"
      /\ run'.done = run.done /\ run'.step = run.step /\ run'.flags = run.flags
  BY <1>0 DEF create_saga, RunModel, NoRun, Goto, tables, history, bounds
<1>3. /\ saga' \in SagaStateModel
      /\ saga'.status = "pending" /\ saga'.attempts = saga.attempts /\ saga'.flags = saga.flags
  BY <1>0
     DEF create_saga, SagaStateModel, OnboardPlantContext, Status,
         get_sagas_for_recovery, BudgetSpent
<1>4. /\ events' = events
  BY AnnounceIs DEF create_saga, TypeOK, EventTypes, Onboarded, tables
<1>5. TypeOK'
  BY <1>0, <1>1, <1>2, <1>3, <1>4
     DEF TypeOK, SagaStateModel, OnboardPlantContext, RunModel, AttemptsOK
<1>6. BoundsOK'
  BY <1>0, <1>1, <1>2, <1>3, <1>4 DEF BoundsOK
<1>7. StatusOK'
  BY <1>0, <1>1, <1>2, <1>3, <1>4 DEF StatusOK, NoRun
<1>8. AttemptsOK'
  BY <1>0, <1>1, <1>2, <1>3, <1>4 DEF AttemptsOK
<1>9. DoneOK'
  BY <1>0, <1>1, <1>2, <1>3, <1>4 DEF DoneOK, Restored, Onboarded, StatusOK
<1>10. LastStepOK'
  BY <1>0, <1>1, <1>2, <1>3, <1>4 DEF LastStepOK, StatusOK, DoneOK, Restored
<1>11. EffectsOK'
  BY <1>0, <1>1, <1>2, <1>3, <1>4 DEF EffectsOK, Onboarded
<1>12. OnboardedOK'
  BY <1>0, <1>1, <1>2, <1>3, <1>4 DEF OnboardedOK, Onboarded
<1>13. FlagsOK'
  BY <1>0, <1>1, <1>2, <1>3, <1>4 DEF FlagsOK, StatusOK, DoneOK
<1>14. WithdrawnOK'
  BY <1>0, <1>1, <1>2, <1>3, <1>4 DEF WithdrawnOK, Left, Standing, StatusOK, DoneOK
<1>15. BudgetOK'
  BY <1>0, <1>1, <1>2, <1>3, <1>4 DEF BudgetOK, Least, Owed, AttemptsOK, StatusOK
<1> QED
  BY <1>5, <1>6, <1>7, <1>8, <1>9, <1>10, <1>11, <1>12, <1>13, <1>14, <1>15

\* The saga is running, and the run has done what the log restores.
LEMMA BeginStepsKeeps == ASSUME IInv, BeginSteps PROVE IInv'
<1> USE ConstantsAssumption DEF IInv, TypeInv, Steps, Recorded, Forward, Backward, PARK_MARGIN
<1>0. /\ saga \in SagaStateModel /\ saga.attempts \in Nat /\ run \in RunModel
      /\ crashes \in Int /\ resets \in Int /\ MaxAttempts * (MaxResets - resets) \in Int
      /\ Onboarded \in Nat /\ events["SagaRetrying"] \in Nat
  BY InvTypes DEF SagaStateModel
<1>1. /\ acted' = acted /\ undone' = undone
      /\ intents' = intents /\ undo' = undo
      /\ claimed' \in BOOLEAN
      /\ reruns' = reruns /\ torn' = torn /\ everUndone' = everUndone
      /\ failures' = failures /\ crashes' = crashes /\ resets' = resets /\ replays' = replays
  BY <1>0, OneLess
     DEF BeginSteps, BoundsOK, tables, history, bounds, Announce, Goto, Claims,
         get_sagas_for_recovery, BudgetSpent
<1>2. /\ run.pc = "pending"
      /\ run' \in RunModel
      /\ run'.by = run.by /\ run'.pc = "next"
      /\ run'.done = run.done /\ run'.step = run.step /\ run'.flags = run.flags
  BY <1>0 DEF BeginSteps, RunModel, NoRun, Goto, tables, history, bounds
<1>3. /\ saga' \in SagaStateModel
      /\ saga'.status = "running" /\ saga'.attempts = saga.attempts /\ saga'.flags = saga.flags
  BY <1>0
     DEF BeginSteps, SagaStateModel, OnboardPlantContext, Status,
         get_sagas_for_recovery, BudgetSpent
<1>4. /\ events' = events
  BY AnnounceIs DEF BeginSteps, TypeOK, EventTypes, Onboarded, tables
<1>5. TypeOK'
  BY <1>0, <1>1, <1>2, <1>3, <1>4
     DEF TypeOK, SagaStateModel, OnboardPlantContext, RunModel, AttemptsOK
<1>6. BoundsOK'
  BY <1>0, <1>1, <1>2, <1>3, <1>4 DEF BoundsOK
<1>7. StatusOK'
  BY <1>0, <1>1, <1>2, <1>3, <1>4 DEF StatusOK, NoRun
<1>8. AttemptsOK'
  BY <1>0, <1>1, <1>2, <1>3, <1>4 DEF AttemptsOK
<1>9. DoneOK'
  BY <1>0, <1>1, <1>2, <1>3, <1>4 DEF DoneOK, Restored, Onboarded, StatusOK
<1>10. LastStepOK'
  BY <1>0, <1>1, <1>2, <1>3, <1>4 DEF LastStepOK, StatusOK, DoneOK, Restored
<1>11. EffectsOK'
  BY <1>0, <1>1, <1>2, <1>3, <1>4 DEF EffectsOK, Onboarded
<1>12. OnboardedOK'
  BY <1>0, <1>1, <1>2, <1>3, <1>4 DEF OnboardedOK, Onboarded
<1>13. FlagsOK'
  BY <1>0, <1>1, <1>2, <1>3, <1>4 DEF FlagsOK, StatusOK, DoneOK
<1>14. WithdrawnOK'
  BY <1>0, <1>1, <1>2, <1>3, <1>4 DEF WithdrawnOK, Left, Standing, StatusOK, DoneOK
<1>15. BudgetOK'
  BY <1>0, <1>1, <1>2, <1>3, <1>4 DEF BudgetOK, Least, Owed, AttemptsOK, StatusOK
<1> QED
  BY <1>5, <1>6, <1>7, <1>8, <1>9, <1>10, <1>11, <1>12, <1>13, <1>14, <1>15

\* A stored saga is loaded: the run takes over the log and the flags.
LEMMA LoadSagaKeeps == ASSUME IInv, LoadSaga PROVE IInv'
<1> USE ConstantsAssumption DEF IInv, TypeInv, Steps, Recorded, Forward, Backward, PARK_MARGIN
<1>0. /\ saga \in SagaStateModel /\ saga.attempts \in Nat /\ run \in RunModel
      /\ crashes \in Int /\ resets \in Int /\ MaxAttempts * (MaxResets - resets) \in Int
      /\ Onboarded \in Nat /\ events["SagaRetrying"] \in Nat
  BY InvTypes DEF SagaStateModel
<1>a. Restored \subseteq acted /\ acted \subseteq Steps /\ saga.flags \subseteq Recorded
  BY DEF TypeOK, Restored, SagaStateModel, OnboardPlantContext
<1>1. /\ run.pc = "load"
      /\ run' \in RunModel
      /\ run'.by = run.by /\ run'.step = run.step
      /\ saga' = saga
      /\ acted' = acted /\ undone' = undone
      /\ intents' = intents /\ undo' = undo
      /\ events' = events
      /\ claimed' \in BOOLEAN
      /\ reruns' = reruns /\ torn' = torn /\ everUndone' = everUndone
      /\ failures' = failures /\ crashes' = crashes /\ resets' = resets /\ replays' = replays
      /\ \/ /\ saga.status \in {"pending", "running"}
            /\ run'.pc = (IF saga.status = "pending" THEN "pending" ELSE "next")
            /\ run'.done = Restored /\ run'.flags = saga.flags
         \/ /\ saga.status = "compensating"
            /\ run'.pc = "undo" /\ run'.done = acted \ undone /\ run'.flags = saga.flags
         \/ /\ saga.status = "failed"
            /\ run'.pc = "refused" /\ run'.done = run.done /\ run'.flags = run.flags
  <2>1. run.pc = "load" /\ saga.status \in {"pending", "running", "compensating", "failed"}
    BY DEF LoadSaga, StatusOK
  <2>2. CASE saga.status \in {"pending", "running"}
    <3>1. run' = [run EXCEPT !.pc = IF saga.status = "pending" THEN "pending" ELSE "next",
                             !.done = Restored, !.flags = saga.flags]
      BY <2>2 DEF LoadSaga
    <3> QED
      BY <1>0, <1>a, <2>1, <2>2, <3>1
         DEF LoadSaga, RunModel, tables, history, bounds, BoundsOK
  <2>3. CASE saga.status = "compensating"
    <3>1. run' = [run EXCEPT !.pc = "undo", !.done = acted \ undone, !.flags = saga.flags]
      BY <2>3 DEF LoadSaga
    <3> QED
      BY <1>0, <1>a, <2>1, <2>3, <3>1
         DEF LoadSaga, RunModel, tables, history, bounds, BoundsOK
  <2>4. CASE saga.status = "failed"
    <3>1. run' = [run EXCEPT !.pc = "refused"]
      BY <2>4 DEF LoadSaga
    <3> QED
      BY <1>0, <2>1, <2>4, <3>1 DEF LoadSaga, RunModel, tables, history, bounds, BoundsOK
  <2> QED
    BY <2>1, <2>2, <2>3, <2>4
<1>5. TypeOK'
  BY <1>0, <1>1 DEF TypeOK, SagaStateModel, OnboardPlantContext, RunModel, AttemptsOK
<1>6. BoundsOK'
  BY <1>0, <1>1 DEF BoundsOK
<1>7. StatusOK'
  BY <1>0, <1>1 DEF StatusOK, NoRun
<1>8. AttemptsOK'
  BY <1>0, <1>1 DEF AttemptsOK
<1>9. DoneOK'
  BY <1>0, <1>1 DEF DoneOK, Restored, Onboarded, StatusOK
<1>10. LastStepOK'
  BY <1>0, <1>1 DEF LastStepOK, StatusOK, DoneOK, Restored
<1>11. EffectsOK'
  BY <1>0, <1>1 DEF EffectsOK, Onboarded
<1>12. OnboardedOK'
  BY <1>0, <1>1 DEF OnboardedOK, Onboarded
<1>13. FlagsOK'
  BY <1>0, <1>1 DEF FlagsOK, StatusOK, DoneOK
<1>14. WithdrawnOK'
  BY <1>0, <1>1 DEF WithdrawnOK, Left, Standing, StatusOK, DoneOK
<1>15. BudgetOK'
  BY <1>0, <1>1 DEF BudgetOK, Least, Owed, AttemptsOK, StatusOK
<1> QED
  BY <1>5, <1>6, <1>7, <1>8, <1>9, <1>10, <1>11, <1>12, <1>13, <1>14, <1>15

\* A step commits.  The last one has not been logged before: were it, every step
\* would be restored and the run would have nothing left to do.
LEMMA ActKeeps == ASSUME IInv, Act PROVE IInv'
<1> USE ConstantsAssumption DEF IInv, TypeInv, Steps, Recorded, Forward, Backward, PARK_MARGIN
<1>0. /\ saga \in SagaStateModel /\ saga.attempts \in Nat /\ run \in RunModel
      /\ crashes \in Int /\ resets \in Int /\ MaxAttempts * (MaxResets - resets) \in Int
      /\ Onboarded \in Nat /\ events["SagaRetrying"] \in Nat
  BY InvTypes DEF SagaStateModel
<1>k. PICK k \in Steps : /\ k = NextStep /\ k \notin run.done
                         /\ \A j \in Steps : j < k => j \in run.done
  BY NextStepIs DEF Act, TypeOK
<1>r. intents' = (IF k \in Recorded THEN [intents EXCEPT ![k] = "pending"] ELSE intents)
  BY <1>k DEF Act, StepCommits, record
<1>e. IF k = 4 THEN Announce({"PlantOnboarded"}) ELSE UNCHANGED events
  BY <1>k DEF Act, StepCommits
<1>u. run' = [run EXCEPT !.pc = "acted", !.step = k,
                        !.flags = IF k \in Recorded THEN @ \cup {k} ELSE @]
  BY <1>k DEF Act
<1>1. /\ run.pc = "next" /\ run.done # Steps
      /\ run' \in RunModel
      /\ run'.by = run.by /\ run'.pc = "acted"
      /\ run'.done = run.done /\ run'.step = k /\ run'.flags = (IF k \in Recorded THEN run.flags \cup {k} ELSE run.flags)
      /\ saga' = saga
      /\ acted' = acted /\ undone' = undone
      /\ undo' = undo
      /\ claimed' \in BOOLEAN
      /\ reruns' = reruns /\ torn' = torn /\ everUndone' = everUndone
      /\ failures' = failures /\ crashes' = crashes /\ resets' = resets /\ replays' = replays
      /\ k \in Recorded => intents[k] = "none" /\ intents'[k] = "pending"
      /\ \A j \in Recorded : j # k => intents'[j] = intents[j]
      /\ intents' \in [Recorded -> SagaIntent]
      /\ events' \in [EventTypes -> Nat]
      /\ events'["PlantOnboarded"] = IF k = 4 THEN Onboarded + 1 ELSE Onboarded
      /\ events'["SagaRetrying"] = events["SagaRetrying"]
      /\ k \in Steps /\ k \notin run.done /\ \A j \in Steps : j < k => j \in run.done
  <2>1. run.pc = "next" /\ run.done # Steps /\ (k \in Recorded => intents[k] = "none")
    BY <1>k DEF Act, KeyTaken
  <2>2. saga' = saga /\ acted' = acted /\ undone' = undone /\ undo' = undo /\ UNCHANGED <<history, bounds>>
        /\ claimed' \in BOOLEAN
    BY DEF Act, StepCommits, Claims, BoundsOK
  <2>3. /\ events' \in [EventTypes -> Nat]
        /\ events'["PlantOnboarded"] = IF k = 4 THEN Onboarded + 1 ELSE Onboarded
        /\ events'["SagaRetrying"] = events["SagaRetrying"]
    BY <1>e, AnnounceIs DEF TypeOK, EventTypes, Onboarded
  <2>4. /\ intents' \in [Recorded -> SagaIntent] /\ (k \in Recorded => intents'[k] = "pending")
        /\ \A j \in Recorded : j # k => intents'[j] = intents[j]
    BY <1>r DEF TypeOK, SagaIntent
  <2>5. /\ run' \in RunModel
        /\ run'.by = run.by /\ run'.pc = "acted"
        /\ run'.done = run.done /\ run'.step = k /\ run'.flags = (IF k \in Recorded THEN run.flags \cup {k} ELSE run.flags)
    <3>0. k \in 0 .. 4
      OBVIOUS
    <3>1. CASE k \in Recorded
      <4>1. run.flags \cup {k} \subseteq Recorded
        BY <3>1, <1>0 DEF RunModel
      <4>2. run' = [run EXCEPT !.pc = "acted", !.step = k, !.flags = run.flags \cup {k}]
        BY <3>1, <1>u
      <4> QED
        BY <3>0, <3>1, <4>1, <4>2, <1>0 DEF RunModel
    <3>2. CASE k \notin Recorded
      <4>1. run' = [run EXCEPT !.pc = "acted", !.step = k, !.flags = run.flags]
        BY <3>2, <1>u
      <4> QED
        BY <3>0, <3>2, <4>1, <1>0 DEF RunModel
    <3> QED
      BY <3>1, <3>2
  <2> QED
    BY <2>1, <2>2, <2>3, <2>4, <2>5, <1>k DEF history, bounds
<1>5. TypeOK'
  BY <1>0, <1>1 DEF TypeOK, SagaStateModel, OnboardPlantContext, RunModel, AttemptsOK
<1>6. BoundsOK'
  BY <1>0, <1>1 DEF BoundsOK
<1>7. StatusOK'
  BY <1>0, <1>1 DEF StatusOK, NoRun
<1>8. AttemptsOK'
  BY <1>0, <1>1 DEF AttemptsOK
<1>9. DoneOK'
  BY <1>0, <1>1 DEF DoneOK, Restored, Onboarded, StatusOK
<1>10. LastStepOK'
  BY <1>0, <1>1 DEF LastStepOK, StatusOK, DoneOK, Restored
<1>11. EffectsOK'
  BY <1>0, <1>1 DEF EffectsOK, Onboarded
<1>12. OnboardedOK'
  <2>1. CASE k = 4
    <3>1. 4 \notin acted
      BY <2>1, <1>1 DEF LastStepOK, DoneOK, Restored
    <3> QED
      BY <2>1, <3>1, <1>0, <1>1 DEF OnboardedOK, Onboarded
  <2>2. CASE k # 4
    BY <2>2, <1>1 DEF OnboardedOK, Onboarded
  <2> QED
    BY <2>1, <2>2
<1>13. FlagsOK'
  BY <1>0, <1>1 DEF FlagsOK, StatusOK, DoneOK
<1>14. WithdrawnOK'
  <2>1. SUFFICES ASSUME ~torn PROVE WithdrawnOK'
    BY <1>1 DEF WithdrawnOK
  <2>2. k \in Recorded => k \notin acted /\ k \notin undone
    BY <1>1 DEF EffectsOK, TypeOK
  <2>3. Left' \subseteq Left \cup ({k} \cap Recorded)
    BY <1>1 DEF Left, Standing
  <2>4. \A j \in Recorded : intents'[j] # "none" => j \in acted \/ j = k
    BY <2>1, <1>1 DEF WithdrawnOK
  <2>5. Left' \cap undone = {}
    BY <2>1, <2>2, <2>3 DEF WithdrawnOK
  <2> QED
    BY <2>1, <2>4, <2>5, <1>1 DEF WithdrawnOK, StatusOK
<1>15. BudgetOK'
  BY <1>0, <1>1 DEF BudgetOK, Least, Owed, AttemptsOK, StatusOK
<1> QED
  BY <1>5, <1>6, <1>7, <1>8, <1>9, <1>10, <1>11, <1>12, <1>13, <1>14, <1>15

\* A step that raises leaves the tables alone, and was not beyond the last step.
LEMMA ActFailsKeeps == ASSUME IInv, ActFails PROVE IInv'
<1> USE ConstantsAssumption DEF IInv, TypeInv, Steps, Recorded, Forward, Backward, PARK_MARGIN
<1>0. /\ saga \in SagaStateModel /\ saga.attempts \in Nat /\ run \in RunModel
      /\ crashes \in Int /\ resets \in Int /\ MaxAttempts * (MaxResets - resets) \in Int
      /\ Onboarded \in Nat /\ events["SagaRetrying"] \in Nat
  BY InvTypes DEF SagaStateModel
<1>1. /\ saga' = saga
      /\ acted' = acted /\ undone' = undone
      /\ intents' = intents /\ undo' = undo
      /\ claimed' \in BOOLEAN
      /\ reruns' = reruns /\ torn' = torn /\ everUndone' = everUndone
      /\ failures' \in 0 .. MaxFailures /\ crashes' = crashes
      /\ resets' = resets /\ replays' = replays
  BY <1>0, OneLess
     DEF ActFails, BoundsOK, tables, history, bounds, Announce, Goto, Claims,
         get_sagas_for_recovery, BudgetSpent
<1>2. /\ run.pc = "next"
      /\ run.done # Steps
      /\ run' \in RunModel
      /\ run'.by = run.by /\ run'.pc = "roll back"
      /\ run'.done = run.done /\ run'.step = run.step /\ run'.flags = run.flags
  BY <1>0 DEF ActFails, RunModel, NoRun, Goto, tables, history, bounds
<1>4. /\ events' = events
  BY AnnounceIs DEF ActFails, TypeOK, EventTypes, Onboarded, tables
<1>5. TypeOK'
  BY <1>0, <1>1, <1>2, <1>4
     DEF TypeOK, SagaStateModel, OnboardPlantContext, RunModel, AttemptsOK
<1>6. BoundsOK'
  BY <1>0, <1>1, <1>2, <1>4 DEF BoundsOK
<1>7. StatusOK'
  BY <1>0, <1>1, <1>2, <1>4 DEF StatusOK, NoRun
<1>8. AttemptsOK'
  BY <1>0, <1>1, <1>2, <1>4 DEF AttemptsOK
<1>9. DoneOK'
  BY <1>0, <1>1, <1>2, <1>4 DEF DoneOK, Restored, Onboarded, StatusOK
<1>10. LastStepOK'
  BY <1>0, <1>1, <1>2, <1>4 DEF LastStepOK, StatusOK, DoneOK, Restored
<1>11. EffectsOK'
  BY <1>0, <1>1, <1>2, <1>4 DEF EffectsOK, Onboarded
<1>12. OnboardedOK'
  BY <1>0, <1>1, <1>2, <1>4 DEF OnboardedOK, Onboarded
<1>13. FlagsOK'
  BY <1>0, <1>1, <1>2, <1>4 DEF FlagsOK, StatusOK, DoneOK
<1>14. WithdrawnOK'
  BY <1>0, <1>1, <1>2, <1>4 DEF WithdrawnOK, Left, Standing, StatusOK, DoneOK
<1>15. BudgetOK'
  BY <1>0, <1>1, <1>2, <1>4 DEF BudgetOK, Least, Owed, AttemptsOK, StatusOK
<1> QED
  BY <1>5, <1>6, <1>7, <1>8, <1>9, <1>10, <1>11, <1>12, <1>13, <1>14, <1>15

\* A checkpoint logs the step after its effect; the last step is logged when the
\* three before it stand in the log.
LEMMA CheckpointKeeps == ASSUME IInv, Checkpoint PROVE IInv'
<1> USE ConstantsAssumption DEF IInv, TypeInv, Steps, Recorded, Forward, Backward, PARK_MARGIN
<1>0. /\ saga \in SagaStateModel /\ saga.attempts \in Nat /\ run \in RunModel
      /\ crashes \in Int /\ resets \in Int /\ MaxAttempts * (MaxResets - resets) \in Int
      /\ Onboarded \in Nat /\ events["SagaRetrying"] \in Nat
  BY InvTypes DEF SagaStateModel
<1>k. PICK k \in Steps : /\ k = run.step /\ k \notin run.done
                         /\ \A j \in Steps : j < k => j \in run.done
                         /\ k \in Recorded => intents[k] # "none"
                         /\ k = 4 => Onboarded > 0
  BY DEF Checkpoint, DoneOK
<1>1. /\ run.pc = "acted" /\ run.step = k /\ saga.status = "running"
      /\ run' \in RunModel
      /\ run'.by = run.by /\ run'.pc = "next"
      /\ run'.done = run.done \cup {k} /\ run'.step = run.step /\ run'.flags = run.flags
      /\ saga' \in SagaStateModel
      /\ saga'.status = saga.status /\ saga'.attempts = saga.attempts /\ saga'.flags = run.flags
      /\ acted' = acted \cup {k} /\ undone' = undone \ {k}
      /\ intents' = intents /\ undo' = undo
      /\ events' = events
      /\ claimed' \in BOOLEAN
      /\ reruns' = reruns /\ torn' = torn /\ everUndone' = everUndone
      /\ failures' = failures /\ crashes' = crashes /\ resets' = resets /\ replays' = replays
  <2>1. run.pc = "acted" /\ run.step = k /\ saga.status = "running"
    BY <1>k DEF Checkpoint, StatusOK
  <2>2. run' = [run EXCEPT !.pc = "next", !.done = run.done \cup {k}]
    BY <1>k DEF Checkpoint
  <2>3. run.done \cup {k} \subseteq Steps /\ run.flags \subseteq Recorded
    BY <1>0 DEF RunModel
  <2>4. /\ run' \in RunModel
        /\ run'.by = run.by /\ run'.pc = "next"
        /\ run'.done = run.done \cup {k} /\ run'.step = run.step /\ run'.flags = run.flags
    BY <2>2, <2>3, <1>0 DEF RunModel
  <2>5. /\ saga' \in SagaStateModel
        /\ saga'.status = saga.status /\ saga'.attempts = saga.attempts /\ saga'.flags = run.flags
    BY <2>3, <1>0 DEF Checkpoint, SagaStateModel, OnboardPlantContext
  <2> QED
    BY <2>1, <2>4, <2>5, <1>k DEF Checkpoint, history, bounds, BoundsOK
<1>2. 4 \notin acted
  BY <1>k, <1>1 DEF LastStepOK, DoneOK, Restored
<1>3. Restored' = Restored \cup {k} /\ run.done = Restored
  BY <1>1 DEF Restored, DoneOK
<1>5. TypeOK'
  BY <1>0, <1>1 DEF TypeOK, SagaStateModel, OnboardPlantContext, RunModel, AttemptsOK
<1>6. BoundsOK'
  BY <1>0, <1>1 DEF BoundsOK
<1>7. StatusOK'
  BY <1>0, <1>1 DEF StatusOK, NoRun
<1>8. AttemptsOK'
  BY <1>0, <1>1 DEF AttemptsOK
<1>9. DoneOK'
  BY <1>0, <1>1, <1>3 DEF DoneOK, Onboarded
<1>10. LastStepOK'
  <2>1. CASE k = 4
    <3>1. {1, 2, 3} \subseteq Restored
      <4>1. 1 \in Steps /\ 2 \in Steps /\ 3 \in Steps /\ 1 < k /\ 2 < k /\ 3 < k
        BY <2>1
      <4> QED
        BY <4>1, <1>k, <1>3
    <3>2. acted' = Steps
      <4>1. {1, 2, 3} \subseteq acted
        BY <3>1 DEF Restored
      <4>2. acted' = acted \cup {4} /\ acted \subseteq Steps
        BY <2>1, <1>1 DEF TypeOK
      <4>3. Steps = {1, 2, 3} \cup {4}
        OBVIOUS
      <4> QED
        BY <4>1, <4>2, <4>3
    <3>3. reruns => undone' = {}
      BY <2>1, <3>1, <1>1 DEF Restored, TypeOK
    <3> QED
      BY <2>1, <3>2, <3>3, <1>1 DEF LastStepOK
  <2>2. CASE k # 4
    BY <2>2, <1>1, <1>2 DEF LastStepOK
  <2> QED
    BY <2>1, <2>2
<1>11. EffectsOK'
  <2>1. \A j \in Recorded \cap acted' : intents'[j] # "none"
    BY <1>1, <1>k DEF EffectsOK
  <2>2. 4 \in acted' => Onboarded' > 0
    BY <1>1, <1>2, <1>k DEF Onboarded
  <2> QED
    BY <1>1, <2>1, <2>2 DEF EffectsOK
<1>12. OnboardedOK'
  BY <1>0, <1>1 DEF OnboardedOK, Onboarded
<1>13. FlagsOK'
  BY <1>0, <1>1 DEF FlagsOK, StatusOK, DoneOK
<1>14. WithdrawnOK'
  BY <1>0, <1>1 DEF WithdrawnOK, Left, Standing, StatusOK, DoneOK
<1>15. BudgetOK'
  BY <1>0, <1>1 DEF BudgetOK, Least, Owed, AttemptsOK, StatusOK
<1> QED
  BY <1>5, <1>6, <1>7, <1>8, <1>9, <1>10, <1>11, <1>12, <1>13, <1>14, <1>15

\* A saga completes only when its last step is in the log.
LEMMA CompleteSagaKeeps == ASSUME IInv, CompleteSaga PROVE IInv'
<1> USE ConstantsAssumption DEF IInv, TypeInv, Steps, Recorded, Forward, Backward, PARK_MARGIN
<1>0. /\ saga \in SagaStateModel /\ saga.attempts \in Nat /\ run \in RunModel
      /\ crashes \in Int /\ resets \in Int /\ MaxAttempts * (MaxResets - resets) \in Int
      /\ Onboarded \in Nat /\ events["SagaRetrying"] \in Nat
  BY InvTypes DEF SagaStateModel
<1>1. /\ run.pc = "next" /\ saga.status = "running"
      /\ run' \in RunModel
      /\ \/ /\ run.by = "consumer" /\ run'.by = "consumer" /\ run'.pc = "announce"
            /\ run'.done = run.done /\ run'.step = run.step /\ run'.flags = run.flags
         \/ run' = NoRun
      /\ saga' \in SagaStateModel
      /\ saga'.status = "completed" /\ saga'.attempts = saga.attempts /\ saga'.flags = saga.flags
      /\ acted' = acted /\ undone' = undone
      /\ intents' = intents /\ undo' = undo
      /\ events' = events
      /\ claimed' \in BOOLEAN
      /\ reruns' = reruns /\ torn' = torn /\ everUndone' = everUndone
      /\ failures' = failures /\ crashes' = crashes /\ resets' = resets /\ replays' = replays
  <2>1. saga.status = "running" /\ UNCHANGED <<acted, undone, intents, undo, events, history, bounds>>
        /\ claimed' \in BOOLEAN /\ run.pc = "next"
    BY DEF CompleteSaga, StatusOK, Claims, BoundsOK
  <2>2. /\ saga' \in SagaStateModel
        /\ saga'.status = "completed" /\ saga'.attempts = saga.attempts /\ saga'.flags = saga.flags
    BY <1>0 DEF CompleteSaga, SagaStateModel, OnboardPlantContext, Status
  <2>3. CASE run.by = "consumer"
    BY <2>1, <2>2, <2>3, <1>0 DEF CompleteSaga, RunModel, history, bounds
  <2>4. CASE run.by # "consumer"
    BY <2>1, <2>2, <2>4, NoRunIs DEF CompleteSaga, history, bounds
  <2> QED
    BY <2>3, <2>4
<1>2. 4 \in acted /\ acted = Steps
  BY DEF CompleteSaga, DoneOK, Restored, LastStepOK
<1>3. saga'.status = "completed" /\ run'.pc \in {"announce", "idle"} /\ run'.by \in {"consumer", "nobody"}
      /\ (run'.done = run.done \/ run'.done = {}) /\ (run'.pc = "idle" => run' = NoRun)
  BY <1>0, <1>1, NoRunIs
<1>5. TypeOK'
  BY <1>0, <1>1, <1>2, <1>3, NoRunIs
     DEF TypeOK, SagaStateModel, OnboardPlantContext, RunModel, AttemptsOK
<1>6. BoundsOK'
  BY <1>0, <1>1, <1>2, <1>3, NoRunIs DEF BoundsOK
<1>7. StatusOK'
  BY <1>0, <1>1, <1>2, <1>3, NoRunIs DEF StatusOK, NoRun
<1>8. AttemptsOK'
  BY <1>0, <1>1, <1>2, <1>3, NoRunIs DEF AttemptsOK
<1>9. DoneOK'
  BY <1>0, <1>1, <1>2, <1>3, NoRunIs DEF DoneOK, Restored, Onboarded, StatusOK
<1>10. LastStepOK'
  BY <1>0, <1>1, <1>2, <1>3, NoRunIs DEF LastStepOK, StatusOK, DoneOK, Restored
<1>11. EffectsOK'
  BY <1>0, <1>1, <1>2, <1>3, NoRunIs DEF EffectsOK, Onboarded
<1>12. OnboardedOK'
  BY <1>0, <1>1, <1>2, <1>3, NoRunIs DEF OnboardedOK, Onboarded
<1>13. FlagsOK'
  BY <1>0, <1>1, <1>2, <1>3, NoRunIs DEF FlagsOK, StatusOK, DoneOK
<1>14. WithdrawnOK'
  BY <1>0, <1>1, <1>2, <1>3, NoRunIs DEF WithdrawnOK, Left, Standing, StatusOK, DoneOK
<1>15. BudgetOK'
  BY <1>0, <1>1, <1>2, <1>3, NoRunIs DEF BudgetOK, Least, Owed, AttemptsOK, StatusOK
<1> QED
  BY <1>5, <1>6, <1>7, <1>8, <1>9, <1>10, <1>11, <1>12, <1>13, <1>14, <1>15

\* The announcement of the end changes the counts of events alone.
LEMMA AnnounceCompletedKeeps == ASSUME IInv, AnnounceCompleted PROVE IInv'
<1> USE ConstantsAssumption DEF IInv, TypeInv, Steps, Recorded, Forward, Backward, PARK_MARGIN
<1>0. /\ saga \in SagaStateModel /\ saga.attempts \in Nat /\ run \in RunModel
      /\ crashes \in Int /\ resets \in Int /\ MaxAttempts * (MaxResets - resets) \in Int
      /\ Onboarded \in Nat /\ events["SagaRetrying"] \in Nat
  BY InvTypes DEF SagaStateModel
<1>1. /\ saga' = saga
      /\ acted' = acted /\ undone' = undone
      /\ intents' = intents /\ undo' = undo
      /\ claimed' \in BOOLEAN
      /\ reruns' = reruns /\ torn' = torn /\ everUndone' = everUndone
      /\ failures' = failures /\ crashes' = crashes /\ resets' = resets /\ replays' = replays
  BY <1>0, OneLess
     DEF AnnounceCompleted, BoundsOK, tables, history, bounds, Announce, Goto, Claims,
         get_sagas_for_recovery, BudgetSpent
<1>2. /\ run.pc = "announce"
      /\ run' = NoRun
      /\ run' \in RunModel
      /\ run'.by = "nobody" /\ run'.pc = "idle"
      /\ run'.done = {} /\ run'.step = 0 /\ run'.flags = {}
  BY <1>0, NoRunIs DEF AnnounceCompleted
<1>4. /\ events' \in [EventTypes -> Nat]
      /\ events'["PlantOnboarded"] = Onboarded
      /\ events'["SagaRetrying"] = events["SagaRetrying"]
  BY AnnounceIs DEF AnnounceCompleted, TypeOK, EventTypes, Onboarded, tables
<1>5. TypeOK'
  BY <1>0, <1>1, <1>2, <1>4
     DEF TypeOK, SagaStateModel, OnboardPlantContext, RunModel, AttemptsOK
<1>6. BoundsOK'
  BY <1>0, <1>1, <1>2, <1>4 DEF BoundsOK
<1>7. StatusOK'
  BY <1>0, <1>1, <1>2, <1>4 DEF StatusOK, NoRun
<1>8. AttemptsOK'
  BY <1>0, <1>1, <1>2, <1>4 DEF AttemptsOK
<1>9. DoneOK'
  BY <1>0, <1>1, <1>2, <1>4 DEF DoneOK, Restored, Onboarded, StatusOK
<1>10. LastStepOK'
  BY <1>0, <1>1, <1>2, <1>4 DEF LastStepOK, StatusOK, DoneOK, Restored
<1>11. EffectsOK'
  BY <1>0, <1>1, <1>2, <1>4 DEF EffectsOK, Onboarded
<1>12. OnboardedOK'
  BY <1>0, <1>1, <1>2, <1>4 DEF OnboardedOK, Onboarded
<1>13. FlagsOK'
  BY <1>0, <1>1, <1>2, <1>4 DEF FlagsOK, StatusOK, DoneOK
<1>14. WithdrawnOK'
  BY <1>0, <1>1, <1>2, <1>4 DEF WithdrawnOK, Left, Standing, StatusOK, DoneOK
<1>15. BudgetOK'
  BY <1>0, <1>1, <1>2, <1>4 DEF BudgetOK, Least, Owed, AttemptsOK, StatusOK
<1> QED
  BY <1>5, <1>6, <1>7, <1>8, <1>9, <1>10, <1>11, <1>12, <1>13, <1>14, <1>15

\* A run that turns back has every command that stands before it.
LEMMA BeginCompensationKeeps == ASSUME IInv, BeginCompensation PROVE IInv'
<1> USE ConstantsAssumption DEF IInv, TypeInv, Steps, Recorded, Forward, Backward, PARK_MARGIN
<1>0. /\ saga \in SagaStateModel /\ saga.attempts \in Nat /\ run \in RunModel
      /\ crashes \in Int /\ resets \in Int /\ MaxAttempts * (MaxResets - resets) \in Int
      /\ Onboarded \in Nat /\ events["SagaRetrying"] \in Nat
  BY InvTypes DEF SagaStateModel
<1>1. /\ acted' = acted /\ undone' = undone
      /\ intents' = intents /\ undo' = undo
      /\ claimed' \in BOOLEAN
      /\ reruns' = reruns /\ torn' = torn /\ everUndone' = everUndone
      /\ failures' = failures /\ crashes' = crashes /\ resets' = resets /\ replays' = replays
  BY <1>0, OneLess
     DEF BeginCompensation, BoundsOK, tables, history, bounds, Announce, Goto, Claims,
         get_sagas_for_recovery, BudgetSpent
<1>2. /\ run.pc = "roll back"
      /\ run' \in RunModel
      /\ run'.by = run.by /\ run'.pc = "undo"
      /\ run'.done = run.done /\ run'.step = run.step /\ run'.flags = run.flags
  BY <1>0 DEF BeginCompensation, RunModel, NoRun, Goto, tables, history, bounds
<1>3. /\ saga' \in SagaStateModel
      /\ saga'.status = "compensating" /\ saga'.attempts = saga.attempts /\ saga'.flags = saga.flags
  BY <1>0
     DEF BeginCompensation, SagaStateModel, OnboardPlantContext, Status,
         get_sagas_for_recovery, BudgetSpent
<1>4. /\ events' = events
  BY AnnounceIs DEF BeginCompensation, TypeOK, EventTypes, Onboarded, tables
<1>5. TypeOK'
  BY <1>0, <1>1, <1>2, <1>3, <1>4
     DEF TypeOK, SagaStateModel, OnboardPlantContext, RunModel, AttemptsOK
<1>6. BoundsOK'
  BY <1>0, <1>1, <1>2, <1>3, <1>4 DEF BoundsOK
<1>7. StatusOK'
  BY <1>0, <1>1, <1>2, <1>3, <1>4 DEF StatusOK, NoRun
<1>8. AttemptsOK'
  BY <1>0, <1>1, <1>2, <1>3, <1>4 DEF AttemptsOK
<1>9. DoneOK'
  BY <1>0, <1>1, <1>2, <1>3, <1>4 DEF DoneOK, Restored, Onboarded, StatusOK
<1>10. LastStepOK'
  BY <1>0, <1>1, <1>2, <1>3, <1>4 DEF LastStepOK, StatusOK, DoneOK, Restored
<1>11. EffectsOK'
  BY <1>0, <1>1, <1>2, <1>3, <1>4 DEF EffectsOK, Onboarded
<1>12. OnboardedOK'
  BY <1>0, <1>1, <1>2, <1>3, <1>4 DEF OnboardedOK, Onboarded
<1>13. FlagsOK'
  BY <1>0, <1>1, <1>2, <1>3, <1>4 DEF FlagsOK, StatusOK, DoneOK
<1>14. WithdrawnOK'
  <2>1. CASE torn
    BY <2>1, <1>0, <1>1, <1>2, <1>3, <1>4 DEF WithdrawnOK
  <2>2. CASE ~torn
    <3>1. Left' = Left
      BY <1>0, <1>1, <1>2, <1>3, <1>4 DEF Left, Standing
    <3>2. \A k \in Left : k \in acted /\ k \notin undone
      BY <2>2, <1>0, <1>1, <1>2, <1>3, <1>4 DEF Left, WithdrawnOK
    <3>3. Left \subseteq run.done
      BY <3>2, <1>0, <1>1, <1>2, <1>3, <1>4 DEF DoneOK, Restored
    <3> QED
      BY <2>2, <3>1, <3>3, <1>0, <1>1, <1>2, <1>3, <1>4 DEF WithdrawnOK
  <2> QED
    BY <2>1, <2>2
<1>15. BudgetOK'
  BY <1>0, <1>1, <1>2, <1>3, <1>4 DEF BudgetOK, Least, Owed, AttemptsOK, StatusOK
<1> QED
  BY <1>5, <1>6, <1>7, <1>8, <1>9, <1>10, <1>11, <1>12, <1>13, <1>14, <1>15

\* A compensation withdraws the command of the step, by its flag.
LEMMA CompensateKeeps == ASSUME IInv, Compensate PROVE IInv'
<1> USE ConstantsAssumption DEF IInv, TypeInv, Steps, Recorded, Forward, Backward, PARK_MARGIN
<1>0. /\ saga \in SagaStateModel /\ saga.attempts \in Nat /\ run \in RunModel
      /\ crashes \in Int /\ resets \in Int /\ MaxAttempts * (MaxResets - resets) \in Int
      /\ Onboarded \in Nat /\ events["SagaRetrying"] \in Nat
  BY InvTypes DEF SagaStateModel
<1>k. PICK k \in run.done : k = LastDone /\ k \in Steps
  BY LastDoneIs DEF Compensate, TypeOK
<1>1. /\ run.pc = "undo" /\ saga.status = "compensating"
      /\ run' \in RunModel
      /\ run'.by = run.by /\ run'.pc = "undone"
      /\ run'.done = run.done /\ run'.step = k /\ run'.flags = run.flags \ {k}
      /\ saga' = saga
      /\ acted' = acted /\ undone' = undone
      /\ events' = events
      /\ claimed' \in BOOLEAN
      /\ reruns' = reruns /\ torn' = torn
      /\ everUndone' \in BOOLEAN /\ (~everUndone' => ~everUndone /\ intents' = intents /\ undo' = undo)
      /\ failures' = failures /\ crashes' = crashes /\ resets' = resets /\ replays' = replays
  <2>1. run.pc = "undo" /\ saga.status = "compensating"
    BY DEF Compensate, StatusOK
  <2>2. run' = [run EXCEPT !.pc = "undone", !.step = k, !.flags = run.flags \ {k}]
    BY <1>k DEF Compensate
  <2>3. /\ run' \in RunModel
        /\ run'.by = run.by /\ run'.pc = "undone"
        /\ run'.done = run.done /\ run'.step = k /\ run'.flags = run.flags \ {k}
    <3>1. k \in 0 .. 4
      BY <1>k
    <3> QED
      BY <2>2, <3>1, <1>0 DEF RunModel
  <2>4. everUndone' \in BOOLEAN /\ (~everUndone' => ~everUndone /\ intents' = intents /\ undo' = undo)
    BY DEF Compensate, BoundsOK
  <2>5. saga' = saga /\ acted' = acted /\ undone' = undone /\ events' = events
        /\ UNCHANGED <<claimed, reruns, torn, bounds>>
    BY DEF Compensate
  <2> QED
    BY <2>1, <2>3, <2>4, <2>5 DEF bounds, BoundsOK
<1>2. /\ intents' \in [Recorded -> SagaIntent] /\ undo \subseteq undo' /\ undo' \subseteq Recorded
      /\ \A j \in Recorded : /\ intents'[j] = "none" <=> intents[j] = "none"
                             /\ j # k => intents'[j] = intents[j]
                             /\ j = k => intents'[j] = "cancelled" \/ j \in undo'
  <2>1. k \in Recorded => k \in run.flags
    BY <1>k, <1>1 DEF FlagsOK
  <2>2. run.flags \subseteq Recorded /\ intents \in [Recorded -> SagaIntent] /\ undo \subseteq Recorded
    BY DEF TypeOK
  <2>3. CASE k \notin run.flags
    <3>1. intents' = intents /\ undo' = undo
      BY <2>3, <1>k DEF Compensate
    <3> QED
      BY <2>1, <2>2, <2>3, <3>1
  <2>4. CASE k \in run.flags /\ intents[k] = "pending"
    <3>1. intents' = [intents EXCEPT ![k] = "cancelled"] /\ undo' = undo
      BY <2>4, <1>k DEF Compensate, withdraw
    <3> QED
      BY <2>2, <2>4, <3>1 DEF SagaIntent
  <2>5. CASE k \in run.flags /\ intents[k] # "pending"
    <3>1. intents' = intents /\ undo' = undo \cup {k}
      BY <2>5, <1>k DEF Compensate, withdraw
    <3> QED
      BY <2>2, <2>5, <3>1
  <2> QED
    BY <2>3, <2>4, <2>5
<1>5. TypeOK'
  BY <1>0, <1>k, <1>1, <1>2
     DEF TypeOK, SagaStateModel, OnboardPlantContext, RunModel, AttemptsOK
<1>6. BoundsOK'
  BY <1>0, <1>k, <1>1, <1>2 DEF BoundsOK
<1>7. StatusOK'
  BY <1>0, <1>k, <1>1, <1>2 DEF StatusOK, NoRun
<1>8. AttemptsOK'
  BY <1>0, <1>k, <1>1, <1>2 DEF AttemptsOK
<1>9. DoneOK'
  BY <1>0, <1>k, <1>1, <1>2 DEF DoneOK, Restored, Onboarded, StatusOK
<1>10. LastStepOK'
  BY <1>0, <1>k, <1>1, <1>2 DEF LastStepOK, StatusOK, DoneOK, Restored
<1>11. EffectsOK'
  BY <1>0, <1>k, <1>1, <1>2 DEF EffectsOK, Onboarded
<1>12. OnboardedOK'
  BY <1>0, <1>k, <1>1, <1>2 DEF OnboardedOK, Onboarded
<1>13. FlagsOK'
  BY <1>0, <1>k, <1>1, <1>2 DEF FlagsOK, StatusOK, DoneOK
<1>14. WithdrawnOK'
  <2>1. Left' \subseteq Left /\ k \notin Left'
    BY <1>2 DEF Left, Standing
  <2> QED
    BY <2>1, <1>1, <1>2 DEF WithdrawnOK
<1>15. BudgetOK'
  BY <1>0, <1>k, <1>1, <1>2 DEF BudgetOK, Least, Owed, AttemptsOK, StatusOK
<1> QED
  BY <1>5, <1>6, <1>7, <1>8, <1>9, <1>10, <1>11, <1>12, <1>13, <1>14, <1>15

\* A compensation that raises is one whose undo is recorded already.
LEMMA CompensateFailsKeeps == ASSUME IInv, CompensateFails PROVE IInv'
<1> USE ConstantsAssumption DEF IInv, TypeInv, Steps, Recorded, Forward, Backward, PARK_MARGIN
<1>0. /\ saga \in SagaStateModel /\ saga.attempts \in Nat /\ run \in RunModel
      /\ crashes \in Int /\ resets \in Int /\ MaxAttempts * (MaxResets - resets) \in Int
      /\ Onboarded \in Nat /\ events["SagaRetrying"] \in Nat
  BY InvTypes DEF SagaStateModel
<1>1. /\ saga' = saga
      /\ acted' = acted /\ undone' = undone
      /\ intents' = intents /\ undo' = undo
      /\ claimed' \in BOOLEAN
      /\ reruns' = reruns /\ torn' = torn /\ everUndone' = everUndone
      /\ failures' = failures /\ crashes' = crashes /\ resets' = resets /\ replays' = replays
  BY <1>0, OneLess
     DEF CompensateFails, BoundsOK, tables, history, bounds, Announce, Goto, Claims,
         get_sagas_for_recovery, BudgetSpent
<1>2. /\ run.pc = "undo"
      /\ run.done # {} /\ LastDone \in undo
      /\ run' \in RunModel
      /\ run'.by = run.by /\ run'.pc = run.pc
      /\ run'.done = run.done \ {LastDone} /\ run'.step = run.step /\ run'.flags = run.flags
  BY <1>0 DEF CompensateFails, RunModel, NoRun, Goto, tables, history, bounds
<1>4. /\ events' = events
  BY AnnounceIs DEF CompensateFails, TypeOK, EventTypes, Onboarded, tables
<1>5. TypeOK'
  BY <1>0, <1>1, <1>2, <1>4
     DEF TypeOK, SagaStateModel, OnboardPlantContext, RunModel, AttemptsOK
<1>6. BoundsOK'
  BY <1>0, <1>1, <1>2, <1>4 DEF BoundsOK
<1>7. StatusOK'
  BY <1>0, <1>1, <1>2, <1>4 DEF StatusOK, NoRun
<1>8. AttemptsOK'
  BY <1>0, <1>1, <1>2, <1>4 DEF AttemptsOK
<1>9. DoneOK'
  BY <1>0, <1>1, <1>2, <1>4 DEF DoneOK, Restored, Onboarded, StatusOK
<1>10. LastStepOK'
  BY <1>0, <1>1, <1>2, <1>4 DEF LastStepOK, StatusOK, DoneOK, Restored
<1>11. EffectsOK'
  BY <1>0, <1>1, <1>2, <1>4 DEF EffectsOK, Onboarded
<1>12. OnboardedOK'
  BY <1>0, <1>1, <1>2, <1>4 DEF OnboardedOK, Onboarded
<1>13. FlagsOK'
  BY <1>0, <1>1, <1>2, <1>4 DEF FlagsOK, StatusOK, DoneOK
<1>14. WithdrawnOK'
  BY <1>0, <1>1, <1>2, <1>4 DEF WithdrawnOK, Left, Standing, StatusOK, DoneOK
<1>15. BudgetOK'
  BY <1>0, <1>1, <1>2, <1>4 DEF BudgetOK, Least, Owed, AttemptsOK, StatusOK
<1> QED
  BY <1>5, <1>6, <1>7, <1>8, <1>9, <1>10, <1>11, <1>12, <1>13, <1>14, <1>15

\* The compensated step no longer stands when it is logged as undone.
LEMMA LogCompensatedKeeps == ASSUME IInv, LogCompensated PROVE IInv'
<1> USE ConstantsAssumption DEF IInv, TypeInv, Steps, Recorded, Forward, Backward, PARK_MARGIN
<1>0. /\ saga \in SagaStateModel /\ saga.attempts \in Nat /\ run \in RunModel
      /\ crashes \in Int /\ resets \in Int /\ MaxAttempts * (MaxResets - resets) \in Int
      /\ Onboarded \in Nat /\ events["SagaRetrying"] \in Nat
  BY InvTypes DEF SagaStateModel
<1>k. run.step \in run.done /\ run.step \in acted /\ run.pc = "undone" /\ saga.status = "compensating"
  BY DEF LogCompensated, DoneOK, StatusOK
<1>1. /\ run' \in RunModel
      /\ run'.by = run.by /\ run'.pc = "undo"
      /\ run'.done = run.done \ {run.step} /\ run'.step = run.step /\ run'.flags = run.flags
      /\ saga' = saga
      /\ acted' = acted /\ undone' = undone \cup {run.step}
      /\ intents' = intents /\ undo' = undo
      /\ events' = events
      /\ claimed' \in BOOLEAN
      /\ reruns' = reruns /\ torn' = torn /\ everUndone' = everUndone
      /\ failures' = failures /\ crashes' = crashes /\ resets' = resets /\ replays' = replays
  <2>1. run' = [run EXCEPT !.pc = "undo", !.done = run.done \ {run.step}]
    BY DEF LogCompensated
  <2>2. /\ run' \in RunModel
        /\ run'.by = run.by /\ run'.pc = "undo"
        /\ run'.done = run.done \ {run.step} /\ run'.step = run.step /\ run'.flags = run.flags
    BY <2>1, <1>0 DEF RunModel
  <2> QED
    BY <2>2 DEF LogCompensated, history, bounds, BoundsOK
<1>5. TypeOK'
  BY <1>0, <1>k, <1>1 DEF TypeOK, SagaStateModel, OnboardPlantContext, RunModel, AttemptsOK
<1>6. BoundsOK'
  BY <1>0, <1>k, <1>1 DEF BoundsOK
<1>7. StatusOK'
  BY <1>0, <1>k, <1>1 DEF StatusOK, NoRun
<1>8. AttemptsOK'
  BY <1>0, <1>k, <1>1 DEF AttemptsOK
<1>9. DoneOK'
  BY <1>0, <1>k, <1>1 DEF DoneOK, Restored, Onboarded, StatusOK
<1>10. LastStepOK'
  BY <1>0, <1>k, <1>1 DEF LastStepOK, StatusOK, DoneOK, Restored
<1>11. EffectsOK'
  BY <1>0, <1>k, <1>1 DEF EffectsOK, Onboarded
<1>12. OnboardedOK'
  BY <1>0, <1>k, <1>1 DEF OnboardedOK, Onboarded
<1>13. FlagsOK'
  BY <1>0, <1>k, <1>1 DEF FlagsOK, StatusOK, DoneOK
<1>14. WithdrawnOK'
  BY <1>0, <1>k, <1>1 DEF WithdrawnOK, Left, Standing, StatusOK, DoneOK
<1>15. BudgetOK'
  BY <1>0, <1>k, <1>1 DEF BudgetOK, Least, Owed, AttemptsOK, StatusOK
<1> QED
  BY <1>5, <1>6, <1>7, <1>8, <1>9, <1>10, <1>11, <1>12, <1>13, <1>14, <1>15

\* At the end of a compensation nothing stands.
LEMMA EndCompensationKeeps == ASSUME IInv, EndCompensation PROVE IInv'
<1> USE ConstantsAssumption DEF IInv, TypeInv, Steps, Recorded, Forward, Backward, PARK_MARGIN
<1>0. /\ saga \in SagaStateModel /\ saga.attempts \in Nat /\ run \in RunModel
      /\ crashes \in Int /\ resets \in Int /\ MaxAttempts * (MaxResets - resets) \in Int
      /\ Onboarded \in Nat /\ events["SagaRetrying"] \in Nat
  BY InvTypes DEF SagaStateModel
<1>1. /\ acted' = acted /\ undone' = undone
      /\ intents' = intents /\ undo' = undo
      /\ claimed' \in BOOLEAN
      /\ reruns' = reruns /\ torn' = torn /\ everUndone' = everUndone
      /\ failures' = failures /\ crashes' = crashes /\ resets' = resets /\ replays' = replays
  BY <1>0, OneLess
     DEF EndCompensation, BoundsOK, tables, history, bounds, Announce, Goto, Claims,
         get_sagas_for_recovery, BudgetSpent
<1>2. /\ run.pc = "undo" /\ run.done = {}
      /\ run' \in RunModel
      /\ run'.by = run.by /\ run'.pc = "refused"
      /\ run'.done = run.done /\ run'.step = run.step /\ run'.flags = run.flags
  BY <1>0 DEF EndCompensation, RunModel, NoRun, Goto, tables, history, bounds
<1>3. /\ saga' \in SagaStateModel
      /\ saga'.status = "failed" /\ saga'.attempts = saga.attempts /\ saga'.flags = saga.flags
  BY <1>0
     DEF EndCompensation, SagaStateModel, OnboardPlantContext, Status,
         get_sagas_for_recovery, BudgetSpent
<1>4. /\ events' = events
  BY AnnounceIs DEF EndCompensation, TypeOK, EventTypes, Onboarded, tables
<1>5. TypeOK'
  BY <1>0, <1>1, <1>2, <1>3, <1>4
     DEF TypeOK, SagaStateModel, OnboardPlantContext, RunModel, AttemptsOK
<1>6. BoundsOK'
  BY <1>0, <1>1, <1>2, <1>3, <1>4 DEF BoundsOK
<1>7. StatusOK'
  BY <1>0, <1>1, <1>2, <1>3, <1>4 DEF StatusOK, NoRun
<1>8. AttemptsOK'
  BY <1>0, <1>1, <1>2, <1>3, <1>4 DEF AttemptsOK
<1>9. DoneOK'
  BY <1>0, <1>1, <1>2, <1>3, <1>4 DEF DoneOK, Restored, Onboarded, StatusOK
<1>10. LastStepOK'
  BY <1>0, <1>1, <1>2, <1>3, <1>4 DEF LastStepOK, StatusOK, DoneOK, Restored
<1>11. EffectsOK'
  BY <1>0, <1>1, <1>2, <1>3, <1>4 DEF EffectsOK, Onboarded
<1>12. OnboardedOK'
  BY <1>0, <1>1, <1>2, <1>3, <1>4 DEF OnboardedOK, Onboarded
<1>13. FlagsOK'
  BY <1>0, <1>1, <1>2, <1>3, <1>4 DEF FlagsOK, StatusOK, DoneOK
<1>14. WithdrawnOK'
  BY <1>0, <1>1, <1>2, <1>3, <1>4 DEF WithdrawnOK, Left, Standing, StatusOK, DoneOK
<1>15. BudgetOK'
  BY <1>0, <1>1, <1>2, <1>3, <1>4 DEF BudgetOK, Least, Owed, AttemptsOK, StatusOK
<1> QED
  BY <1>5, <1>6, <1>7, <1>8, <1>9, <1>10, <1>11, <1>12, <1>13, <1>14, <1>15

\* The failure is announced by the consumer, and nothing else changes.
LEMMA RecordFailureKeeps == ASSUME IInv, RecordFailure PROVE IInv'
<1> USE ConstantsAssumption DEF IInv, TypeInv, Steps, Recorded, Forward, Backward, PARK_MARGIN
<1>0. /\ saga \in SagaStateModel /\ saga.attempts \in Nat /\ run \in RunModel
      /\ crashes \in Int /\ resets \in Int /\ MaxAttempts * (MaxResets - resets) \in Int
      /\ Onboarded \in Nat /\ events["SagaRetrying"] \in Nat
  BY InvTypes DEF SagaStateModel
<1>1. /\ saga' = saga
      /\ acted' = acted /\ undone' = undone
      /\ intents' = intents /\ undo' = undo
      /\ claimed' \in BOOLEAN
      /\ reruns' = reruns /\ torn' = torn /\ everUndone' = everUndone
      /\ failures' = failures /\ crashes' = crashes /\ resets' = resets /\ replays' = replays
  BY <1>0, OneLess
     DEF RecordFailure, BoundsOK, tables, history, bounds, Announce, Goto, Claims,
         get_sagas_for_recovery, BudgetSpent
<1>2. /\ run.pc = "refused" /\ run.by = "consumer"
      /\ run' = NoRun
      /\ run' \in RunModel
      /\ run'.by = "nobody" /\ run'.pc = "idle"
      /\ run'.done = {} /\ run'.step = 0 /\ run'.flags = {}
  BY <1>0, NoRunIs DEF RecordFailure
<1>4. /\ events' \in [EventTypes -> Nat]
      /\ events'["PlantOnboarded"] = Onboarded
      /\ events'["SagaRetrying"] = events["SagaRetrying"]
  BY AnnounceIs DEF RecordFailure, TypeOK, EventTypes, Onboarded, tables
<1>5. TypeOK'
  BY <1>0, <1>1, <1>2, <1>4
     DEF TypeOK, SagaStateModel, OnboardPlantContext, RunModel, AttemptsOK
<1>6. BoundsOK'
  BY <1>0, <1>1, <1>2, <1>4 DEF BoundsOK
<1>7. StatusOK'
  BY <1>0, <1>1, <1>2, <1>4 DEF StatusOK, NoRun
<1>8. AttemptsOK'
  BY <1>0, <1>1, <1>2, <1>4 DEF AttemptsOK
<1>9. DoneOK'
  BY <1>0, <1>1, <1>2, <1>4 DEF DoneOK, Restored, Onboarded, StatusOK
<1>10. LastStepOK'
  BY <1>0, <1>1, <1>2, <1>4 DEF LastStepOK, StatusOK, DoneOK, Restored
<1>11. EffectsOK'
  BY <1>0, <1>1, <1>2, <1>4 DEF EffectsOK, Onboarded
<1>12. OnboardedOK'
  BY <1>0, <1>1, <1>2, <1>4 DEF OnboardedOK, Onboarded
<1>13. FlagsOK'
  BY <1>0, <1>1, <1>2, <1>4 DEF FlagsOK, StatusOK, DoneOK
<1>14. WithdrawnOK'
  BY <1>0, <1>1, <1>2, <1>4 DEF WithdrawnOK, Left, Standing, StatusOK, DoneOK
<1>15. BudgetOK'
  BY <1>0, <1>1, <1>2, <1>4 DEF BudgetOK, Least, Owed, AttemptsOK, StatusOK
<1> QED
  BY <1>5, <1>6, <1>7, <1>8, <1>9, <1>10, <1>11, <1>12, <1>13, <1>14, <1>15

\* The job resumes a saga within its budget.
LEMMA ResumeKeeps == ASSUME IInv, Resume PROVE IInv'
<1> USE ConstantsAssumption DEF IInv, TypeInv, Steps, Recorded, Forward, Backward, PARK_MARGIN
<1>0. /\ saga \in SagaStateModel /\ saga.attempts \in Nat /\ run \in RunModel
      /\ crashes \in Int /\ resets \in Int /\ MaxAttempts * (MaxResets - resets) \in Int
      /\ Onboarded \in Nat /\ events["SagaRetrying"] \in Nat
  BY InvTypes DEF SagaStateModel
<1>1. /\ saga.status \in {"running", "compensating"}
      /\ saga.attempts < MaxAttempts + PARK_MARGIN
      /\ saga' = saga
      /\ acted' = acted /\ undone' = undone
      /\ intents' = intents /\ undo' = undo
      /\ claimed' \in BOOLEAN
      /\ reruns' = reruns /\ torn' = torn /\ everUndone' = everUndone
      /\ failures' = failures /\ crashes' = crashes /\ resets' = resets /\ replays' = replays
  BY <1>0, OneLess
     DEF Resume, BoundsOK, tables, history, bounds, Announce, Goto, Claims,
         get_sagas_for_recovery, BudgetSpent
<1>2. /\ run = NoRun
      /\ run.by = "nobody" /\ run.pc = "idle"
      /\ run' \in RunModel
      /\ run'.by = "job" /\ run'.pc = "load"
      /\ run'.done = {} /\ run'.step = 0 /\ run'.flags = {}
  BY <1>0 DEF Resume, RunModel, NoRun, Goto, tables, history, bounds
<1>4. /\ events' = events
  BY AnnounceIs DEF Resume, TypeOK, EventTypes, Onboarded, tables
<1>5. TypeOK'
  BY <1>0, <1>1, <1>2, <1>4
     DEF TypeOK, SagaStateModel, OnboardPlantContext, RunModel, AttemptsOK
<1>6. BoundsOK'
  BY <1>0, <1>1, <1>2, <1>4 DEF BoundsOK
<1>7. StatusOK'
  BY <1>0, <1>1, <1>2, <1>4 DEF StatusOK, NoRun
<1>8. AttemptsOK'
  BY <1>0, <1>1, <1>2, <1>4 DEF AttemptsOK
<1>9. DoneOK'
  BY <1>0, <1>1, <1>2, <1>4 DEF DoneOK, Restored, Onboarded, StatusOK
<1>10. LastStepOK'
  BY <1>0, <1>1, <1>2, <1>4 DEF LastStepOK, StatusOK, DoneOK, Restored
<1>11. EffectsOK'
  BY <1>0, <1>1, <1>2, <1>4 DEF EffectsOK, Onboarded
<1>12. OnboardedOK'
  BY <1>0, <1>1, <1>2, <1>4 DEF OnboardedOK, Onboarded
<1>13. FlagsOK'
  BY <1>0, <1>1, <1>2, <1>4 DEF FlagsOK, StatusOK, DoneOK
<1>14. WithdrawnOK'
  BY <1>0, <1>1, <1>2, <1>4 DEF WithdrawnOK, Left, Standing, StatusOK, DoneOK
<1>15. BudgetOK'
  BY <1>0, <1>1, <1>2, <1>4 DEF BudgetOK, Least, Owed, AttemptsOK, StatusOK
<1> QED
  BY <1>5, <1>6, <1>7, <1>8, <1>9, <1>10, <1>11, <1>12, <1>13, <1>14, <1>15

\* A retry is announced while an attempt is left, which it now owes.
LEMMA AnnounceRetryKeeps == ASSUME IInv, AnnounceRetry PROVE IInv'
<1> USE ConstantsAssumption DEF IInv, TypeInv, Steps, Recorded, Forward, Backward, PARK_MARGIN
<1>0. /\ saga \in SagaStateModel /\ saga.attempts \in Nat /\ run \in RunModel
      /\ crashes \in Int /\ resets \in Int /\ MaxAttempts * (MaxResets - resets) \in Int
      /\ Onboarded \in Nat /\ events["SagaRetrying"] \in Nat
  BY InvTypes DEF SagaStateModel
<1>1. /\ saga.status = "failed" /\ saga.attempts < MaxAttempts
      /\ saga' = saga
      /\ acted' = acted /\ undone' = undone
      /\ intents' = intents /\ undo' = undo
      /\ claimed' \in BOOLEAN
      /\ reruns' = reruns /\ torn' = torn /\ everUndone' = everUndone
      /\ failures' = failures /\ crashes' = crashes /\ resets' = resets /\ replays' = replays
  BY <1>0, OneLess
     DEF AnnounceRetry, BoundsOK, tables, history, bounds, Announce, Goto, Claims,
         get_sagas_for_recovery, BudgetSpent
<1>2. /\ run = NoRun
      /\ run.by = "nobody" /\ run.pc = "idle"
      /\ run' \in RunModel
      /\ run'.by = "job" /\ run'.pc = "retry"
      /\ run'.done = {} /\ run'.step = 0 /\ run'.flags = {}
  BY <1>0 DEF AnnounceRetry, RunModel, NoRun, Goto, tables, history, bounds
<1>4. /\ events' \in [EventTypes -> Nat]
      /\ events'["PlantOnboarded"] = Onboarded
      /\ events'["SagaRetrying"] = events["SagaRetrying"] + 1
  BY AnnounceIs DEF AnnounceRetry, TypeOK, EventTypes, Onboarded, tables
<1>5. TypeOK'
  BY <1>0, <1>1, <1>2, <1>4
     DEF TypeOK, SagaStateModel, OnboardPlantContext, RunModel, AttemptsOK
<1>6. BoundsOK'
  BY <1>0, <1>1, <1>2, <1>4 DEF BoundsOK
<1>7. StatusOK'
  BY <1>0, <1>1, <1>2, <1>4 DEF StatusOK, NoRun
<1>8. AttemptsOK'
  BY <1>0, <1>1, <1>2, <1>4 DEF AttemptsOK
<1>9. DoneOK'
  BY <1>0, <1>1, <1>2, <1>4 DEF DoneOK, Restored, Onboarded, StatusOK
<1>10. LastStepOK'
  BY <1>0, <1>1, <1>2, <1>4 DEF LastStepOK, StatusOK, DoneOK, Restored
<1>11. EffectsOK'
  BY <1>0, <1>1, <1>2, <1>4 DEF EffectsOK, Onboarded
<1>12. OnboardedOK'
  BY <1>0, <1>1, <1>2, <1>4 DEF OnboardedOK, Onboarded
<1>13. FlagsOK'
  BY <1>0, <1>1, <1>2, <1>4 DEF FlagsOK, StatusOK, DoneOK
<1>14. WithdrawnOK'
  BY <1>0, <1>1, <1>2, <1>4 DEF WithdrawnOK, Left, Standing, StatusOK, DoneOK
<1>15. BudgetOK'
  BY <1>0, <1>1, <1>2, <1>4 DEF BudgetOK, Least, Owed, AttemptsOK, StatusOK
<1> QED
  BY <1>5, <1>6, <1>7, <1>8, <1>9, <1>10, <1>11, <1>12, <1>13, <1>14, <1>15

\* Clearing the status of a retried saga touches no step.
LEMMA ClearStatusKeeps == ASSUME IInv, ClearStatus PROVE IInv'
<1> USE ConstantsAssumption DEF IInv, TypeInv, Steps, Recorded, Forward, Backward, PARK_MARGIN
<1>0. /\ saga \in SagaStateModel /\ saga.attempts \in Nat /\ run \in RunModel
      /\ crashes \in Int /\ resets \in Int /\ MaxAttempts * (MaxResets - resets) \in Int
      /\ Onboarded \in Nat /\ events["SagaRetrying"] \in Nat
  BY InvTypes DEF SagaStateModel
<1>1. /\ acted' = acted /\ undone' = undone
      /\ intents' = intents /\ undo' = undo
      /\ claimed' \in BOOLEAN
      /\ reruns' = reruns /\ torn' = torn /\ everUndone' = everUndone
      /\ failures' = failures /\ crashes' = crashes /\ resets' = resets /\ replays' = replays
  BY <1>0, OneLess
     DEF ClearStatus, BoundsOK, tables, history, bounds, Announce, Goto, Claims,
         get_sagas_for_recovery, BudgetSpent
<1>2. /\ run.pc = "retry"
      /\ run' \in RunModel
      /\ run'.by = run.by /\ run'.pc = "load"
      /\ run'.done = run.done /\ run'.step = run.step /\ run'.flags = run.flags
  BY <1>0 DEF ClearStatus, RunModel, NoRun, Goto, tables, history, bounds
<1>3. /\ saga' \in SagaStateModel
      /\ saga'.status = "running" /\ saga'.attempts = saga.attempts /\ saga'.flags = saga.flags
  BY <1>0
     DEF ClearStatus, SagaStateModel, OnboardPlantContext, Status,
         get_sagas_for_recovery, BudgetSpent
<1>4. /\ events' = events
  BY AnnounceIs DEF ClearStatus, TypeOK, EventTypes, Onboarded, tables
<1>5. TypeOK'
  BY <1>0, <1>1, <1>2, <1>3, <1>4
     DEF TypeOK, SagaStateModel, OnboardPlantContext, RunModel, AttemptsOK
<1>6. BoundsOK'
  BY <1>0, <1>1, <1>2, <1>3, <1>4 DEF BoundsOK
<1>7. StatusOK'
  BY <1>0, <1>1, <1>2, <1>3, <1>4 DEF StatusOK, NoRun
<1>8. AttemptsOK'
  BY <1>0, <1>1, <1>2, <1>3, <1>4 DEF AttemptsOK
<1>9. DoneOK'
  BY <1>0, <1>1, <1>2, <1>3, <1>4 DEF DoneOK, Restored, Onboarded, StatusOK
<1>10. LastStepOK'
  BY <1>0, <1>1, <1>2, <1>3, <1>4 DEF LastStepOK, StatusOK, DoneOK, Restored
<1>11. EffectsOK'
  BY <1>0, <1>1, <1>2, <1>3, <1>4 DEF EffectsOK, Onboarded
<1>12. OnboardedOK'
  BY <1>0, <1>1, <1>2, <1>3, <1>4 DEF OnboardedOK, Onboarded
<1>13. FlagsOK'
  BY <1>0, <1>1, <1>2, <1>3, <1>4 DEF FlagsOK, StatusOK, DoneOK
<1>14. WithdrawnOK'
  BY <1>0, <1>1, <1>2, <1>3, <1>4 DEF WithdrawnOK, Left, Standing, StatusOK, DoneOK
<1>15. BudgetOK'
  BY <1>0, <1>1, <1>2, <1>3, <1>4 DEF BudgetOK, Least, Owed, AttemptsOK, StatusOK
<1> QED
  BY <1>5, <1>6, <1>7, <1>8, <1>9, <1>10, <1>11, <1>12, <1>13, <1>14, <1>15

\* Parking takes the counter over the budget, once.
LEMMA ParkCounterKeeps == ASSUME IInv, ParkCounter PROVE IInv'
<1> USE ConstantsAssumption DEF IInv, TypeInv, Steps, Recorded, Forward, Backward, PARK_MARGIN
<1>a. saga.attempts = MaxAttempts /\ saga.attempts + 1 \in Nat
  BY InvTypes DEF ParkCounter, get_sagas_for_recovery, BudgetSpent
<1>0. /\ saga \in SagaStateModel /\ saga.attempts \in Nat /\ run \in RunModel
      /\ crashes \in Int /\ resets \in Int /\ MaxAttempts * (MaxResets - resets) \in Int
      /\ Onboarded \in Nat /\ events["SagaRetrying"] \in Nat
  BY InvTypes DEF SagaStateModel
<1>1. /\ saga.status = "failed" /\ saga.attempts = MaxAttempts
      /\ acted' = acted /\ undone' = undone
      /\ intents' = intents /\ undo' = undo
      /\ claimed' \in BOOLEAN
      /\ reruns' = reruns /\ torn' = torn /\ everUndone' = everUndone
      /\ failures' = failures /\ crashes' = crashes /\ resets' = resets /\ replays' = replays
  BY <1>0, OneLess, <1>a
     DEF ParkCounter, BoundsOK, tables, history, bounds, Announce, Goto, Claims,
         get_sagas_for_recovery, BudgetSpent
<1>2. /\ run = NoRun
      /\ run.by = "nobody" /\ run.pc = "idle"
      /\ run' \in RunModel
      /\ run'.by = "job" /\ run'.pc = "park"
      /\ run'.done = {} /\ run'.step = 0 /\ run'.flags = {}
  BY <1>0 DEF ParkCounter, RunModel, NoRun, Goto, tables, history, bounds
<1>3. /\ saga' \in SagaStateModel
      /\ saga'.status = saga.status /\ saga'.attempts = saga.attempts + 1 /\ saga'.flags = saga.flags
  BY <1>0, <1>a
     DEF ParkCounter, SagaStateModel, OnboardPlantContext, Status,
         get_sagas_for_recovery, BudgetSpent
<1>4. /\ events' = events
  BY AnnounceIs DEF ParkCounter, TypeOK, EventTypes, Onboarded, tables
<1>5. TypeOK'
  <2>1. saga'.attempts <= MaxAttempts + 1
    BY <1>0, <1>1, <1>2, <1>3, <1>4 DEF AttemptsOK, TypeOK
  <2> QED
    BY <2>1, <1>0, <1>1, <1>2, <1>3, <1>4, NoRunIs DEF TypeOK, RunModel
<1>6. BoundsOK'
  BY <1>0, <1>1, <1>2, <1>3, <1>4 DEF BoundsOK
<1>7. StatusOK'
  BY <1>0, <1>1, <1>2, <1>3, <1>4 DEF StatusOK, NoRun
<1>8. AttemptsOK'
  BY <1>0, <1>1, <1>2, <1>3, <1>4 DEF AttemptsOK
<1>9. DoneOK'
  BY <1>0, <1>1, <1>2, <1>3, <1>4 DEF DoneOK, Restored, Onboarded, StatusOK
<1>10. LastStepOK'
  BY <1>0, <1>1, <1>2, <1>3, <1>4 DEF LastStepOK, StatusOK, DoneOK, Restored
<1>11. EffectsOK'
  BY <1>0, <1>1, <1>2, <1>3, <1>4 DEF EffectsOK, Onboarded
<1>12. OnboardedOK'
  BY <1>0, <1>1, <1>2, <1>3, <1>4 DEF OnboardedOK, Onboarded
<1>13. FlagsOK'
  BY <1>0, <1>1, <1>2, <1>3, <1>4 DEF FlagsOK, StatusOK, DoneOK
<1>14. WithdrawnOK'
  BY <1>0, <1>1, <1>2, <1>3, <1>4 DEF WithdrawnOK, Left, Standing, StatusOK, DoneOK
<1>15. BudgetOK'
  BY <1>0, <1>1, <1>2, <1>3, <1>4 DEF BudgetOK, Least, Owed, AttemptsOK, StatusOK
<1> QED
  BY <1>5, <1>6, <1>7, <1>8, <1>9, <1>10, <1>11, <1>12, <1>13, <1>14, <1>15

\* The announcement of a parked saga is not a retry.
LEMMA ParkAnnounceKeeps == ASSUME IInv, ParkAnnounce PROVE IInv'
<1> USE ConstantsAssumption DEF IInv, TypeInv, Steps, Recorded, Forward, Backward, PARK_MARGIN
<1>0. /\ saga \in SagaStateModel /\ saga.attempts \in Nat /\ run \in RunModel
      /\ crashes \in Int /\ resets \in Int /\ MaxAttempts * (MaxResets - resets) \in Int
      /\ Onboarded \in Nat /\ events["SagaRetrying"] \in Nat
  BY InvTypes DEF SagaStateModel
<1>1. /\ saga' = saga
      /\ acted' = acted /\ undone' = undone
      /\ intents' = intents /\ undo' = undo
      /\ claimed' \in BOOLEAN
      /\ reruns' = reruns /\ torn' = torn /\ everUndone' = everUndone
      /\ failures' = failures /\ crashes' = crashes /\ resets' = resets /\ replays' = replays
  BY <1>0, OneLess
     DEF ParkAnnounce, BoundsOK, tables, history, bounds, Announce, Goto, Claims,
         get_sagas_for_recovery, BudgetSpent
<1>2. /\ run.pc = "park"
      /\ run' = NoRun
      /\ run' \in RunModel
      /\ run'.by = "nobody" /\ run'.pc = "idle"
      /\ run'.done = {} /\ run'.step = 0 /\ run'.flags = {}
  BY <1>0, NoRunIs DEF ParkAnnounce
<1>4. /\ events' \in [EventTypes -> Nat]
      /\ events'["PlantOnboarded"] = Onboarded
      /\ events'["SagaRetrying"] = events["SagaRetrying"]
  BY AnnounceIs DEF ParkAnnounce, TypeOK, EventTypes, Onboarded, tables
<1>5. TypeOK'
  BY <1>0, <1>1, <1>2, <1>4
     DEF TypeOK, SagaStateModel, OnboardPlantContext, RunModel, AttemptsOK
<1>6. BoundsOK'
  BY <1>0, <1>1, <1>2, <1>4 DEF BoundsOK
<1>7. StatusOK'
  BY <1>0, <1>1, <1>2, <1>4 DEF StatusOK, NoRun
<1>8. AttemptsOK'
  BY <1>0, <1>1, <1>2, <1>4 DEF AttemptsOK
<1>9. DoneOK'
  BY <1>0, <1>1, <1>2, <1>4 DEF DoneOK, Restored, Onboarded, StatusOK
<1>10. LastStepOK'
  BY <1>0, <1>1, <1>2, <1>4 DEF LastStepOK, StatusOK, DoneOK, Restored
<1>11. EffectsOK'
  BY <1>0, <1>1, <1>2, <1>4 DEF EffectsOK, Onboarded
<1>12. OnboardedOK'
  BY <1>0, <1>1, <1>2, <1>4 DEF OnboardedOK, Onboarded
<1>13. FlagsOK'
  BY <1>0, <1>1, <1>2, <1>4 DEF FlagsOK, StatusOK, DoneOK
<1>14. WithdrawnOK'
  BY <1>0, <1>1, <1>2, <1>4 DEF WithdrawnOK, Left, Standing, StatusOK, DoneOK
<1>15. BudgetOK'
  BY <1>0, <1>1, <1>2, <1>4 DEF BudgetOK, Least, Owed, AttemptsOK, StatusOK
<1> QED
  BY <1>5, <1>6, <1>7, <1>8, <1>9, <1>10, <1>11, <1>12, <1>13, <1>14, <1>15

\* A failed recovery is counted: the attempt the retry owed is paid.
LEMMA increment_recovery_attemptsKeeps == ASSUME IInv, increment_recovery_attempts PROVE IInv'
<1> USE ConstantsAssumption DEF IInv, TypeInv, Steps, Recorded, Forward, Backward, PARK_MARGIN
<1>a. saga.attempts + 1 \in Nat
  BY InvTypes
<1>0. /\ saga \in SagaStateModel /\ saga.attempts \in Nat /\ run \in RunModel
      /\ crashes \in Int /\ resets \in Int /\ MaxAttempts * (MaxResets - resets) \in Int
      /\ Onboarded \in Nat /\ events["SagaRetrying"] \in Nat
  BY InvTypes DEF SagaStateModel
<1>1. /\ acted' = acted /\ undone' = undone
      /\ intents' = intents /\ undo' = undo
      /\ claimed' \in BOOLEAN
      /\ reruns' = reruns /\ torn' = torn /\ everUndone' = everUndone
      /\ failures' = failures /\ crashes' = crashes /\ resets' = resets /\ replays' = replays
  BY <1>0, OneLess, <1>a
     DEF increment_recovery_attempts, BoundsOK, tables, history, bounds, Announce, Goto,
         Claims, get_sagas_for_recovery, BudgetSpent
<1>2. /\ run.pc = "refused" /\ run.by = "job"
      /\ run' = NoRun
      /\ run' \in RunModel
      /\ run'.by = "nobody" /\ run'.pc = "idle"
      /\ run'.done = {} /\ run'.step = 0 /\ run'.flags = {}
  BY <1>0, NoRunIs DEF increment_recovery_attempts
<1>3. /\ saga' \in SagaStateModel
      /\ saga'.status = "failed" /\ saga'.attempts = saga.attempts + 1 /\ saga'.flags = saga.flags
  BY <1>0, <1>a
     DEF increment_recovery_attempts, SagaStateModel, OnboardPlantContext, Status,
         get_sagas_for_recovery, BudgetSpent
<1>4. /\ events' = events
  BY AnnounceIs DEF increment_recovery_attempts, TypeOK, EventTypes, Onboarded, tables
<1>5. TypeOK'
  <2>1. saga'.attempts <= MaxAttempts + 1
    BY <1>0, <1>1, <1>2, <1>3, <1>4 DEF AttemptsOK, TypeOK
  <2> QED
    BY <2>1, <1>0, <1>1, <1>2, <1>3, <1>4, NoRunIs DEF TypeOK, RunModel
<1>6. BoundsOK'
  BY <1>0, <1>1, <1>2, <1>3, <1>4 DEF BoundsOK
<1>7. StatusOK'
  BY <1>0, <1>1, <1>2, <1>3, <1>4 DEF StatusOK, NoRun
<1>8. AttemptsOK'
  BY <1>0, <1>1, <1>2, <1>3, <1>4 DEF AttemptsOK
<1>9. DoneOK'
  BY <1>0, <1>1, <1>2, <1>3, <1>4 DEF DoneOK, Restored, Onboarded, StatusOK
<1>10. LastStepOK'
  BY <1>0, <1>1, <1>2, <1>3, <1>4 DEF LastStepOK, StatusOK, DoneOK, Restored
<1>11. EffectsOK'
  BY <1>0, <1>1, <1>2, <1>3, <1>4 DEF EffectsOK, Onboarded
<1>12. OnboardedOK'
  BY <1>0, <1>1, <1>2, <1>3, <1>4 DEF OnboardedOK, Onboarded
<1>13. FlagsOK'
  BY <1>0, <1>1, <1>2, <1>3, <1>4 DEF FlagsOK, StatusOK, DoneOK
<1>14. WithdrawnOK'
  BY <1>0, <1>1, <1>2, <1>3, <1>4 DEF WithdrawnOK, Left, Standing, StatusOK, DoneOK
<1>15. BudgetOK'
  BY <1>0, <1>1, <1>2, <1>3, <1>4 DEF BudgetOK, Least, Owed, AttemptsOK, StatusOK
<1> QED
  BY <1>5, <1>6, <1>7, <1>8, <1>9, <1>10, <1>11, <1>12, <1>13, <1>14, <1>15

\* A reset gives the whole budget again.
LEMMA reset_for_retryKeeps == ASSUME IInv, reset_for_retry PROVE IInv'
<1> USE ConstantsAssumption DEF IInv, TypeInv, Steps, Recorded, Forward, Backward, PARK_MARGIN
<1>0. /\ saga \in SagaStateModel /\ saga.attempts \in Nat /\ run \in RunModel
      /\ crashes \in Int /\ resets \in Int /\ MaxAttempts * (MaxResets - resets) \in Int
      /\ Onboarded \in Nat /\ events["SagaRetrying"] \in Nat
  BY InvTypes DEF SagaStateModel
<1>1. /\ saga.status = "failed" /\ saga.attempts > MaxAttempts
      /\ acted' = acted /\ undone' = undone
      /\ intents' = intents /\ undo' = undo
      /\ claimed' \in BOOLEAN
      /\ reruns' = reruns /\ torn' = torn /\ everUndone' = everUndone
      /\ failures' = failures /\ crashes' = crashes /\ replays' = replays
      /\ resets > 0 /\ resets' = resets - 1
      /\ resets' \in 0 .. MaxResets
  BY <1>0, OneLess
     DEF reset_for_retry, BoundsOK, tables, history, bounds, Announce, Goto, Claims,
         get_sagas_for_recovery, BudgetSpent
<1>2. /\ run = NoRun
      /\ run.by = "nobody" /\ run.pc = "idle"
      /\ run' = run
  BY <1>0 DEF reset_for_retry, RunModel, NoRun, Goto, tables, history, bounds
<1>3. /\ saga' \in SagaStateModel
      /\ saga'.status = "running" /\ saga'.attempts = 0 /\ saga'.flags = saga.flags
  BY <1>0
     DEF reset_for_retry, SagaStateModel, OnboardPlantContext, Status,
         get_sagas_for_recovery, BudgetSpent
<1>4. /\ events' = events
  BY AnnounceIs DEF reset_for_retry, TypeOK, EventTypes, Onboarded, tables
<1>5. TypeOK'
  <2>1. saga'.attempts <= MaxAttempts + 1
    BY <1>0, <1>1, <1>2, <1>3, <1>4 DEF AttemptsOK, TypeOK
  <2> QED
    BY <2>1, <1>0, <1>1, <1>2, <1>3, <1>4, NoRunIs DEF TypeOK, RunModel
<1>6. BoundsOK'
  BY <1>0, <1>1, <1>2, <1>3, <1>4 DEF BoundsOK
<1>7. StatusOK'
  BY <1>0, <1>1, <1>2, <1>3, <1>4 DEF StatusOK, NoRun
<1>8. AttemptsOK'
  BY <1>0, <1>1, <1>2, <1>3, <1>4 DEF AttemptsOK
<1>9. DoneOK'
  BY <1>0, <1>1, <1>2, <1>3, <1>4 DEF DoneOK, Restored, Onboarded, StatusOK
<1>10. LastStepOK'
  BY <1>0, <1>1, <1>2, <1>3, <1>4 DEF LastStepOK, StatusOK, DoneOK, Restored
<1>11. EffectsOK'
  BY <1>0, <1>1, <1>2, <1>3, <1>4 DEF EffectsOK, Onboarded
<1>12. OnboardedOK'
  BY <1>0, <1>1, <1>2, <1>3, <1>4 DEF OnboardedOK, Onboarded
<1>13. FlagsOK'
  BY <1>0, <1>1, <1>2, <1>3, <1>4 DEF FlagsOK, StatusOK, DoneOK
<1>14. WithdrawnOK'
  BY <1>0, <1>1, <1>2, <1>3, <1>4 DEF WithdrawnOK, Left, Standing, StatusOK, DoneOK
<1>15. BudgetOK'
  BY <1>0, <1>1, <1>2, <1>3, <1>4 DEF BudgetOK, Least, Owed, AttemptsOK, StatusOK
<1> QED
  BY <1>5, <1>6, <1>7, <1>8, <1>9, <1>10, <1>11, <1>12, <1>13, <1>14, <1>15

\* A crash ends the run and pays for the retry that was under way.
LEMMA CrashKeeps == ASSUME IInv, Crash PROVE IInv'
<1> USE ConstantsAssumption DEF IInv, TypeInv, Steps, Recorded, Forward, Backward, PARK_MARGIN
<1>0. /\ saga \in SagaStateModel /\ saga.attempts \in Nat /\ run \in RunModel
      /\ crashes \in Int /\ resets \in Int /\ MaxAttempts * (MaxResets - resets) \in Int
      /\ Onboarded \in Nat /\ events["SagaRetrying"] \in Nat
  BY InvTypes DEF SagaStateModel
<1>1. /\ crashes > 0 /\ crashes' = crashes - 1
      /\ crashes' \in 0 .. MaxCrashes
      /\ torn' \in BOOLEAN
      /\ ~torn' => ~torn /\ run.pc \notin {"acted", "undone"}
      /\ saga' = saga
      /\ acted' = acted /\ undone' = undone
      /\ intents' = intents /\ undo' = undo
      /\ claimed' \in BOOLEAN
      /\ reruns' = reruns /\ everUndone' = everUndone
      /\ failures' = failures /\ resets' = resets /\ replays' = replays
  BY <1>0, OneLess
     DEF Crash, BoundsOK, tables, history, bounds, Announce, Goto, Claims,
         get_sagas_for_recovery, BudgetSpent
<1>2. /\ run' = NoRun
      /\ run' \in RunModel
      /\ run'.by = "nobody" /\ run'.pc = "idle"
      /\ run'.done = {} /\ run'.step = 0 /\ run'.flags = {}
  BY <1>0, NoRunIs DEF Crash
<1>4. /\ events' = events
  BY AnnounceIs DEF Crash, TypeOK, EventTypes, Onboarded, tables
<1>5. TypeOK'
  BY <1>0, <1>1, <1>2, <1>4
     DEF TypeOK, SagaStateModel, OnboardPlantContext, RunModel, AttemptsOK
<1>6. BoundsOK'
  BY <1>0, <1>1, <1>2, <1>4 DEF BoundsOK
<1>7. StatusOK'
  BY <1>0, <1>1, <1>2, <1>4 DEF StatusOK, NoRun
<1>8. AttemptsOK'
  BY <1>0, <1>1, <1>2, <1>4 DEF AttemptsOK
<1>9. DoneOK'
  BY <1>0, <1>1, <1>2, <1>4 DEF DoneOK, Restored, Onboarded, StatusOK
<1>10. LastStepOK'
  BY <1>0, <1>1, <1>2, <1>4 DEF LastStepOK, StatusOK, DoneOK, Restored
<1>11. EffectsOK'
  BY <1>0, <1>1, <1>2, <1>4 DEF EffectsOK, Onboarded
<1>12. OnboardedOK'
  BY <1>0, <1>1, <1>2, <1>4 DEF OnboardedOK, Onboarded
<1>13. FlagsOK'
  BY <1>0, <1>1, <1>2, <1>4 DEF FlagsOK, StatusOK, DoneOK
<1>14. WithdrawnOK'
  BY <1>0, <1>1, <1>2, <1>4 DEF WithdrawnOK, Left, Standing, StatusOK, DoneOK
<1>15. BudgetOK'
  <2>1. Owed \in {0, 1} /\ Owed' \in {0, 1}
    BY DEF Owed
  <2>2. Least(saga.attempts, MaxAttempts)' = Least(saga.attempts, MaxAttempts) /\ Least(saga.attempts, MaxAttempts) \in Int
    BY <1>0, <1>1, <1>2, <1>4 DEF Least
  <2>3. resets' = resets /\ crashes' = crashes - 1 /\ events' = events
    BY <1>0, <1>1, <1>2, <1>4
  <2> HIDE DEF Least, Owed
  <2> QED
    BY <2>1, <2>2, <2>3, <1>0 DEF BudgetOK
<1> QED
  BY <1>5, <1>6, <1>7, <1>8, <1>9, <1>10, <1>11, <1>12, <1>13, <1>14, <1>15

\* A dispatched command still stands.
LEMMA DispatchKeeps == ASSUME IInv, NEW k \in Recorded, Dispatch(k) PROVE IInv'
<1> USE ConstantsAssumption DEF IInv, TypeInv, Steps, Recorded, Forward, Backward, PARK_MARGIN
<1>1. /\ run' = run
      /\ saga' = saga
      /\ acted' = acted /\ undone' = undone
      /\ undo' = undo
      /\ events' = events
      /\ claimed' = claimed
      /\ reruns' = reruns /\ torn' = torn /\ everUndone' = everUndone
      /\ failures' = failures /\ crashes' = crashes /\ resets' = resets /\ replays' = replays
      /\ intents' \in [Recorded -> SagaIntent] /\ intents[k] = "pending" /\ intents'[k] = "executed"
      /\ \A j \in Recorded : j # k => intents'[j] = intents[j]
  BY DEF Dispatch, TypeOK, SagaIntent, history, bounds
<1>2. \A j \in Recorded : /\ intents'[j] = "none" <=> intents[j] = "none"
                         /\ intents'[j] = "cancelled" <=> intents[j] = "cancelled"
  BY <1>1
<1>3. Left' = Left
  <2>1. \A j \in Recorded : intents[j] \in SagaIntent /\ intents'[j] \in SagaIntent
    BY <1>1 DEF TypeOK
  <2>2. \A j \in Recorded :
          intents'[j] \in {"pending", "executed"} <=> intents[j] \in {"pending", "executed"}
    BY <1>1, <1>2, <2>1 DEF SagaIntent
  <2> QED
    BY <1>1, <1>2, <2>2 DEF Left, Standing
<1>4. TypeOK'
  BY <1>1, <1>2 DEF TypeOK, SagaStateModel, OnboardPlantContext, RunModel, AttemptsOK
<1>5. BoundsOK'
  BY <1>1, <1>2 DEF BoundsOK
<1>6. StatusOK'
  BY <1>1, <1>2 DEF StatusOK, NoRun
<1>7. AttemptsOK'
  BY <1>1, <1>2 DEF AttemptsOK
<1>8. DoneOK'
  BY <1>1, <1>2 DEF DoneOK, Restored, Onboarded, StatusOK
<1>9. LastStepOK'
  BY <1>1, <1>2 DEF LastStepOK, StatusOK, DoneOK, Restored
<1>10. EffectsOK'
  BY <1>1, <1>2 DEF EffectsOK, Onboarded
<1>11. OnboardedOK'
  BY <1>1, <1>2 DEF OnboardedOK, Onboarded
<1>12. FlagsOK'
  BY <1>1, <1>2 DEF FlagsOK, StatusOK, DoneOK
<1>13. WithdrawnOK'
  BY <1>1, <1>2, <1>3 DEF WithdrawnOK
<1>14. BudgetOK'
  BY <1>1, <1>2 DEF BudgetOK, Least, Owed, AttemptsOK, StatusOK
<1> QED
  BY <1>4, <1>5, <1>6, <1>7, <1>8, <1>9, <1>10, <1>11, <1>12, <1>13, <1>14

\* A stuttering step keeps the invariant.
LEMMA StutterKeeps == ASSUME IInv, UNCHANGED vars PROVE IInv'
<1> USE DEF IInv, TypeInv, vars, tables, history, bounds
<1>1. TypeOK'
  BY DEF TypeOK, SagaStateModel, OnboardPlantContext, RunModel, AttemptsOK
<1>2. BoundsOK'
  BY DEF BoundsOK
<1>3. StatusOK'
  BY DEF StatusOK, NoRun
<1>4. AttemptsOK'
  BY DEF AttemptsOK
<1>5. DoneOK'
  BY DEF DoneOK, Restored, Onboarded, StatusOK
<1>6. LastStepOK'
  BY DEF LastStepOK, StatusOK, DoneOK, Restored
<1>7. EffectsOK'
  BY DEF EffectsOK, Onboarded
<1>8. OnboardedOK'
  BY DEF OnboardedOK, Onboarded
<1>9. FlagsOK'
  BY DEF FlagsOK, StatusOK, DoneOK
<1>10. WithdrawnOK'
  BY DEF WithdrawnOK, Left, Standing, StatusOK, DoneOK
<1>11. BudgetOK'
  BY DEF BudgetOK, Least, Owed, AttemptsOK, StatusOK
<1> QED
  BY <1>1, <1>2, <1>3, <1>4, <1>5, <1>6, <1>7, <1>8, <1>9, <1>10, <1>11

\* Nothing has begun.
LEMMA InitHolds == Init => IInv
<1> SUFFICES ASSUME Init PROVE IInv
  OBVIOUS
<1> USE ConstantsAssumption DEF IInv, TypeInv, Steps, Recorded, Forward, Backward, PARK_MARGIN
<1>0. /\ saga.status = "none" /\ saga.attempts = 0 /\ saga.flags = {} /\ saga \in SagaStateModel
      /\ run = NoRun /\ run.by = "nobody" /\ run.pc = "idle"
      /\ run.done = {} /\ run.step = 0 /\ run.flags = {} /\ run \in RunModel
  BY NoRunIs DEF Init, SagaStateModel, Status, OnboardPlantContext
<1>1. /\ acted = {} /\ undone = {} /\ undo = {} /\ torn = FALSE
      /\ \A k \in Recorded : intents[k] = "none"
      /\ \A t \in EventTypes : events[t] = 0
  BY DEF Init
<1>2. TypeOK
  BY <1>0 DEF Init, TypeOK, SagaIntent
<1>3. BoundsOK
  <2>1. /\ failures \in 0 .. MaxFailures /\ crashes \in 0 .. MaxCrashes
        /\ resets \in 0 .. MaxResets /\ replays \in 0 .. MaxReplays
    BY DEF Init
  <2> QED
    BY <2>1, Zenon DEF Init, BoundsOK
<1>4. StatusOK /\ AttemptsOK
  BY <1>0, <1>1 DEF StatusOK, AttemptsOK
<1>5. DoneOK /\ LastStepOK /\ FlagsOK
  BY <1>0, <1>1 DEF DoneOK, LastStepOK, FlagsOK
<1>6. EffectsOK /\ OnboardedOK
  BY <1>0, <1>1 DEF EffectsOK, OnboardedOK, Onboarded, EventTypes
<1>7. WithdrawnOK
  BY <1>0, <1>1 DEF WithdrawnOK, Left
<1>8. BudgetOK
  <2>1. resets = MaxResets /\ crashes = MaxCrashes /\ events["SagaRetrying"] = 0
    BY DEF Init, EventTypes
  <2>2. MaxAttempts * (MaxResets - resets) = 0
    BY <2>1
  <2> QED
    BY <1>0, <2>1, <2>2 DEF BudgetOK, Least, Owed
<1> QED
  BY <1>2, <1>3, <1>4, <1>5, <1>6, <1>7, <1>8

\* Every step keeps the invariant.
LEMMA StepHolds == IInv /\ [Next]_vars => IInv'
<1> SUFFICES ASSUME IInv, [Next]_vars PROVE IInv'
  OBVIOUS
<1>1. \A k \in Recorded : Dispatch(k) => IInv'
  BY DispatchKeeps
<1> QED
  BY <1>1, Cases, StutterKeeps,
     StartSagaKeeps, ReplayTriggerKeeps, RebuildGroupKeeps, create_sagaKeeps,
     BeginStepsKeeps, LoadSagaKeeps, ActKeeps, ActFailsKeeps, CheckpointKeeps,
     CompleteSagaKeeps, AnnounceCompletedKeeps, BeginCompensationKeeps, CompensateKeeps,
     CompensateFailsKeeps, LogCompensatedKeeps, EndCompensationKeeps,
     RecordFailureKeeps, ResumeKeeps, AnnounceRetryKeeps, ClearStatusKeeps,
     ParkCounterKeeps, ParkAnnounceKeeps, increment_recovery_attemptsKeeps,
     reset_for_retryKeeps, CrashKeeps

\* What the log, the flags, the commands and the run say of each other holds in
\* every reachable state, whoever fails, dies, retries, resets or replays.
THEOREM Inductive == Spec => []IInv
  BY InitHolds, StepHolds, PTL DEF Spec

\* An onboarding is done as a whole or undone as a whole, for every recovery budget
\* and any number of failures, crashes, resets and replays: completed means both
\* commands and the announcement, announced once unless a process died between the
\* step and its checkpoint, and failed at rest means nothing is left behind.
THEOREM WholeOrUndone == Spec => []AllOrNothing
<1>1. IInv => AllOrNothing
  <2> SUFFICES ASSUME IInv PROVE AllOrNothing
    OBVIOUS
  <2> USE DEF IInv, TypeInv
  <2>1. CompletedMeansDone
    <3> SUFFICES ASSUME saga.status = "completed", ~everUndone
                 PROVE  (\A k \in Recorded : Standing(k)) /\ events["PlantOnboarded"] > 0
      BY DEF CompletedMeansDone
    <3>1. acted = Steps /\ 4 \in acted
      BY DEF LastStepOK
    <3>2. \A k \in Recorded : intents[k] # "none" /\ intents[k] # "cancelled" /\ k \notin undo
      BY <3>1 DEF EffectsOK, Recorded, Steps
    <3> QED
      BY <3>1, <3>2 DEF EffectsOK, Onboarded, Standing, TypeOK, SagaIntent
  <2>2. OnboardedOnce
    BY DEF OnboardedOnce, OnboardedOK, Onboarded
  <2>3. NothingLeftBehind
    BY DEF NothingLeftBehind, WithdrawnOK, Left
  <2> QED
    BY <2>1, <2>2, <2>3 DEF AllOrNothing
<1> QED
  BY <1>1, Inductive, PTL

\* The job's retries are bounded by the budget of the first dispatch and of each
\* reset, and by the processes that died: each announced retry is paid for by a
\* counted failure, a crash, or the attempt that is left to it.
THEOREM BudgetHolds == Spec => []RetriesBounded
<1>1. IInv => RetriesBounded
  <2> SUFFICES ASSUME IInv PROVE RetriesBounded
    OBVIOUS
  <2>1. /\ saga.attempts \in Nat /\ crashes \in Int /\ resets \in Int
        /\ events["SagaRetrying"] \in Nat /\ MaxAttempts * (MaxResets - resets) \in Int
    BY InvTypes DEF IInv
  <2>2. Least(saga.attempts, MaxAttempts) + Owed <= MaxAttempts
    BY <2>1, ConstantsAssumption DEF Least, Owed
  <2>3. Least(saga.attempts, MaxAttempts) \in Int /\ Owed \in Int
    BY <2>1, ConstantsAssumption DEF Least, Owed
  <2>4. MaxAttempts * (1 + MaxResets - resets) = MaxAttempts * (MaxResets - resets) + MaxAttempts
    BY <2>1, ConstantsAssumption
  <2> DEFINE paid == MaxAttempts * (MaxResets - resets)
             least == Least(saga.attempts, MaxAttempts)
  <2>5. events["SagaRetrying"] <= paid + least + (MaxCrashes - crashes) + Owed
    BY DEF IInv, BudgetOK
  <2>6. paid \in Int /\ least \in Int /\ least + Owed <= MaxAttempts
    BY <2>1, <2>2, <2>3
  <2> HIDE DEF paid, least
  <2>7. events["SagaRetrying"] <= paid + MaxAttempts + (MaxCrashes - crashes)
    BY <2>1, <2>3, <2>5, <2>6, ConstantsAssumption
  <2> QED
    BY <2>4, <2>7 DEF RetriesBounded, paid
<1> QED
  BY <1>1, Inductive, PTL

-----------------------------------------------------------------------------
(***************************************************************************)
(* CommandDispatch: the commands a saga delegates are carried out.         *)
(***************************************************************************)

Working == {"run", "ran", "failed"}

\* A dispatcher that runs, has run or has failed an intent has it in its batch,
\* an idle one has nothing, and at "ran" the handler's commit is behind it.
InHandOK ==
    \A d \in Dispatchers :
        /\ pc[d] \in Working => cur[d] \in batch[d]
        /\ pc[d] = "idle" => batch[d] = {}
        /\ pc[d] = "ran" => cur[d] \in ran

\* Only recorded intents are in the table, in a batch or among those that ran.
RecordedOK ==
    /\ \A k \in 1 .. Len(rows) : status[rows[k]] # "none"
    /\ \A d \in Dispatchers : \A i \in batch[d] : status[i] # "none"
    /\ \A i \in ran : status[i] # "none"

\* The idempotency record counts the insertions of its row.
StoredOK == \A s \in DelegatingSteps : created[s] = IF stored[s] THEN 1 ELSE 0

\* While no lease ran out under a live dispatcher, an intent in hand is leased,
\* unless a compensation cancelled it or another outcome is recorded.
LeaseOK ==
    lapses = 0 => \A d \in Dispatchers : \A i \in batch[d] :
                      claimedAt[i] = "leased" \/ status[i] # "pending"

\* ... and nobody works any more on an intent that is executed or parked.
SettledOK ==
    lapses = 0 => \A d \in Dispatchers : \A i \in batch[d] :
                      status[i] \notin {"executed", "parked"}

\* A command is cancelled by its step's compensation, and none is recorded for
\* the first time after its undo; only a settled create has an undo.
CancelledOK ==
    \A s \in DelegatingSteps :
        /\ status[Create(s)] = "none" => s \notin withdrawn
        /\ s \notin withdrawn =>
             status[Create(s)] # "cancelled" /\ status[Undo(s)] = "none"

UndoOK ==
    lapses = 0 => \A s \in DelegatingSteps :
        status[Undo(s)] # "none" => status[Create(s)] \in {"executed", "parked"}

-----------------------------------------------------------------------------

\* What claim_pending returns is pending and not visibly leased.
LEMMA ClaimedArePending ==
  ASSUME DispatchTypeOK
  PROVE  \A i \in OldestClaimable(BatchSize) :
            /\ i \in Intents
            /\ status[i] = "pending"
            /\ claimedAt[i] # "leased"
<1> SUFFICES ASSUME NEW i \in OldestClaimable(BatchSize)
             PROVE  i \in Intents /\ status[i] = "pending" /\ claimedAt[i] # "leased"
  OBVIOUS
<1>1. PICK k \in 1 .. Len(rows) : i = rows[k] /\ Claimable(rows[k])
  BY DEF OldestClaimable
<1>2. rows[k] \in Intents
  BY DEF DispatchTypeOK
<1> QED
  BY <1>1, <1>2 DEF Claimable, LeaseExpired

\* A create intent and an undo intent of a step are two different intents.
LEMMA IntentsOfAStep ==
  /\ \A s \in DelegatingSteps : /\ Create(s) \in Intents
                                /\ Undo(s) \in Intents
                                /\ Create(s) # Undo(s)
  /\ \A s, t \in DelegatingSteps : /\ Create(s) = Create(t) => s = t
                                   /\ Undo(s) = Undo(t) => s = t
                                   /\ Create(s) # Undo(t)
  /\ \A i \in Intents : /\ i[1] \in DelegatingSteps
                        /\ i[2] = "create" => i = Create(i[1])
                        /\ i[2] = "undo" => i = Undo(i[1])
                        /\ i[2] \in {"create", "undo"}
  BY DEF Create, Undo, Intents

DispatchTypeInv == DispatchTypeOK /\ InHandOK

\* The steps of the specification, for the case analyses below.
LEMMA DispatchCases ==
  ASSUME [DispatchNext]_dispatchVars, NEW P,
         \A s \in DelegatingSteps : Delegate(s) => P,
         \A s \in DelegatingSteps : Withdraw(s) => P,
         \A d \in Dispatchers : Claim(d) => P,
         \A d \in Dispatchers : Take(d) => P,
         \A d \in Dispatchers : Handle(d) => P,
         \A d \in Dispatchers : Raise(d) => P,
         \A d \in Dispatchers : MarkExecuted(d) => P,
         \A d \in Dispatchers : MarkFailed(d) => P,
         \A d \in Dispatchers : DispatcherCrash(d) => P,
         \A i \in Intents : Lapse(i) => P,
         UNCHANGED dispatchVars => P
  PROVE  P
  BY DEF DispatchNext, ProcessStep, DispatcherStep

\* The intent in hand is an intent.
LEMMA CurIntent ==
  ASSUME DispatchTypeInv, NEW d \in Dispatchers, pc[d] \in Working
  PROVE  cur[d] \in Intents /\ cur[d] \in batch[d]
  BY DEF DispatchTypeInv, DispatchTypeOK, InHandOK

\* Every step keeps the types, and the batch in step with the program counter.
LEMMA DispatchTypeStep == DispatchTypeInv /\ [DispatchNext]_dispatchVars => DispatchTypeInv'
<1> SUFFICES ASSUME DispatchTypeInv, [DispatchNext]_dispatchVars PROVE DispatchTypeInv'
  OBVIOUS
<1> USE DispatchAssumption DEF DispatchTypeInv
<1>1. ASSUME NEW s \in DelegatingSteps, Delegate(s) PROVE DispatchTypeInv'
  <2>1. Create(s) \in Intents
    BY IntentsOfAStep
  <2>2. DispatchTypeOK'
    BY <1>1, <2>1
       DEF DispatchTypeOK, Delegate, RecordIntent, owning, dispatcher, dispatchBounds
  <2>3. InHandOK'
    BY <1>1 DEF InHandOK, Delegate, owning, dispatcher
  <2> QED
    BY <2>2, <2>3
<1>2. ASSUME NEW s \in DelegatingSteps, Withdraw(s) PROVE DispatchTypeInv'
  <2>1. Create(s) \in Intents /\ Undo(s) \in Intents
    BY IntentsOfAStep
  <2>2. DispatchTypeOK'
    <3>1. CASE Cancel(Create(s))
      BY <3>1, <1>2, <2>1
         DEF DispatchTypeOK, Withdraw, Cancel, owning, dispatcher, dispatchBounds
    <3>2. CASE RecordIntent(Undo(s))
      BY <3>2, <1>2, <2>1
         DEF DispatchTypeOK, Withdraw, RecordIntent, owning, dispatcher, dispatchBounds
    <3> QED
      BY <1>2, <3>1, <3>2 DEF Withdraw
  <2>3. InHandOK'
    BY <1>2 DEF InHandOK, Withdraw, owning, dispatcher
  <2> QED
    BY <2>2, <2>3
<1>3. ASSUME NEW d \in Dispatchers, Claim(d) PROVE DispatchTypeInv'
  <2>1. OldestClaimable(BatchSize) \subseteq Intents
    BY ClaimedArePending
  <2>2. DispatchTypeOK'
    BY <1>3, <2>1 DEF DispatchTypeOK, Claim, owning, dispatchBounds
  <2>3. InHandOK'
    BY <1>3 DEF DispatchTypeOK, InHandOK, Claim, owning, Working
  <2> QED
    BY <2>2, <2>3
<1>4. ASSUME NEW d \in Dispatchers, Take(d) PROVE DispatchTypeInv'
  <2>1. DispatchTypeOK'
    BY <1>4 DEF DispatchTypeOK, Take, intentRows, owning, dispatchBounds
  <2>2. InHandOK'
    BY <1>4 DEF DispatchTypeOK, InHandOK, Take, owning, Working
  <2> QED
    BY <2>1, <2>2
<1>5. ASSUME NEW d \in Dispatchers, Handle(d) PROVE DispatchTypeInv'
  <2>1. cur[d] \in Intents /\ cur[d] \in batch[d] /\ cur[d][1] \in DelegatingSteps
    BY <1>5, CurIntent, IntentsOfAStep DEF Handle, Working
  <2>2. /\ effect' \in [DelegatingSteps -> BOOLEAN]
        /\ stored' \in [DelegatingSteps -> BOOLEAN]
        /\ created' \in [DelegatingSteps -> Nat]
    <3> DEFINE s == cur[d][1]
    <3>1. CASE CreateHandler(s)
      <4>1. CASE stored[s]
        BY <4>1, <3>1 DEF DispatchTypeOK, CreateHandler
      <4>2. CASE ~stored[s]
        <5>1. created[s] + 1 \in Nat
          BY <2>1 DEF DispatchTypeOK
        <5>2. /\ effect' = [effect EXCEPT ![s] = TRUE]
              /\ stored' = [stored EXCEPT ![s] = TRUE]
              /\ created' = [created EXCEPT ![s] = created[s] + 1]
          BY <4>2, <3>1 DEF CreateHandler
        <5> HIDE DEF s
        <5> QED
          BY <5>1, <5>2 DEF DispatchTypeOK
      <4> QED
        BY <4>1, <4>2
    <3>2. CASE DeleteHandler(cur[d][1])
      BY <3>2, <2>1 DEF DispatchTypeOK, DeleteHandler
    <3> QED
      BY <1>5, <3>1, <3>2 DEF Handle
  <2>3. DispatchTypeOK'
    BY <1>5, <2>1, <2>2 DEF DispatchTypeOK, Handle, intentRows, dispatchBounds
  <2>4. InHandOK'
    BY <1>5, <2>1 DEF DispatchTypeOK, InHandOK, Handle, Working
  <2> QED
    BY <2>3, <2>4
<1>6. ASSUME NEW d \in Dispatchers, Raise(d) PROVE DispatchTypeInv'
  <2>1. DispatchTypeOK'
    BY <1>6 DEF DispatchTypeOK, Raise, intentRows, owning
  <2>2. InHandOK'
    BY <1>6 DEF DispatchTypeOK, InHandOK, Raise, owning, Working
  <2> QED
    BY <2>1, <2>2
<1>7. ASSUME NEW d \in Dispatchers, MarkExecuted(d) \/ MarkFailed(d) PROVE DispatchTypeInv'
  <2>1. cur[d] \in Intents /\ NextClaim(d)
    BY <1>7, CurIntent DEF MarkExecuted, MarkFailed, Working
  <2>2. /\ status' \in [Intents -> {"none", "pending", "executed", "parked", "cancelled"}]
        /\ attempts' \in [Intents -> Nat]
    <3>1. CASE MarkExecuted(d)
      BY <3>1, <2>1 DEF DispatchTypeOK, MarkExecuted
    <3>2. CASE MarkFailed(d)
      BY <3>2, <2>1 DEF DispatchTypeOK, MarkFailed, mark_failed
    <3> QED
      BY <1>7, <3>1, <3>2
  <2>3. DispatchTypeOK'
    BY <2>1, <2>2 DEF DispatchTypeOK, NextClaim, owning, dispatchBounds
  <2>4. InHandOK'
    BY <2>1 DEF DispatchTypeOK, InHandOK, NextClaim, owning, Working
  <2> QED
    BY <2>3, <2>4
<1>8. ASSUME NEW d \in Dispatchers, DispatcherCrash(d) PROVE DispatchTypeInv'
  <2>1. DispatchTypeOK'
    BY <1>8 DEF DispatchTypeOK, DispatcherCrash, intentRows, owning
  <2>2. InHandOK'
    BY <1>8 DEF DispatchTypeOK, InHandOK, DispatcherCrash, owning, Working
  <2> QED
    BY <2>1, <2>2
<1>9. ASSUME NEW i \in Intents, Lapse(i) PROVE DispatchTypeInv'
  <2>1. DispatchTypeOK'
    BY <1>9 DEF DispatchTypeOK, Lapse, owning, dispatcher
  <2>2. InHandOK'
    BY <1>9 DEF InHandOK, Lapse, owning, dispatcher
  <2> QED
    BY <2>1, <2>2
<1>10. CASE UNCHANGED dispatchVars
  BY <1>10
     DEF DispatchTypeOK, InHandOK, dispatchVars, intentRows, owning, dispatcher,
         dispatchBounds
<1> QED
  BY <1>1, <1>2, <1>3, <1>4, <1>5, <1>6, <1>7, <1>8, <1>9, <1>10, DispatchCases

\* The columns, the locals of run_once and the batch in hand keep their types, for
\* every instance.
THEOREM DispatchTypeCorrect == DispatchSpec => [](DispatchTypeOK /\ InHandOK)
<1>1. DispatchInit => DispatchTypeInv
  BY DispatchAssumption DEF DispatchInit, DispatchTypeInv, DispatchTypeOK, InHandOK, Working
<1> QED
  BY <1>1, DispatchTypeStep, PTL DEF DispatchSpec, DispatchTypeInv

-----------------------------------------------------------------------------
(***************************************************************************)
(* What the table says is so.                                              *)
(***************************************************************************)

TruthInv == RecordedOK /\ ExecutedMeansRan /\ ParkedOnlyAfterBudget

\* An outcome is written only for the intent in hand, after its handler's commit
\* or with the failure that spends the budget; a failure is never uncounted.
LEMMA TruthStep == DispatchTypeInv /\ TruthInv /\ [DispatchNext]_dispatchVars => TruthInv'
<1> SUFFICES ASSUME DispatchTypeInv, TruthInv, [DispatchNext]_dispatchVars PROVE TruthInv'
  OBVIOUS
<1> USE DispatchAssumption DEF TruthInv
<1>1. ASSUME NEW i \in Intents, RecordIntent(i), UNCHANGED <<owning, dispatcher>>
      PROVE  TruthInv'
  <2>1. RecordedOK'
    <3>1. \A k \in 1 .. Len(rows') : rows'[k] = i \/ (k \in 1 .. Len(rows) /\ rows'[k] = rows[k])
      BY <1>1 DEF DispatchTypeInv, DispatchTypeOK, RecordIntent
    <3> QED
      BY <1>1, <3>1
         DEF DispatchTypeInv, DispatchTypeOK, RecordedOK, RecordIntent, owning,
             dispatcher
  <2> QED
    BY <1>1, <2>1
       DEF DispatchTypeInv, DispatchTypeOK, ExecutedMeansRan, ParkedOnlyAfterBudget,
       RecordIntent, owning
<1>2. ASSUME NEW s \in DelegatingSteps, Delegate(s) PROVE TruthInv'
  BY <1>1, <1>2, IntentsOfAStep DEF Delegate
<1>3. ASSUME NEW s \in DelegatingSteps, Withdraw(s) PROVE TruthInv'
  <2>1. CASE RecordIntent(Undo(s))
    BY <1>1, <1>3, <2>1, IntentsOfAStep DEF Withdraw
  <2>2. CASE Cancel(Create(s))
    BY <1>3, <2>2 DEF DispatchTypeInv, DispatchTypeOK, RecordedOK, ExecutedMeansRan,
       ParkedOnlyAfterBudget, Withdraw, Cancel, owning, dispatcher
  <2> QED
    BY <1>3, <2>1, <2>2 DEF Withdraw
<1>4. ASSUME NEW d \in Dispatchers, Claim(d) PROVE TruthInv'
  <2>1. \A i \in OldestClaimable(BatchSize) : status[i] = "pending"
    BY ClaimedArePending DEF DispatchTypeInv
  <2> QED
    BY <1>4, <2>1 DEF DispatchTypeInv, DispatchTypeOK, RecordedOK, ExecutedMeansRan,
       ParkedOnlyAfterBudget, Claim, owning
<1>5. ASSUME NEW d \in Dispatchers, Take(d) PROVE TruthInv'
  BY <1>5 DEF RecordedOK, ExecutedMeansRan, ParkedOnlyAfterBudget, Take, intentRows, owning
<1>6. ASSUME NEW d \in Dispatchers, Handle(d) PROVE TruthInv'
  <2>1. cur[d] \in batch[d]
    BY <1>6, CurIntent DEF Handle, Working
  <2> QED
    BY <1>6, <2>1
       DEF RecordedOK, ExecutedMeansRan, ParkedOnlyAfterBudget, Handle, intentRows
<1>7. ASSUME NEW d \in Dispatchers, Raise(d) PROVE TruthInv'
  BY <1>7 DEF RecordedOK, ExecutedMeansRan, ParkedOnlyAfterBudget, Raise, intentRows, owning
<1>8. ASSUME NEW d \in Dispatchers, MarkExecuted(d) PROVE TruthInv'
  <2>1. cur[d] \in Intents /\ cur[d] \in ran
    BY <1>8, CurIntent DEF DispatchTypeInv, InHandOK, MarkExecuted, Working
  <2> QED
    BY <1>8, <2>1 DEF DispatchTypeInv, DispatchTypeOK, RecordedOK, ExecutedMeansRan,
       ParkedOnlyAfterBudget, MarkExecuted, NextClaim, owning
<1>9. ASSUME NEW d \in Dispatchers, MarkFailed(d) PROVE TruthInv'
  <2>1. cur[d] \in Intents /\ status[cur[d]] # "none"
    BY <1>9, CurIntent DEF RecordedOK, MarkFailed, Working
  <2>2. RecordedOK' /\ ExecutedMeansRan'
    <3>1. \A i \in Intents : status'[i] = status[i] \/ (i = cur[d] /\ status'[i] = "parked")
      BY <1>9, <2>1 DEF DispatchTypeInv, DispatchTypeOK, MarkFailed, mark_failed
    <3>2. /\ \A e \in Dispatchers : batch'[e] \subseteq batch[e] /\ batch[e] \subseteq Intents
          /\ UNCHANGED <<rows, ran>>
          /\ ran \subseteq Intents
          /\ \A k \in 1 .. Len(rows) : rows[k] \in Intents
      BY <1>9 DEF DispatchTypeInv, DispatchTypeOK, MarkFailed, NextClaim, owning
    <3> QED
      BY <3>1, <3>2 DEF RecordedOK, ExecutedMeansRan
  <2>3. ParkedOnlyAfterBudget'
    BY <1>9, <2>1
       DEF DispatchTypeInv, DispatchTypeOK, ParkedOnlyAfterBudget, MarkFailed,
           mark_failed
  <2> QED
    BY <2>2, <2>3
<1>10. ASSUME NEW d \in Dispatchers, DispatcherCrash(d) PROVE TruthInv'
  BY <1>10
     DEF DispatchTypeInv, DispatchTypeOK, RecordedOK, ExecutedMeansRan,
         ParkedOnlyAfterBudget,
     DispatcherCrash, intentRows, owning
<1>11. ASSUME NEW i \in Intents, Lapse(i) PROVE TruthInv'
  BY <1>11
     DEF RecordedOK, ExecutedMeansRan, ParkedOnlyAfterBudget, Lapse, owning, dispatcher
<1>12. CASE UNCHANGED dispatchVars
  BY <1>12
     DEF RecordedOK, ExecutedMeansRan, ParkedOnlyAfterBudget, dispatchVars, intentRows,
     owning, dispatcher
<1> QED
  BY <1>2, <1>3, <1>4, <1>5, <1>6, <1>7, <1>8, <1>9, <1>10, <1>11, <1>12, DispatchCases

\* An intent that looks executed has run and a parked one has spent its budget,
\* whatever dispatchers crash, race and repeat.
THEOREM StatusesTrue == DispatchSpec => []StatusesTellTheTruth
<1>1. DispatchInit => TruthInv
  BY DEF DispatchInit, TruthInv, RecordedOK, ExecutedMeansRan, ParkedOnlyAfterBudget
<1>2. DispatchTypeInv /\ DispatchTypeInv' /\ TruthInv /\ [DispatchNext]_dispatchVars => TruthInv'
  BY TruthStep
<1>3. DispatchTypeInv /\ TruthInv => StatusesTellTheTruth
  BY DEF DispatchTypeInv, TruthInv, StatusesTellTheTruth
<1>4. DispatchSpec => []DispatchTypeInv
  BY DispatchTypeCorrect, PTL DEF DispatchTypeInv
<1> QED
  BY <1>1, <1>2, <1>3, <1>4, PTL DEF DispatchSpec

-----------------------------------------------------------------------------
(***************************************************************************)
(* One effect, and none once the undo ran.                                 *)
(***************************************************************************)

OnceInv ==
    /\ StoredOK /\ LeaseOK /\ SettledOK /\ CancelledOK /\ UndoOK
    /\ OneDispatcherPerIntent /\ UndoneStaysUndone

\* The steps that leave the intents, the batches and the count of lapses alone.
LEMMA OnceKept ==
  ASSUME OnceInv, UNCHANGED <<status, claimedAt, owning, withdrawn, batch, lapses>>
  PROVE  OnceInv'
  BY DEF OnceInv, StoredOK, LeaseOK, SettledOK, CancelledOK, UndoOK,
     OneDispatcherPerIntent, UndoneStaysUndone, owning

\* Recording a command gives nobody anything to do yet.
LEMMA OnceRecorded ==
  ASSUME DispatchTypeInv, TruthInv, OnceInv, NEW i \in Intents, RecordIntent(i),
         status[i] = "none", UNCHANGED <<owning, dispatcher, lapses>>
  PROVE  StoredOK' /\ LeaseOK' /\ SettledOK' /\ OneDispatcherPerIntent' /\ UndoneStaysUndone'
<1>1. \A d \in Dispatchers : i \notin batch[d]
  BY DEF TruthInv, RecordedOK
<1> QED
  BY <1>1 DEF DispatchTypeInv, DispatchTypeOK, OnceInv, StoredOK, LeaseOK, SettledOK,
     OneDispatcherPerIntent, UndoneStaysUndone, RecordIntent, owning, dispatcher

\* What an outcome writes: the status of the intent in hand, which leaves the
\* batch and its lease.
LEMMA Outcome ==
  ASSUME DispatchTypeInv, NEW d \in Dispatchers, MarkExecuted(d) \/ MarkFailed(d)
  PROVE  /\ cur[d] \in Intents /\ cur[d] \in batch[d]
         /\ \A i \in Intents : i # cur[d] => status'[i] = status[i] /\ claimedAt'[i] = claimedAt[i]
         /\ status'[cur[d]] \in {status[cur[d]], "executed", "parked"}
         /\ batch' = [batch EXCEPT ![d] = batch[d] \ {cur[d]}]
         /\ UNCHANGED <<owning, withdrawn, lapses>>
<1>1. cur[d] \in Intents /\ cur[d] \in batch[d] /\ NextClaim(d)
  BY CurIntent DEF MarkExecuted, MarkFailed, Working
<1>2. CASE MarkExecuted(d)
  BY <1>1, <1>2 DEF DispatchTypeInv, DispatchTypeOK, MarkExecuted, NextClaim, dispatchBounds
<1>3. CASE MarkFailed(d)
  BY <1>1, <1>3
     DEF DispatchTypeInv, DispatchTypeOK, MarkFailed, mark_failed, NextClaim,
         dispatchBounds
<1> QED
  BY <1>2, <1>3

\* Leases and the idempotency record keep an effect single, and an undo is only
\* recorded for a command nobody can still be running.
LEMMA OnceStep == DispatchTypeInv /\ TruthInv /\ OnceInv /\ [DispatchNext]_dispatchVars => OnceInv'
<1> SUFFICES ASSUME DispatchTypeInv, TruthInv, OnceInv, [DispatchNext]_dispatchVars PROVE OnceInv'
  OBVIOUS
<1> USE DispatchAssumption
<1>1. ASSUME NEW s \in DelegatingSteps, Delegate(s) PROVE OnceInv'
  <2>1. RecordIntent(Create(s)) /\ status[Create(s)] = "none" /\ Create(s) \in Intents
    BY <1>1, IntentsOfAStep DEF Delegate
  <2>2. StoredOK' /\ LeaseOK' /\ SettledOK' /\ OneDispatcherPerIntent' /\ UndoneStaysUndone'
    BY <1>1, <2>1, OnceRecorded DEF Delegate, dispatchBounds
  <2>3. s \notin withdrawn /\ status[Undo(s)] = "none"
    BY <2>1 DEF OnceInv, CancelledOK
  <2>4. CancelledOK' /\ UndoOK'
    BY <1>1, <2>1, <2>3, IntentsOfAStep
       DEF DispatchTypeInv, DispatchTypeOK, OnceInv, CancelledOK, UndoOK,
       Delegate, RecordIntent, dispatchBounds
  <2> QED
    BY <2>2, <2>4 DEF OnceInv
<1>2. ASSUME NEW s \in DelegatingSteps, Withdraw(s) PROVE OnceInv'
  <2>1. /\ s \notin withdrawn /\ withdrawn' = withdrawn \cup {s}
        /\ status[Create(s)] \notin {"none", "cancelled"} /\ status[Undo(s)] = "none"
    BY <1>2 DEF OnceInv, CancelledOK, Withdraw
  <2>2. CASE status[Create(s)] # "pending" /\ RecordIntent(Undo(s))
    <3>1. StoredOK' /\ LeaseOK' /\ SettledOK' /\ OneDispatcherPerIntent' /\ UndoneStaysUndone'
      BY <1>2, <2>1, <2>2, OnceRecorded, IntentsOfAStep DEF Withdraw, dispatchBounds
    <3>2. status[Create(s)] \in {"executed", "parked"}
      BY <2>1, <2>2, IntentsOfAStep DEF DispatchTypeInv, DispatchTypeOK
    <3>3. CancelledOK' /\ UndoOK'
      BY <1>2, <2>1, <2>2, <3>2, IntentsOfAStep
         DEF DispatchTypeInv, DispatchTypeOK, OnceInv, CancelledOK,
         UndoOK, Withdraw, RecordIntent, dispatchBounds
    <3> QED
      BY <3>1, <3>3 DEF OnceInv
  <2>3. CASE Cancel(Create(s))
    <3>1. /\ status' = [status EXCEPT ![Create(s)] = "cancelled"]
          /\ claimedAt' = [claimedAt EXCEPT ![Create(s)] = "null"]
          /\ UNCHANGED <<owning, dispatcher, lapses>>
      BY <1>2, <2>3 DEF Cancel, Withdraw, dispatchBounds
    <3>2. LeaseOK' /\ SettledOK'
      BY <3>1, IntentsOfAStep
         DEF DispatchTypeInv, DispatchTypeOK, OnceInv, LeaseOK, SettledOK, dispatcher
    <3>3. StoredOK' /\ OneDispatcherPerIntent' /\ UndoneStaysUndone'
      BY <3>1
         DEF OnceInv, StoredOK, OneDispatcherPerIntent, UndoneStaysUndone, owning,
             dispatcher
    <3>4. CancelledOK' /\ UndoOK'
      BY <2>1, <3>1, IntentsOfAStep
         DEF DispatchTypeInv, DispatchTypeOK, OnceInv, CancelledOK, UndoOK
    <3> QED
      BY <3>2, <3>3, <3>4 DEF OnceInv
  <2> QED
    BY <1>2, <2>2, <2>3 DEF Withdraw
<1>3. ASSUME NEW d \in Dispatchers, Claim(d) PROVE OnceInv'
  <2> DEFINE Taken == OldestClaimable(BatchSize)
  <2>1. \A i \in Taken : i \in Intents /\ status[i] = "pending" /\ claimedAt[i] # "leased"
    BY ClaimedArePending DEF DispatchTypeInv
  <2>2. /\ batch' = [batch EXCEPT ![d] = Taken]
        /\ claimedAt' = [i \in Intents |-> IF i \in Taken THEN "leased" ELSE claimedAt[i]]
        /\ UNCHANGED <<status, owning, withdrawn, lapses>>
    BY <1>3 DEF Claim, dispatchBounds
  <2> HIDE DEF Taken
  <2>3. lapses = 0 => \A e \in Dispatchers : batch[e] \cap Taken = {}
    BY <2>1 DEF OnceInv, LeaseOK
  <2>4. \A e \in Dispatchers : batch'[e] = IF e = d THEN Taken ELSE batch[e]
    BY <2>2 DEF DispatchTypeInv, DispatchTypeOK
  <2>5. LeaseOK' /\ SettledOK'
    BY <2>1, <2>2, <2>4 DEF DispatchTypeInv, DispatchTypeOK, OnceInv, LeaseOK, SettledOK
  <2>6. OneDispatcherPerIntent'
    BY <2>2, <2>3, <2>4 DEF OnceInv, OneDispatcherPerIntent
  <2> QED
    BY <2>2, <2>5, <2>6
       DEF OnceInv, StoredOK, CancelledOK, UndoOK, UndoneStaysUndone, owning
<1>4. ASSUME NEW d \in Dispatchers, Take(d) \/ Raise(d) PROVE OnceInv'
  BY <1>4, OnceKept DEF Take, Raise, intentRows, dispatchBounds
<1>5. ASSUME NEW d \in Dispatchers, Handle(d) PROVE OnceInv'
  <2> DEFINE s == cur[d][1]
  <2>1. cur[d] \in Intents /\ cur[d] \in batch[d] /\ s \in DelegatingSteps
    BY <1>5, CurIntent, IntentsOfAStep DEF Handle, Working
  <2>2. UNCHANGED <<status, claimedAt, withdrawn, batch, lapses>> /\ ran' = ran \cup {cur[d]}
    BY <1>5 DEF Handle, intentRows, dispatchBounds
  <2>3. StoredOK' /\ UndoneStaysUndone'
    <3>1. CASE cur[d][2] = "create"
      <4>1. cur[d] = Create(s) /\ CreateHandler(s)
        BY <1>5, <2>1, <3>1, IntentsOfAStep DEF Handle
      <4>2. StoredOK'
        BY <2>1, <4>1 DEF DispatchTypeInv, DispatchTypeOK, OnceInv, StoredOK, CreateHandler
      <4>3. lapses = 0 => Undo(s) \notin ran'
        <5>1. SUFFICES ASSUME lapses = 0, Undo(s) \in ran PROVE FALSE
          BY <2>1, <2>2, <4>1, IntentsOfAStep
        <5>2. status[Create(s)] \in {"executed", "parked"}
          BY <2>1, <5>1 DEF TruthInv, RecordedOK, OnceInv, UndoOK
        <5> QED
          BY <2>1, <4>1, <5>1, <5>2 DEF OnceInv, SettledOK
      <4>4. \A t \in DelegatingSteps : t # s => effect'[t] = effect[t] /\ (Undo(t) \in ran' <=> Undo(t) \in ran)
        BY <2>1, <2>2, <4>1, IntentsOfAStep
           DEF DispatchTypeInv, DispatchTypeOK, CreateHandler
      <4> QED
        BY <2>2, <4>2, <4>3, <4>4 DEF OnceInv, UndoneStaysUndone
    <3>2. CASE cur[d][2] = "undo"
      <4>1. cur[d] = Undo(s) /\ DeleteHandler(s)
        BY <1>5, <2>1, <3>2, IntentsOfAStep DEF Handle
      <4>2. StoredOK'
        BY <4>1 DEF OnceInv, StoredOK, DeleteHandler
      <4>3. /\ effect'[s] = FALSE
            /\ \A t \in DelegatingSteps : t # s => effect'[t] = effect[t] /\ (Undo(t) \in ran' <=> Undo(t) \in ran)
        BY <2>1, <2>2, <4>1, IntentsOfAStep
           DEF DispatchTypeInv, DispatchTypeOK, DeleteHandler
      <4> QED
        BY <2>2, <4>2, <4>3 DEF OnceInv, UndoneStaysUndone
    <3> QED
      BY <2>1, <3>1, <3>2, IntentsOfAStep
  <2>4. LeaseOK' /\ SettledOK' /\ CancelledOK' /\ UndoOK' /\ OneDispatcherPerIntent'
    BY <2>2 DEF OnceInv, LeaseOK, SettledOK, CancelledOK, UndoOK, OneDispatcherPerIntent
  <2> QED
    BY <2>3, <2>4 DEF OnceInv
<1>6. ASSUME NEW d \in Dispatchers, MarkExecuted(d) \/ MarkFailed(d) PROVE OnceInv'
  <2>1. /\ cur[d] \in Intents /\ cur[d] \in batch[d]
        /\ \A i \in Intents : i # cur[d] => status'[i] = status[i] /\ claimedAt'[i] = claimedAt[i]
        /\ status'[cur[d]] \in {status[cur[d]], "executed", "parked"}
        /\ batch' = [batch EXCEPT ![d] = batch[d] \ {cur[d]}]
        /\ UNCHANGED <<owning, withdrawn, lapses>>
    BY <1>6, Outcome
  <2>2. \A e \in Dispatchers :
            /\ batch'[e] \subseteq batch[e] /\ batch'[e] \subseteq Intents
            /\ lapses = 0 => cur[d] \notin batch'[e]
    BY <2>1 DEF DispatchTypeInv, DispatchTypeOK, OnceInv, OneDispatcherPerIntent
  <2>3. LeaseOK' /\ SettledOK' /\ OneDispatcherPerIntent'
    <3>1. lapses = 0 => \A e \in Dispatchers : \A i \in batch'[e] :
             i \in batch[e] /\ status'[i] = status[i] /\ claimedAt'[i] = claimedAt[i]
      BY <2>1, <2>2
    <3> QED
      BY <2>1, <2>2, <3>1 DEF OnceInv, LeaseOK, SettledOK, OneDispatcherPerIntent
  <2>4. status[cur[d]] # "none" /\ (lapses = 0 => status[cur[d]] \notin {"executed", "parked"})
    BY <2>1 DEF TruthInv, RecordedOK, OnceInv, SettledOK
  <2>5. CancelledOK' /\ UndoOK'
    <3> SUFFICES ASSUME NEW s \in DelegatingSteps
                 PROVE  /\ status'[Create(s)] = "none" => s \notin withdrawn'
                        /\ s \notin withdrawn' =>
                             status'[Create(s)] # "cancelled" /\ status'[Undo(s)] = "none"
                        /\ lapses' = 0 => (status'[Undo(s)] # "none" =>
                                            status'[Create(s)] \in {"executed", "parked"})
      BY DEF CancelledOK, UndoOK
    <3>1. CASE cur[d] = Create(s)
      BY <2>1, <2>4, <3>1, IntentsOfAStep DEF OnceInv, CancelledOK, UndoOK
    <3>2. CASE cur[d] = Undo(s)
      BY <2>1, <2>4, <3>2, IntentsOfAStep DEF OnceInv, CancelledOK, UndoOK
    <3>3. CASE cur[d] \notin {Create(s), Undo(s)}
      BY <2>1, <3>3, IntentsOfAStep DEF OnceInv, CancelledOK, UndoOK
    <3> QED
      BY <3>1, <3>2, <3>3
  <2> QED
    BY <2>1, <2>3, <2>5 DEF OnceInv, StoredOK, UndoneStaysUndone, owning
<1>7. ASSUME NEW d \in Dispatchers, DispatcherCrash(d) PROVE OnceInv'
  <2>1. /\ \A e \in Dispatchers : batch'[e] \subseteq batch[e]
        /\ UNCHANGED <<status, claimedAt, owning, withdrawn, lapses>>
    BY <1>7 DEF DispatchTypeInv, DispatchTypeOK, DispatcherCrash, intentRows
  <2>2. LeaseOK' /\ SettledOK' /\ OneDispatcherPerIntent'
    BY <2>1 DEF OnceInv, LeaseOK, SettledOK, OneDispatcherPerIntent
  <2> QED
    BY <2>1, <2>2 DEF OnceInv, StoredOK, CancelledOK, UndoOK, UndoneStaysUndone, owning
<1>8. ASSUME NEW i \in Intents, Lapse(i) PROVE OnceInv'
  <2>1. /\ claimedAt' = [claimedAt EXCEPT ![i] = "lapsed"]
        /\ UNCHANGED <<status, owning, withdrawn, batch>>
        /\ lapses \in Nat /\ (lapses' = 0 => lapses = 0 /\ ~InHand(i))
    BY <1>8 DEF DispatchTypeInv, DispatchTypeOK, Lapse, dispatcher
  <2>2. LeaseOK'
    BY <2>1 DEF DispatchTypeInv, DispatchTypeOK, OnceInv, LeaseOK, InHand
  <2> QED
    BY <2>1, <2>2 DEF OnceInv, StoredOK, SettledOK, CancelledOK, UndoOK,
       OneDispatcherPerIntent, UndoneStaysUndone, owning
<1>9. CASE UNCHANGED dispatchVars
  BY <1>9, OnceKept DEF dispatchVars, intentRows, dispatcher, dispatchBounds
<1> QED
  BY <1>1, <1>2, <1>3, <1>4, <1>5, <1>6, <1>7, <1>8, <1>9, DispatchCases

\* The dispatchers' repetitions never show: one effect for a command, none once
\* its undo ran, one dispatcher per intent while leases hold.
THEOREM EffectOnce == DispatchSpec => []ExecutedOnce
<1>1. DispatchInit => TruthInv /\ OnceInv
  BY IntentsOfAStep
     DEF DispatchInit, TruthInv, RecordedOK, ExecutedMeansRan, ParkedOnlyAfterBudget,
         OnceInv,
     StoredOK, LeaseOK, SettledOK, CancelledOK, UndoOK, OneDispatcherPerIntent, UndoneStaysUndone
<1>2. OnceInv => ExecutedOnce
  BY DEF OnceInv, StoredOK, ExecutedOnce, EffectAtMostOnce
<1>3. DispatchSpec => []DispatchTypeInv
  BY DispatchTypeCorrect, PTL DEF DispatchTypeInv
<1> QED
  BY <1>1, <1>2, <1>3, TruthStep, OnceStep, PTL DEF DispatchSpec
=============================================================================
