---------------------------- MODULE SagaRecovery ----------------------------
(***************************************************************************)
(* The onboarding saga from PlantAdded to its end: the consumer that       *)
(* dispatches it, the steps with their own transactions, the engine's      *)
(* checkpoints in saga_state and saga_log, compensation, and the job that  *)
(* resumes crashed sagas, retries failed ones and parks those whose budget *)
(* is spent.  One saga: its identity is the plant's, and runs of different *)
(* sagas share no state.                                                   *)
(*                                                                         *)
(* The engine is python-cqrs.  What is assumed of it is what src/ says: it *)
(* checkpoints after every step, skips the steps its log holds, compensates*)
(* the completed ones in reverse, refuses to run a failed saga forward and *)
(* counts a failed recovery.  Whether it runs a compensated step again is  *)
(* not said, so both are modelled (reruns).  A run is not raced by its own *)
(* recovery: saga_recovery_stale_after_seconds exceeds a step's time.      *)
(***************************************************************************)
EXTENDS Naturals, FiniteSets, FiniteSetsExt

CONSTANTS
    MaxAttempts,    \* Settings.saga_recovery_max_attempts
    MaxFailures,    \* bound: steps that raise
    MaxCrashes,     \* bound: processes that die
    MaxResets,      \* bound: operators that reset a parked saga
    MaxReplays      \* bound: rebuilt consumer groups

ASSUME ConstantsAssumption ==
    /\ MaxAttempts \in Nat /\ MaxFailures \in Nat /\ MaxCrashes \in Nat
    /\ MaxResets \in Nat /\ MaxReplays \in Nat

VARIABLES
    claimed,    \* processed_events holds the delivery of PlantAdded
    saga,       \* write_shared.saga_state, with the context's two flags
    acted,      \* saga_log: steps with a completed act
    undone,     \* saga_log: steps with a completed compensate since
    intents,    \* write_shared.saga_intents of steps 2 and 3
    undo,       \* steps whose undo command is recorded
    events,     \* the saga's events in the outbox, counted by type
    run,        \* the process that runs the saga
    reruns,     \* whether the engine acts again on a compensated step
    torn,       \* history: a process died between a step and its checkpoint
    everUndone, \* history: some step was compensated
    silent,     \* history: parkings whose job died before it announced them
    failures, crashes, resets, replays

tables == <<claimed, saga, acted, undone, intents, undo, events>>
history == <<reruns, torn, everUndone, silent>>
bounds == <<failures, crashes, resets, replays>>
vars == <<tables, run, history, bounds>>

Steps == 1 .. 4
Recorded == {2, 3}   \* STEP_CARE_SCHEDULE and STEP_NOTIFICATION
PARK_MARGIN == 1
Status == {"none", "pending", "running", "compensating", "failed", "completed"}
EventTypes == {"SagaStarted", "SagaCompleted", "SagaFailed", "SagaCompensated",
               "SagaRetrying", "SagaParked", "PlantOnboarded"}

\* flags: the steps whose context flag (care_schedule_created, notification_id) is set.
OnboardPlantContext == SUBSET Recorded
SagaStateModel == [status : Status, attempts : Nat, flags : OnboardPlantContext]
SagaIntent == {"none", "pending", "executed", "cancelled"}

NoRun == [by |-> "nobody", pc |-> "idle", done |-> {}, step |-> 0, flags |-> {}]

Init ==
    /\ claimed = FALSE
    /\ saga = [status |-> "none", attempts |-> 0, flags |-> {}]
    /\ acted = {} /\ undone = {}
    /\ intents = [k \in Recorded |-> "none"] /\ undo = {}
    /\ events = [t \in EventTypes |-> 0]
    /\ run = NoRun
    /\ reruns \in BOOLEAN /\ torn = FALSE /\ everUndone = FALSE /\ silent = 0
    /\ failures = MaxFailures /\ crashes = MaxCrashes
    /\ resets = MaxResets /\ replays = MaxReplays

Announce(types) == events' = [t \in EventTypes |-> IF t \in types THEN events[t] + 1 ELSE events[t]]

Goto(pc) == run' = [run EXCEPT !.pc = pc]

-----------------------------------------------------------------------------
(* Saga.handle_event, called inside consume_once with the claim staged. *)

\* A saga that is new: SagaStarted, and the claim, are committed first.
StartSaga ==
    /\ run = NoRun /\ ~claimed /\ saga.status = "none"
    /\ claimed' = TRUE
    /\ Announce({"SagaStarted"})
    /\ run' = [NoRun EXCEPT !.by = "consumer", !.pc = "create"]
    /\ UNCHANGED <<saga, acted, undone, intents, undo, history, bounds>>

\* A replayed trigger: a completed saga is left alone and only claimed; any other
\* is dispatched, and the engine decides from its status.
ReplayTrigger ==
    /\ run = NoRun /\ ~claimed /\ saga.status # "none"
    /\ IF saga.status = "completed"
         THEN claimed' = TRUE /\ UNCHANGED run
         ELSE /\ run' = [NoRun EXCEPT !.by = "consumer", !.pc = "load"]
              /\ UNCHANGED claimed
    /\ UNCHANGED <<saga, acted, undone, intents, undo, events, history, bounds>>

\* A group rebuilt with a fresh ledger sees PlantAdded again.
RebuildGroup ==
    /\ claimed /\ replays > 0 /\ run = NoRun
    /\ replays' = replays - 1 /\ claimed' = FALSE
    /\ UNCHANGED <<saga, acted, undone, intents, undo, events, run, history, failures, crashes, resets>>

-----------------------------------------------------------------------------
(* The engine's run over the storage. *)

create_saga ==
    /\ run.pc = "create"
    /\ saga' = [saga EXCEPT !.status = "pending"]
    /\ Goto("pending")
    /\ UNCHANGED <<claimed, acted, undone, intents, undo, events, history, bounds>>

\* The bound run's commit carries the delivery's claim.
Claims == claimed' = (claimed \/ run.by = "consumer")

BeginSteps ==
    /\ run.pc = "pending"
    /\ saga' = [saga EXCEPT !.status = "running"]
    /\ Claims
    /\ Goto("next")
    /\ UNCHANGED <<acted, undone, intents, undo, events, history, bounds>>

Restored == IF reruns THEN acted \ undone ELSE acted

\* A stored saga: the log says which steps are done.
LoadSaga ==
    /\ run.pc = "load"
    /\ run' = CASE saga.status \in {"pending", "running"} ->
                     [run EXCEPT !.pc = IF saga.status = "pending" THEN "pending" ELSE "next",
                                 !.done = Restored, !.flags = saga.flags]
                [] saga.status = "compensating" ->
                     [run EXCEPT !.pc = "undo", !.done = acted \ undone, !.flags = saga.flags]
                [] saga.status = "failed" -> [run EXCEPT !.pc = "refused"]
    /\ UNCHANGED <<tables, history, bounds>>

NextStep == Min(Steps \ run.done)

record(k) == intents' = [intents EXCEPT ![k] = "pending"]

\* record is an insert: the key of the saga and step is unique, whatever became
\* of the command that holds it.
KeyTaken(k) == k \in Recorded /\ intents[k] # "none"

\* PublishPlantOnboardedStep refuses without a recorded schedule command.
Refuses(k) == k = 4 /\ 2 \notin run.flags

\* The step's own transaction commits its effect; the claim travels with it.
StepCommits(k) ==
    /\ IF k \in Recorded THEN record(k) ELSE UNCHANGED intents
    /\ IF k = 4 THEN Announce({"PlantOnboarded"}) ELSE UNCHANGED events
    /\ Claims

Act ==
    /\ run.pc = "next" /\ run.done # Steps
    /\ ~KeyTaken(NextStep) /\ ~Refuses(NextStep)
    /\ StepCommits(NextStep)
    /\ run' = [run EXCEPT !.pc = "acted", !.step = NextStep,
                          !.flags = IF NextStep \in Recorded THEN @ \cup {NextStep} ELSE @]
    /\ UNCHANGED <<saga, acted, undone, undo, history, bounds>>

\* The species is not in the catalogue, the key is taken, the schedule was never
\* recorded or the database fails: the staged work goes with the log entry.
ActFails ==
    /\ run.pc = "next" /\ run.done # Steps
    /\ \/ failures > 0 /\ failures' = failures - 1
       \/ (KeyTaken(NextStep) \/ Refuses(NextStep)) /\ UNCHANGED failures
    /\ Goto("roll back")
    /\ UNCHANGED <<tables, history, crashes, resets, replays>>

\* log_step, update_context, commit: a transaction after the step's own.
Checkpoint ==
    /\ run.pc = "acted"
    /\ acted' = acted \cup {run.step} /\ undone' = undone \ {run.step}
    /\ saga' = [saga EXCEPT !.flags = run.flags]
    /\ run' = [run EXCEPT !.pc = "next", !.done = @ \cup {run.step}]
    /\ UNCHANGED <<claimed, intents, undo, events, history, bounds>>

CompleteSaga ==
    /\ run.pc = "next" /\ run.done = Steps
    /\ saga' = [saga EXCEPT !.status = "completed"]
    /\ Claims
    /\ run' = IF run.by = "consumer" THEN [run EXCEPT !.pc = "announce"] ELSE NoRun
    /\ UNCHANGED <<acted, undone, intents, undo, events, history, bounds>>

\* Only the dispatch announces the end; a recovered saga completes silently.
AnnounceCompleted ==
    /\ run.pc = "announce"
    /\ Announce({"SagaCompleted"}) /\ Claims
    /\ run' = NoRun
    /\ UNCHANGED <<saga, acted, undone, intents, undo, history, bounds>>

-----------------------------------------------------------------------------
(* Compensation *)

BeginCompensation ==
    /\ run.pc = "roll back"
    /\ saga' = [saga EXCEPT !.status = "compensating"]
    /\ Claims
    /\ Goto("undo")
    /\ UNCHANGED <<acted, undone, intents, undo, events, history, bounds>>

LastDone == Max(run.done)

\* Mutant: a command that was executed is left alone.
withdraw_pending_only(k) ==
    /\ intents' = [intents EXCEPT ![k] = IF @ = "pending" THEN "cancelled" ELSE @]
    /\ UNCHANGED undo

\* cancel_pending, or the undo command when there is nothing left to cancel.
withdraw(k) ==
    IF intents[k] = "pending"
    THEN intents' = [intents EXCEPT ![k] = "cancelled"] /\ UNCHANGED undo
    ELSE undo' = undo \cup {k} /\ UNCHANGED intents

\* A step whose context flag is not set wrote nothing.
Compensate ==
    /\ run.pc = "undo" /\ run.done # {}
    /\ LastDone \in undo => LastDone \notin run.flags
    /\ IF LastDone \in run.flags THEN withdraw(LastDone) ELSE UNCHANGED <<intents, undo>>
    /\ run' = [run EXCEPT !.pc = "undone", !.step = LastDone, !.flags = @ \ {LastDone}]
    /\ everUndone' = (everUndone \/ LastDone \in run.flags)
    /\ UNCHANGED <<claimed, saga, acted, undone, events, reruns, torn, silent, bounds>>

\* The undo's key is taken: the compensation raises and the engine goes on.
CompensateFails ==
    /\ run.pc = "undo" /\ run.done # {}
    /\ LastDone \in undo /\ LastDone \in run.flags
    /\ run' = [run EXCEPT !.done = @ \ {LastDone}]
    /\ UNCHANGED <<tables, history, bounds>>

LogCompensated ==
    /\ run.pc = "undone"
    /\ undone' = undone \cup {run.step}
    /\ run' = [run EXCEPT !.pc = "undo", !.done = @ \ {run.step}]
    /\ UNCHANGED <<claimed, saga, acted, intents, undo, events, history, bounds>>

\* The engine's last commit, and then the raise.
EndCompensation ==
    /\ run.pc = "undo" /\ run.done = {}
    /\ saga' = [saga EXCEPT !.status = "failed"]
    /\ Claims
    /\ Goto("refused")
    /\ UNCHANGED <<acted, undone, intents, undo, events, history, bounds>>

\* _record_failure: the commit makes the claim durable too.
RecordFailure ==
    /\ run.pc = "refused" /\ run.by = "consumer"
    /\ Announce({"SagaFailed"} \cup (IF undone # {} THEN {"SagaCompensated"} ELSE {}))
    /\ claimed' = TRUE
    /\ run' = NoRun
    /\ UNCHANGED <<saga, acted, undone, intents, undo, history, bounds>>

-----------------------------------------------------------------------------
(* SagaRecoveryJob *)

\* Mutant: the recovery that failed is not counted.
increment_not_counted ==
    /\ run.pc = "refused" /\ run.by = "job"
    /\ saga' = [saga EXCEPT !.status = "failed"]
    /\ run' = NoRun
    /\ UNCHANGED <<claimed, acted, undone, intents, undo, events, history, bounds>>

increment_recovery_attempts ==
    /\ run.pc = "refused" /\ run.by = "job"
    /\ saga' = [saga EXCEPT !.status = "failed", !.attempts = @ + 1]
    /\ run' = NoRun
    /\ UNCHANGED <<claimed, acted, undone, intents, undo, events, history, bounds>>

\* Mutant: the query is given the budget itself.
get_sagas_for_recovery_no_margin ==
    saga.status \in {"running", "compensating", "failed"} /\ saga.attempts < MaxAttempts

get_sagas_for_recovery ==
    /\ saga.status \in {"running", "compensating", "failed"}
    /\ saga.attempts < MaxAttempts + PARK_MARGIN

BudgetSpent == saga.attempts >= MaxAttempts

Resume ==
    /\ run = NoRun /\ get_sagas_for_recovery /\ saga.status # "failed"
    /\ run' = [NoRun EXCEPT !.by = "job", !.pc = "load"]
    /\ UNCHANGED <<tables, history, bounds>>

\* _announce_retry commits, and the status is cleared in a transaction of its own.
AnnounceRetry ==
    /\ run = NoRun /\ get_sagas_for_recovery /\ saga.status = "failed" /\ ~BudgetSpent
    /\ Announce({"SagaRetrying"})
    /\ run' = [NoRun EXCEPT !.by = "job", !.pc = "retry"]
    /\ UNCHANGED <<claimed, saga, acted, undone, intents, undo, history, bounds>>

ClearStatus ==
    /\ run.pc = "retry"
    /\ saga' = [saga EXCEPT !.status = "running"]
    /\ Goto("load")
    /\ UNCHANGED <<claimed, acted, undone, intents, undo, events, history, bounds>>

\* _park: set_recovery_attempts commits in a session of its own ...
ParkCounter ==
    /\ run = NoRun /\ get_sagas_for_recovery /\ saga.status = "failed" /\ BudgetSpent
    /\ saga' = [saga EXCEPT !.attempts = @ + PARK_MARGIN]
    /\ run' = [NoRun EXCEPT !.by = "job", !.pc = "park"]
    /\ UNCHANGED <<claimed, acted, undone, intents, undo, events, history, bounds>>

\* ... and the announcement is committed by the unit of work after it.
ParkAnnounce ==
    /\ run.pc = "park"
    /\ Announce({"SagaParked"})
    /\ run' = NoRun
    /\ UNCHANGED <<claimed, saga, acted, undone, intents, undo, history, bounds>>

\* An operator's lever on a parked saga.
reset_for_retry ==
    /\ run = NoRun /\ saga.status = "failed" /\ saga.attempts > MaxAttempts /\ resets > 0
    /\ resets' = resets - 1
    /\ saga' = [saga EXCEPT !.status = "running", !.attempts = 0]
    /\ UNCHANGED <<claimed, acted, undone, intents, undo, events, run, history, failures, crashes, replays>>

-----------------------------------------------------------------------------
\* The process dies; whatever it had not committed is gone.
Crash ==
    /\ run # NoRun /\ crashes > 0
    /\ crashes' = crashes - 1
    /\ torn' = (torn \/ run.pc \in {"acted", "undone"})
    /\ silent' = IF run.pc = "park" THEN silent + 1 ELSE silent
    /\ run' = NoRun
    /\ UNCHANGED <<tables, reruns, everUndone, failures, resets, replays>>

\* The dispatcher executes a recorded command (CommandDispatch).
Dispatch(k) ==
    /\ intents[k] = "pending"
    /\ intents' = [intents EXCEPT ![k] = "executed"]
    /\ UNCHANGED <<claimed, saga, acted, undone, undo, events, run, history, bounds>>

EngineStep ==
    \/ create_saga \/ BeginSteps \/ LoadSaga \/ Act \/ ActFails \/ Checkpoint
    \/ CompleteSaga \/ AnnounceCompleted
    \/ BeginCompensation \/ Compensate \/ CompensateFails \/ LogCompensated \/ EndCompensation
    \/ RecordFailure

JobStep ==
    \/ Resume \/ AnnounceRetry \/ ClearStatus \/ ParkCounter \/ ParkAnnounce
    \/ increment_recovery_attempts

Next ==
    \/ StartSaga \/ ReplayTrigger \/ RebuildGroup
    \/ EngineStep \/ JobStep
    \/ reset_for_retry \/ Crash
    \/ \E k \in Recorded : Dispatch(k)

Spec == Init /\ [][Next]_vars

\* A process that lives goes on, the topic redelivers, and the job ticks on its
\* interval whatever a tick raised.
FairSpec ==
    Spec /\ WF_vars(StartSaga) /\ WF_vars(ReplayTrigger) /\ WF_vars(EngineStep) /\ WF_vars(JobStep)

-----------------------------------------------------------------------------
(* Properties *)

Standing(k) == intents[k] \in {"pending", "executed"} /\ k \notin undo

\* The tables and the run have their types, and the log compensates only what
\* was acted on.
TypeOK ==
    /\ saga \in SagaStateModel /\ saga.attempts <= MaxAttempts + PARK_MARGIN
    /\ acted \subseteq Steps /\ undone \subseteq acted
    /\ intents \in [Recorded -> SagaIntent] /\ undo \subseteq Recorded
    /\ events \in [EventTypes -> Nat]
    /\ run.done \subseteq Steps /\ run.flags \subseteq Recorded

\* A saga that completed without ever rolling a step back has done its work:
\* both commands stand and PlantOnboarded was announced, although processes died
\* between steps and their checkpoints and other processes went on.
CompletedMeansDone ==
    (saga.status = "completed" /\ ~everUndone)
      => (\A k \in Recorded : Standing(k)) /\ events["PlantOnboarded"] > 0

\* PlantOnboarded is announced twice only for a process that died between the
\* step's transaction and its checkpoint.
OnboardedOnce == events["PlantOnboarded"] <= 1 \/ torn

\* A saga at rest in failed has withdrawn what it recorded: each command is
\* cancelled or its undo is recorded, unless a step was torn from its checkpoint.
NothingLeftBehind ==
    (saga.status = "failed" /\ run = NoRun /\ ~torn)
      => \A k \in Recorded : intents[k] # "none" => ~Standing(k)

\* The retry budget holds: what is retried, and announced as retried, is bounded
\* by the budget of every reset and the processes that died.
RetriesBounded ==
    events["SagaRetrying"] <= MaxAttempts * (1 + MaxResets - resets) + (MaxCrashes - crashes)

\* A recovered saga does not stay on its way: whoever dies, once the engine has
\* begun it, it ends completed or over its budget.
EventuallySettled ==
    (saga.status \in {"running", "compensating", "failed"})
      ~> \/ saga.status = "completed"
         \/ saga.status = "failed" /\ saga.attempts > MaxAttempts

Parkings == MaxResets - resets   \* that were reset since

\* Every parking is announced, the first one and those that follow a reset; one
\* goes unsaid only for a job that died between the counter's commit and the
\* announcement's, however many other processes died.
ParkedIsAnnounced ==
    (saga.attempts > MaxAttempts) ~> (events["SagaParked"] + silent > Parkings)

\* An onboarding is done as a whole or undone as a whole: completed means both
\* commands and one announcement, failed means nothing is left behind.
AllOrNothing == TypeOK /\ CompletedMeansDone /\ OnboardedOnce /\ NothingLeftBehind

\* What _park says of itself: the decision and the record of it cannot come apart.
ParkedWithRecord == (saga.attempts > MaxAttempts) ~> (events["SagaParked"] > Parkings)

\* What the process managers' requirements say of a process that is interrupted
\* without recording a failure: once its trigger is claimed it is resumed, and it
\* completes or is parked.
ClaimedIsCarriedOut ==
    claimed ~> \/ saga.status = "completed"
               \/ saga.status = "failed" /\ saga.attempts > MaxAttempts

\* What the documents say of a step's transaction: its effect and its checkpoint
\* are durable together or not at all, so a saga at rest in failed has withdrawn
\* every command it recorded.
StepsAreWhole ==
    (saga.status = "failed" /\ run = NoRun) => \A k \in Recorded : ~Standing(k)

\* Recovery comes to rest: a saga ends completed or parked, and a parked one has
\* been announced.
EventuallyAtRest == EventuallySettled /\ ParkedIsAnnounced
=============================================================================
