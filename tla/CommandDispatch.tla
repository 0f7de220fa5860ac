--------------------------- MODULE CommandDispatch ---------------------------
(***************************************************************************)
(* Recorded cross-context commands and the dispatcher that executes them.  *)
(*                                                                         *)
(* A process-manager step records a create command in saga_intents         *)
(* (sagas/onboard.py); a compensation withdraws it, or records the delete  *)
(* command when it is no longer pending.  Dispatchers claim pending        *)
(* intents under a lease and run the owning context's handler              *)
(* (scheduling/command_dispatch.py).  The handler commits its own effect   *)
(* (commit_create, or the delete handler's own commit); the intent's new   *)
(* status is a second transaction after it.                                *)
(***************************************************************************)
EXTENDS Integers, Sequences, FiniteSets

CONSTANTS
    DelegatingSteps,       \* delegating steps: each owns one create and one undo key
    Dispatchers,           \* dispatcher processes (several during a deploy)
    BatchSize,             \* settings.intent_dispatch_batch_size
    IntentMaxAttempts,     \* settings.intent_max_attempts
    MaxFaults,             \* bound: handlers and commits that raise
    MaxDispatcherCrashes,  \* bound: dispatcher deaths
    MaxLapses              \* bound: leases that run out under a live dispatcher

ASSUME DispatchAssumption ==
    /\ BatchSize \in Nat \ {0}
    /\ IntentMaxAttempts \in Nat \ {0}
    /\ MaxFaults \in Nat
    /\ MaxDispatcherCrashes \in Nat
    /\ MaxLapses \in Nat

\* intent_key: a step's command is keyed by its step number, the command that
\* undoes it by the step number plus COMPENSATION_STEP_OFFSET.
Create(s) == <<s, "create">>
Undo(s) == <<s, "undo">>
Intents == DelegatingSteps \X {"create", "undo"}
NoIntent == <<>>

VARIABLES
    \* write_shared.saga_intents
    rows,       \* recorded intents, in id order
    status,     \* the status column ("none": not recorded)
    attempts,   \* the attempts column
    claimedAt,  \* "null", "leased", "lapsed"
    \* the owning context
    effect,     \* the row the create command inserts exists
    stored,     \* write_shared.idempotency_keys holds the create command's key
    ran,        \* history: intents whose handler committed at least once
    created,    \* history: how often the create handler inserted its row
    \* the process manager
    withdrawn,  \* steps it compensated
    \* each dispatcher's run_once
    pc, batch, cur,
    \* what is left of the bounds
    faults, dispatcherCrashes, lapses

intentRows == <<rows, status, attempts, claimedAt>>
owning == <<effect, stored, ran, created>>
dispatcher == <<pc, batch, cur>>
dispatchBounds == <<faults, dispatcherCrashes, lapses>>
dispatchVars == <<intentRows, owning, withdrawn, dispatcher, dispatchBounds>>

\* Every column and every local of run_once holds what the code can put there;
\* in particular the status column never holds "failed", which claim_pending
\* also looks for.
DispatchTypeOK ==
    /\ rows \in Seq(Intents)
    /\ status \in [Intents ->
          {"none", "pending", "executed", "parked", "cancelled"}]
    /\ attempts \in [Intents -> Nat]
    /\ claimedAt \in [Intents -> {"null", "leased", "lapsed"}]
    /\ effect \in [DelegatingSteps -> BOOLEAN]
    /\ stored \in [DelegatingSteps -> BOOLEAN]
    /\ ran \in SUBSET Intents
    /\ created \in [DelegatingSteps -> Nat]
    /\ withdrawn \in SUBSET DelegatingSteps
    /\ pc \in [Dispatchers -> {"idle", "claimed", "run", "ran", "failed"}]
    /\ batch \in [Dispatchers -> SUBSET Intents]
    /\ cur \in [Dispatchers -> Intents \cup {NoIntent}]
    /\ faults \in 0 .. MaxFaults
    /\ dispatcherCrashes \in 0 .. MaxDispatcherCrashes
    /\ lapses \in 0 .. MaxLapses

DispatchInit ==
    /\ rows = << >>
    /\ status = [i \in Intents |-> "none"]
    /\ attempts = [i \in Intents |-> 0]
    /\ claimedAt = [i \in Intents |-> "null"]
    /\ effect = [s \in DelegatingSteps |-> FALSE]
    /\ stored = [s \in DelegatingSteps |-> FALSE]
    /\ ran = {}
    /\ created = [s \in DelegatingSteps |-> 0]
    /\ withdrawn = {}
    /\ pc = [d \in Dispatchers |-> "idle"]
    /\ batch = [d \in Dispatchers |-> {}]
    /\ cur = [d \in Dispatchers |-> NoIntent]
    /\ faults = 0
    /\ dispatcherCrashes = 0
    /\ lapses = 0

-----------------------------------------------------------------------------
(***************************************************************************)
(* The process manager's side.                                             *)
(***************************************************************************)

\* SagaIntentRepository.record, committed.
RecordIntent(i) ==
    /\ rows' = Append(rows, i)
    /\ status' = [status EXCEPT ![i] = "pending"]
    /\ UNCHANGED <<attempts, claimedAt>>

\* CreateCareScheduleStep.act, CreateOnboardingNotificationStep.act
Delegate(s) ==
    /\ status[Create(s)] = "none"
    /\ RecordIntent(Create(s))
    /\ UNCHANGED <<owning, withdrawn, dispatcher, dispatchBounds>>

\* cancel_pending looks at the status column only, not at the lease.
Cancel(i) ==
    /\ status' = [status EXCEPT ![i] = "cancelled"]
    /\ claimedAt' = [claimedAt EXCEPT ![i] = "null"]
    /\ UNCHANGED <<rows, attempts>>

\* withdraw: cancel the recorded command, or record the command that undoes it.
Withdraw(s) ==
    /\ status[Create(s)] # "none"
    /\ s \notin withdrawn
    /\ withdrawn' = withdrawn \cup {s}
    /\ \/ status[Create(s)] = "pending" /\ Cancel(Create(s))
       \/ status[Create(s)] # "pending" /\ RecordIntent(Undo(s))
    /\ UNCHANGED <<owning, dispatcher, dispatchBounds>>

-----------------------------------------------------------------------------
(***************************************************************************)
(* The dispatcher's side.                                                  *)
(***************************************************************************)

\* Mutant: a lease that is never taken over.
LeaseOnlyNull(i) == claimedAt[i] = "null"

LeaseExpired(i) == claimedAt[i] # "leased"

\* claim_pending also accepts the status "failed", which nothing ever stores.
Claimable(i) == status[i] = "pending" /\ LeaseExpired(i)

\* ORDER BY id LIMIT n
OldestClaimable(n) ==
    LET idx == {k \in 1 .. Len(rows) : Claimable(rows[k])}
    IN {rows[k] : k \in {k \in idx : Cardinality({h \in idx : h < k}) < n}}

\* claim_pending and the commit that follows it at once.
Claim(d) ==
    /\ pc[d] = "idle"
    /\ OldestClaimable(BatchSize) # {}
    /\ batch' = [batch EXCEPT ![d] = OldestClaimable(BatchSize)]
    /\ claimedAt' = [i \in Intents |->
                        IF i \in OldestClaimable(BatchSize) THEN "leased"
                        ELSE claimedAt[i]]
    /\ pc' = [pc EXCEPT ![d] = "claimed"]
    /\ UNCHANGED <<rows, status, attempts, owning, withdrawn, cur, dispatchBounds>>

\* The next claim of the loop; the status is not read again.
Take(d) ==
    /\ pc[d] = "claimed"
    /\ \E i \in batch[d] : cur' = [cur EXCEPT ![d] = i]
    /\ pc' = [pc EXCEPT ![d] = "run"]
    /\ UNCHANGED <<intentRows, owning, withdrawn, batch, dispatchBounds>>

\* Mutant: the create handler forgets the idempotency record.
CreateHandlerForgets(s) ==
    /\ effect' = [effect EXCEPT ![s] = TRUE]
    /\ created' = [created EXCEPT ![s] = created[s] + 1]
    /\ UNCHANGED stored

\* The create handlers, through commit_create: the row and the stored response in
\* one transaction; a repeated key, found or lost the race to, replays the stored
\* response.
CreateHandler(s) ==
    \/ stored[s] /\ UNCHANGED <<effect, stored, created>>
    \/ /\ ~stored[s]
       /\ effect' = [effect EXCEPT ![s] = TRUE]
       /\ stored' = [stored EXCEPT ![s] = TRUE]
       /\ created' = [created EXCEPT ![s] = created[s] + 1]

\* The delete handlers: remove the row if it is there.
DeleteHandler(s) ==
    /\ effect' = [effect EXCEPT ![s] = FALSE]
    /\ UNCHANGED <<stored, created>>

\* handler.handle(command) returns; its effect is committed.
Handle(d) ==
    /\ pc[d] = "run"
    /\ \/ cur[d][2] = "create" /\ CreateHandler(cur[d][1])
       \/ cur[d][2] = "undo" /\ DeleteHandler(cur[d][1])
    /\ ran' = ran \cup {cur[d]}
    /\ pc' = [pc EXCEPT ![d] = "ran"]
    /\ UNCHANGED <<intentRows, withdrawn, batch, cur, dispatchBounds>>

\* The command is unknown, its payload no longer fits or its handler raises, with
\* nothing committed; or the commit of the mark raises after the handler's own
\* commit. Each is rolled back and counted.
Raise(d) ==
    /\ pc[d] \in {"run", "ran"}
    /\ faults < MaxFaults
    /\ faults' = faults + 1
    /\ pc' = [pc EXCEPT ![d] = "failed"]
    /\ UNCHANGED <<intentRows, owning, withdrawn, batch, cur, dispatcherCrashes, lapses>>

NextClaim(d) ==
    /\ batch' = [batch EXCEPT ![d] = batch[d] \ {cur[d]}]
    /\ cur' = [cur EXCEPT ![d] = NoIntent]
    /\ pc' = [pc EXCEPT ![d] = IF batch[d] \ {cur[d]} = {} THEN "idle"
                               ELSE "claimed"]
    /\ claimedAt' = [claimedAt EXCEPT ![cur[d]] = "null"]
    /\ UNCHANGED <<rows, owning, withdrawn, dispatchBounds>>

\* mark_executed and its commit: by id, whatever the status is by now.
MarkExecuted(d) ==
    /\ pc[d] = "ran"
    /\ status' = [status EXCEPT ![cur[d]] = "executed"]
    /\ UNCHANGED attempts
    /\ NextClaim(d)

\* Mutant: the budget is compared with the count before this failure.
MarkFailedOffByOne(d) ==
    /\ pc[d] = "failed"
    /\ attempts' = [attempts EXCEPT ![cur[d]] = attempts[cur[d]] + 1]
    /\ status' = [status EXCEPT ![cur[d]] =
                     IF attempts[cur[d]] + 2 >= IntentMaxAttempts THEN "parked"
                     ELSE status[cur[d]]]
    /\ NextClaim(d)

\* Counts, releases the claim, parks at the budget. Below the budget the status
\* column keeps its value.
mark_failed(i) ==
    /\ attempts' = [attempts EXCEPT ![i] = @ + 1]
    /\ status' = [status EXCEPT ![i] = IF attempts[i] + 1 >= IntentMaxAttempts THEN "parked" ELSE @]

\* _record_failure: in a transaction of its own, after the rollback.
MarkFailed(d) ==
    /\ pc[d] = "failed"
    /\ mark_failed(cur[d])
    /\ NextClaim(d)

\* The dispatcher dies, or recording the failure raises out of the tick.
DispatcherCrash(d) ==
    /\ pc[d] # "idle"
    /\ dispatcherCrashes < MaxDispatcherCrashes
    /\ dispatcherCrashes' = dispatcherCrashes + 1
    /\ batch' = [batch EXCEPT ![d] = {}]
    /\ cur' = [cur EXCEPT ![d] = NoIntent]
    /\ pc' = [pc EXCEPT ![d] = "idle"]
    /\ UNCHANGED <<intentRows, owning, withdrawn, faults, lapses>>

InHand(i) == \E d \in Dispatchers : i \in batch[d]

\* Time: a lease becomes older than intent_claim_lease_seconds.
Lapse(i) ==
    /\ claimedAt[i] = "leased"
    /\ \/ ~InHand(i) /\ lapses' = lapses
       \/ InHand(i) /\ lapses < MaxLapses /\ lapses' = lapses + 1
    /\ claimedAt' = [claimedAt EXCEPT ![i] = "lapsed"]
    /\ UNCHANGED <<rows, status, attempts, owning, withdrawn, dispatcher,
                   faults, dispatcherCrashes>>

-----------------------------------------------------------------------------

ProcessStep(s) == Delegate(s) \/ Withdraw(s)

DispatcherStep(d) ==
    \/ Claim(d)
    \/ Take(d)
    \/ Handle(d)
    \/ Raise(d)
    \/ MarkExecuted(d)
    \/ MarkFailed(d)

DispatchNext ==
    \/ \E s \in DelegatingSteps : ProcessStep(s)
    \/ \E d \in Dispatchers : DispatcherStep(d)
    \/ \E d \in Dispatchers : DispatcherCrash(d)
    \/ \E i \in Intents : Lapse(i)

DispatchSpec == DispatchInit /\ [][DispatchNext]_dispatchVars

\* The dispatcher ticks for ever at a fixed interval; a lease nobody releases
\* runs out.  Nothing is assumed of the process manager.
Fairness ==
    /\ \A d \in Dispatchers : WF_dispatchVars(DispatcherStep(d))
    /\ \A i \in Intents : WF_dispatchVars(Lapse(i))

DispatchFairSpec == DispatchSpec /\ Fairness

-----------------------------------------------------------------------------
(***************************************************************************)
(* Properties.                                                             *)
(***************************************************************************)

\* A recorded command produces its effect at most once, however often the
\* dispatchers run it: after a crash between the effect and the mark, after a
\* failed mark, and when two dispatchers hold the same intent.
EffectAtMostOnce == \A s \in DelegatingSteps : created[s] =< 1

\* An intent that looks done is done: "executed" is never reached by an intent
\* whose handler did not commit.
ExecutedMeansRan == \A i \in Intents : status[i] = "executed" => i \in ran

\* Only intent_max_attempts counted failures park an intent.
ParkedOnlyAfterBudget ==
    \A i \in Intents : status[i] = "parked" => attempts[i] >= IntentMaxAttempts

\* An undo that has run wins: the row does not come back, as long as no lease
\* ran out under a dispatcher still executing the create.
UndoneStaysUndone ==
    \A s \in DelegatingSteps : lapses = 0 /\ Undo(s) \in ran => ~effect[s]

\* One dispatcher per intent, until a lease runs out under a live dispatcher or
\* a compensation releases it.
OneDispatcherPerIntent ==
    lapses = 0 => \A d, e \in Dispatchers : d # e => batch[d] \cap batch[e] = {}

\* Every recorded command is executed, parked or withdrawn in the end.
EventuallyDecided ==
    \A i \in Intents : status[i] = "pending" ~> status[i] # "pending"

\* The dispatcher repeats what it cannot know was done, and the repetition shows
\* nowhere: one effect for a command, none once its undo ran, and one dispatcher
\* per intent while leases hold.
ExecutedOnce == EffectAtMostOnce /\ UndoneStaysUndone /\ OneDispatcherPerIntent

\* What the intents table says is so: its columns have their types, "executed"
\* means the handler committed and "parked" that the budget is spent.
StatusesTellTheTruth == DispatchTypeOK /\ ExecutedMeansRan /\ ParkedOnlyAfterBudget

\* A cancelled command leaves nothing.  ports/saga_intents.py:50-54 says of it
\* "Withdrawn by the process that recorded it, before it ever ran ... the effect
\* never happens, so there is nothing to undo".  cancel_pending asks for the
\* status alone, and a command is pending from the moment it is recorded until it
\* is marked, also while a dispatcher runs its handler and after the handler
\* committed; no undo is recorded for it, and the row stays.
CancelledLeavesNothing ==
    \A s \in DelegatingSteps : status[Create(s)] = "cancelled" => ~effect[s]

\* An intent whose effect is committed is marked, unless a dispatcher is about to.
\* command_dispatch.py:112-115 says "The handler commits the effect *and* the
\* intent's new status together ... part of that transaction rather than a second
\* one"; the handler's own commit ends its transaction, and a dispatcher that dies
\* or fails before the second one leaves an executed command pending.
EffectWithStatus ==
    \A i \in ran : InHand(i) \/ status[i] = "executed"
=============================================================================
