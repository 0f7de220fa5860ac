------------------------------ MODULE Species ------------------------------
(***************************************************************************)
(* The species catalogue: the synchronisation saga over the Trefle client, *)
(* its circuit breaker and its snapshot fallback, and the cache-aside read *)
(* of one species beside it.                                               *)
(*                                                                         *)
(* A species' names, interval and light are one value: the edition of the  *)
(* upstream catalogue they were taken from, 0 where there is none.  A      *)
(* logical GET and the retries inside it are one call, as the breaker sees *)
(* it.  The breaker's clock is read only to compare the time since it      *)
(* opened with reset_timeout, which is the flag `cooled`.                  *)
(*                                                                         *)
(* Of the saga's engine, what SagaRecovery assumes: it stores the context  *)
(* after an act and not after a compensation, and a retry either acts      *)
(* again on the steps it compensated or takes them as done.                *)
(***************************************************************************)
EXTENDS Naturals, FiniteSets, Sequences, FiniteSetsExt, SequencesExt

CONSTANTS
    Listing,            \* the species the upstream lists, in page order
    Syncs,              \* sagas that can run at a time: the consumer's, the recovery job's
    failure_threshold,  \* Settings.trefle_breaker_failure_threshold
    species_limit,      \* Settings.trefle_species_limit
    max_attempts,       \* Settings.saga_recovery_max_attempts
    MaxEdition,         \* bound: editions of the upstream catalogue
    MaxRequests,        \* bound: SpeciesSyncRequested
    MaxFailures,        \* bound: transactions that fail
    MaxCrashes          \* bound: worker processes that die

ASSUME ConstantsAssumption ==
    /\ Listing \in Seq(Range(Listing)) /\ species_limit \in Nat \ {0}
    /\ failure_threshold \in Nat \ {0} /\ max_attempts \in Nat
    /\ MaxEdition \in Nat \ {0} /\ MaxRequests \in Nat
    /\ MaxFailures \in Nat /\ MaxCrashes \in Nat

VARIABLES
    breaker,    \* the process's AsyncCircuitBreaker
    upstream,   \* the edition Trefle serves
    snapshot,   \* species:upstream:snapshot in Valkey
    rows,       \* write_catalog.species
    sync,       \* the synchronisation sagas
    requests,   \* SpeciesSyncRequested appended and not yet consumed
    queue,      \* invalidating events on their way to the cache's consumer
    cache,      \* species:<id> in Valkey
    reader,     \* GetSpecies queries past their cache miss, one a species
    streak,     \* history: calls that failed since the last that succeeded
    straggled,  \* history: a call outlived the breaker state that admitted it
    requested, failures, crashes

saga == <<sync, requests>>
readSide == <<cache, reader>>
history == <<streak, straggled>>
bounds == <<requested, failures, crashes>>
vars == <<breaker, upstream, snapshot, rows, saga, queue, readSide, history, bounds>>

SpeciesIds == Range(Listing)
Editions == 0 .. MaxEdition
SpeciesModel == [SpeciesIds -> Editions]
SpeciesRecord == [SpeciesIds -> Editions]
SpeciesSnapshot == [SpeciesIds -> Editions]
NoRecords == [x \in SpeciesIds |-> 0]
CircuitState == {"closed", "open", "half_open"}
AsyncCircuitBreaker ==
    [state : CircuitState, failures : 0 .. failure_threshold, trial : BOOLEAN, cooled : BOOLEAN]

Pc == {"idle", "get", "calling", "save", "fallback", "apply", "applied", "invalidate",
       "compensate", "compensated", "failed"}

Changes == [created : SUBSET SpeciesIds, updated : SpeciesSnapshot]
NoChanges == [created |-> {}, updated |-> NoRecords]

\* fetched, created and updated are the context in memory, stored what the last
\* checkpoint kept of the changes and from the step it left off at.  History:
\* before is what the saga's first Apply found, base whether anybody else wrote
\* the catalogue since, torn that a process died between Apply and its checkpoint.
SpeciesSyncContext ==
    [pc : Pc, at : 0 .. Len(Listing), trial : BOOLEAN, fetched : SpeciesRecord,
     created : SUBSET SpeciesIds, updated : SpeciesSnapshot, stored : Changes,
     from : {"get", "apply", "invalidate"}, attempts : 0 .. max_attempts,
     before : SpeciesModel, base : {"none", "alone", "shared"}, torn : BOOLEAN]

NewSync == [pc |-> "idle", at |-> 0, trial |-> FALSE, fetched |-> NoRecords,
            created |-> {}, updated |-> NoRecords, stored |-> NoChanges,
            from |-> "get", attempts |-> 0,
            before |-> NoRecords, base |-> "none", torn |-> FALSE]

\* view: the cached SpeciesView; excused is history, see StaleOnlyKnownWays.
CacheEntry == [view : Editions, excused : BOOLEAN]
NoEntry == [view |-> 0, excused |-> FALSE]

ClosedBreaker == [state |-> "closed", failures |-> 0, trial |-> FALSE, cooled |-> FALSE]

opened == [state |-> "open", failures |-> failure_threshold, trial |-> FALSE, cooled |-> FALSE]

\* A process that has made calls before.
Init ==
    /\ streak \in 0 .. failure_threshold
    /\ breaker = IF streak = failure_threshold THEN opened ELSE [ClosedBreaker EXCEPT !.failures = streak]
    /\ upstream = 1
    /\ snapshot = NoRecords
    /\ rows = NoRecords
    /\ sync = [s \in Syncs |-> NewSync]
    /\ requests = 0 /\ queue = [x \in SpeciesIds |-> 0]
    /\ cache = [x \in SpeciesIds |-> NoEntry]
    /\ reader = [x \in SpeciesIds |-> NoEntry]
    /\ straggled = FALSE
    /\ requested = MaxRequests /\ failures = MaxFailures /\ crashes = MaxCrashes

-----------------------------------------------------------------------------
(* AsyncCircuitBreaker *)

\* The reset timeout elapses.
Cool ==
    /\ breaker.state = "open" /\ ~breaker.cooled
    /\ breaker' = [breaker EXCEPT !.cooled = TRUE]
    /\ UNCHANGED <<upstream, snapshot, rows, saga, queue, readSide, history, bounds>>

effective_state == IF breaker.state = "open" /\ breaker.cooled THEN "half_open" ELSE breaker.state

\* Mutant: a trial in flight does not stop the next one.
admits_any_trial == effective_state # "open"

admits == effective_state = "closed" \/ (effective_state = "half_open" /\ ~breaker.trial)

\* The stored state keeps the promotion also when the trial is refused.
before_call == breaker' = [breaker EXCEPT !.state = effective_state,
                                          !.trial = breaker.trial \/ (admits /\ effective_state = "half_open")]

record_success == ClosedBreaker

record_failure ==
    IF breaker.state = "half_open" \/ breaker.failures + 1 >= failure_threshold
    THEN opened
    ELSE [breaker EXCEPT !.trial = FALSE, !.failures = @ + 1]

TrialsOf(procs) == {s \in Syncs : procs[s].pc = "calling" /\ procs[s].trial}

\* History: a call admitted while closed ends when the breaker no longer is, or
\* a trial when it is no longer the trial; forgotten with the last trial.
Straggles(s) ==
    straggled' = /\ straggled \/ (sync[s].trial # (breaker.state = "half_open"))
                 /\ TrialsOf(sync') # {}

Succeeds(s) == breaker' = record_success /\ streak' = 0 /\ Straggles(s)

Fails(s) ==
    /\ breaker' = record_failure
    /\ streak' = Min({streak + 1, failure_threshold})
    /\ Straggles(s)

-----------------------------------------------------------------------------
(* TrefleClient.fetch_all and TrefleSpeciesSource.fetch_all *)

request_sync ==
    /\ requested > 0
    /\ requested' = requested - 1 /\ requests' = requests + 1
    /\ UNCHANGED <<breaker, upstream, snapshot, rows, sync, queue, readSide, history, failures, crashes>>

DailyTick == request_sync
RequestSpeciesSync == request_sync   \* POST /catalog/sync

\* Each request is a saga of its own.
StartSync(s) ==
    /\ sync[s].pc = "idle" /\ requests > 0
    /\ requests' = requests - 1
    /\ sync' = [sync EXCEPT ![s] = [NewSync EXCEPT !.pc = "get"]]
    /\ UNCHANGED <<breaker, upstream, snapshot, rows, queue, readSide, history, bounds>>

Goto(s, pc) == sync' = [sync EXCEPT ![s].pc = pc, ![s].trial = FALSE]

\* The saga has completed, or is parked.
End(s) == sync' = [sync EXCEPT ![s] = NewSync]

\* What a process has at hand that goes on from the step p of the log.
LeftOff(s, p) ==
    [sync[s] EXCEPT !.pc = p, !.from = p, !.at = 0, !.trial = FALSE,
                    !.fetched = IF p = "get" THEN NoRecords ELSE @,
                    !.created = sync[s].stored.created, !.updated = sync[s].stored.updated]

\* The step raised with nothing to undo: the recovery job may retry the saga.
Fail(s) == sync' = [sync EXCEPT ![s] = [LeftOff(s, sync[s].from) EXCEPT !.pc = "failed"]]

Admit(s) ==
    /\ sync[s].pc = "get" /\ admits
    /\ before_call
    /\ sync' = [sync EXCEPT ![s].pc = "calling", ![s].trial = effective_state = "half_open"]
    /\ UNCHANGED <<upstream, snapshot, rows, requests, queue, readSide, history, bounds>>

\* Mutant: a refused call waits for the breaker instead of the fallback.
RejectAndWait(s) ==
    /\ sync[s].pc = "get" /\ ~admits
    /\ before_call
    /\ Goto(s, "get")
    /\ UNCHANGED <<upstream, snapshot, rows, requests, queue, readSide, history, bounds>>

\* CircuitOpenError: nothing is sent, and the source falls back.
Reject(s) ==
    /\ sync[s].pc = "get" /\ ~admits
    /\ before_call
    /\ Goto(s, "fallback")
    /\ UNCHANGED <<upstream, snapshot, rows, requests, queue, readSide, history, bounds>>

\* The detail after this one, while the listing and species_limit last.
Advance(s, fetched) ==
    LET at == sync[s].at
        full == Cardinality({x \in SpeciesIds : fetched[x] # 0}) >= species_limit
    IN sync' = [sync EXCEPT ![s].fetched = fetched, ![s].trial = FALSE,
                  ![s].at = IF at = Len(Listing) \/ full THEN 0 ELSE at + 1,
                  ![s].pc = IF at = Len(Listing) \/ full THEN "save" ELSE "get"]

\* A page of the listing (at 0) or a detail that maps to a record.
Answered(s) ==
    /\ sync[s].pc = "calling"
    /\ Advance(s, IF sync[s].at = 0 THEN sync[s].fetched
                  ELSE [sync[s].fetched EXCEPT ![Listing[sync[s].at]] = IF @ = 0 THEN upstream ELSE @])
    /\ Succeeds(s)
    /\ UNCHANGED <<upstream, snapshot, rows, requests, queue, readSide, bounds>>

\* A detail that does not validate or has no name: a success to the breaker.
Unusable(s) ==
    /\ sync[s].pc = "calling" /\ sync[s].at > 0
    /\ Advance(s, sync[s].fetched)
    /\ Succeeds(s)
    /\ UNCHANGED <<upstream, snapshot, rows, requests, queue, readSide, bounds>>

\* 404 or 422 on a detail: skipped, but the breaker counts it.
Missing(s) ==
    /\ sync[s].pc = "calling" /\ sync[s].at > 0
    /\ Advance(s, sync[s].fetched)
    /\ Fails(s)
    /\ UNCHANGED <<upstream, snapshot, rows, requests, queue, readSide, bounds>>

\* Transport errors, 429 and 5xx after the retries.
Unavailable(s) ==
    /\ sync[s].pc = "calling"
    /\ Goto(s, "fallback")
    /\ Fails(s)
    /\ UNCHANGED <<upstream, snapshot, rows, requests, queue, readSide, bounds>>

\* A refused token, a listing that is missing: the saga fails.
Refused(s) ==
    /\ sync[s].pc = "calling"
    /\ Fail(s)
    /\ Fails(s)
    /\ UNCHANGED <<upstream, snapshot, rows, requests, queue, readSide, bounds>>

\* A listing that does not validate, or a listing or detail that is not JSON,
\* fails outside the breaker.
Unparsable(s) ==
    /\ sync[s].pc = "calling"
    /\ Fail(s)
    /\ Succeeds(s)
    /\ UNCHANGED <<upstream, snapshot, rows, requests, queue, readSide, bounds>>

\* FetchSpeciesStep has acted: the engine checkpoints.
FetchDone(s, records) ==
    sync' = [sync EXCEPT ![s].pc = "apply", ![s].from = "apply", ![s].at = 0, ![s].fetched = records]

\* Empty fetches are not remembered; a Valkey error is logged.
Save(s) ==
    /\ sync[s].pc = "save"
    /\ \/ sync[s].fetched # NoRecords /\ snapshot' = sync[s].fetched
       \/ UNCHANGED snapshot
    /\ FetchDone(s, sync[s].fetched)
    /\ UNCHANGED <<breaker, upstream, rows, requests, queue, readSide, history, bounds>>

\* The snapshot, or nothing when it has expired or cannot be read.
Loadable == {snapshot, NoRecords}

Fallback(s) ==
    /\ sync[s].pc = "fallback"
    /\ \E records \in Loadable : FetchDone(s, records)
    /\ UNCHANGED <<breaker, upstream, snapshot, rows, requests, queue, readSide, history, bounds>>

NewEdition ==
    /\ upstream < MaxEdition
    /\ upstream' = upstream + 1
    /\ UNCHANGED <<breaker, snapshot, rows, saga, queue, readSide, history, bounds>>

-----------------------------------------------------------------------------
(* ApplySpeciesUpdatesStep and InvalidateSpeciesCacheStep *)

Excuse(entries, species) ==
    [x \in SpeciesIds |-> [entries[x] EXCEPT !.excused = @ \/ (x \in species /\ entries[x].view # 0)]]

\* The catalogue changes in one commit: whoever read a changed row before is
\* excused, and a deleted row leaves no event to drop its cache entry.
Commit(new) ==
    LET changed == {x \in SpeciesIds : new[x] # rows[x]}
        deleted == {x \in changed : new[x] = 0}
    IN /\ rows' = new
       /\ reader' = Excuse(reader, changed)
       /\ cache' = Excuse(cache, deleted)

\* SpeciesUpdated for each of the species.
Announce(species) == queue' = [x \in SpeciesIds |-> IF x \in species THEN queue[x] + 1 ELSE queue[x]]

Created(s) == {x \in SpeciesIds : sync[s].fetched[x] # 0 /\ rows[x] = 0}

\* update returns whether anything changed.
Updated(s) == {x \in SpeciesIds : rows[x] # 0 /\ sync[s].fetched[x] \notin {0, rows[x]}}

Applied(s) == [x \in SpeciesIds |-> IF x \in Created(s) \cup Updated(s) THEN sync[s].fetched[x] ELSE rows[x]]

\* A retry appends to the lists an earlier attempt stored; the last image wins.
BeforeImages(s) == [x \in SpeciesIds |-> IF x \in Updated(s) THEN rows[x] ELSE sync[s].updated[x]]

\* History: what another run wrote is no longer the saga's own.
Beside(c, new) == [c EXCEPT !.base = IF @ = "alone" /\ new # rows THEN "shared" ELSE @]

\* Create what is unknown, update what differs, in one transaction.
Apply(s) ==
    /\ sync[s].pc = "apply"
    /\ Commit(Applied(s))
    /\ Announce(Updated(s))
    /\ sync' = [p \in Syncs |->
         IF p = s THEN [sync[s] EXCEPT !.pc = "applied", !.created = @ \cup Created(s),
                          !.updated = BeforeImages(s),
                          !.before = IF sync[s].base = "none" THEN rows ELSE @,
                          !.base = IF @ = "none" THEN "alone" ELSE @]
         ELSE Beside(sync[p], Applied(s))]
    /\ UNCHANGED <<breaker, upstream, snapshot, requests, history, bounds>>

\* The transaction fails, also on a species another run inserted meanwhile.
ApplyFails(s) ==
    /\ sync[s].pc = "apply" /\ failures > 0
    /\ failures' = failures - 1
    /\ Fail(s)
    /\ UNCHANGED <<breaker, upstream, snapshot, rows, requests, queue, readSide, history, requested, crashes>>

\* The engine stores the step and the context after the step's own commit.
Checkpoint(s) ==
    /\ sync[s].pc = "applied"
    /\ sync' = [sync EXCEPT ![s].pc = "invalidate", ![s].from = "invalidate",
                            ![s].fetched = NoRecords,
                            ![s].stored = [created |-> sync[s].created, updated |-> sync[s].updated]]
    /\ UNCHANGED <<breaker, upstream, snapshot, rows, requests, queue, readSide, history, bounds>>

UpdatedBy(s) == {x \in SpeciesIds : sync[s].updated[x] # 0}

\* SpeciesCacheInvalidated, which travels as SpeciesUpdated does.
OutboxSpeciesCache(species) == Announce(species)

Invalidate(s) ==
    /\ sync[s].pc = "invalidate"
    /\ OutboxSpeciesCache(UpdatedBy(s))
    /\ End(s)
    /\ UNCHANGED <<breaker, upstream, snapshot, rows, requests, readSide, history, bounds>>

InvalidateFails(s) ==
    /\ sync[s].pc = "invalidate" /\ failures > 0
    /\ failures' = failures - 1
    /\ Goto(s, "compensate")
    /\ UNCHANGED <<breaker, upstream, snapshot, rows, requests, queue, readSide, history, requested, crashes>>

\* Mutant: the creations are left in the catalogue.
RestoredKeepingCreated(s) ==
    [x \in SpeciesIds |-> IF x \in UpdatedBy(s) /\ rows[x] # 0 THEN sync[s].updated[x] ELSE rows[x]]

\* Delete what was created; put the before-image back where a row still is.
Restored(s) ==
    [x \in SpeciesIds |-> IF x \in sync[s].created THEN 0
                          ELSE IF x \in UpdatedBy(s) /\ rows[x] # 0 THEN sync[s].updated[x]
                          ELSE rows[x]]

\* Mutant: the restore goes past the aggregate and announces nothing.
RestoreAnnouncedNever(s) == {}

\* The restore is an update of the aggregate like any other.
RestoreAnnounced(s) == {x \in UpdatedBy(s) : rows[x] # 0 /\ rows[x] # sync[s].updated[x]}

\* The compensation's own commit ...
Compensate(s) ==
    /\ sync[s].pc = "compensate"
    /\ Commit(Restored(s))
    /\ Announce(RestoreAnnounced(s))
    /\ sync' = [p \in Syncs |->
         IF p = s THEN [sync[s] EXCEPT !.pc = "compensated"] ELSE Beside(sync[p], Restored(s))]
    /\ UNCHANGED <<breaker, upstream, snapshot, requests, history, bounds>>

\* ... and the engine's record of it, after which the saga has failed.
LogCompensated(s) ==
    /\ sync[s].pc = "compensated"
    /\ Goto(s, "failed")
    /\ UNCHANGED <<breaker, upstream, snapshot, rows, requests, queue, readSide, history, bounds>>

\* The recovery job retries a failed saga, from its first step or from where its
\* log leaves off ...
Retry(s) ==
    /\ sync[s].pc = "failed" /\ sync[s].attempts < max_attempts
    /\ \E p \in {"get", sync[s].from} :
         sync' = [sync EXCEPT ![s] = [LeftOff(s, p) EXCEPT !.attempts = @ + 1]]
    /\ UNCHANGED <<breaker, upstream, snapshot, rows, requests, queue, readSide, history, bounds>>

\* ... and parks it once its budget is spent (SagaRecovery counts it in detail).
Park(s) ==
    /\ sync[s].pc = "failed" /\ sync[s].attempts = max_attempts
    /\ End(s)
    /\ UNCHANGED <<breaker, upstream, snapshot, rows, requests, queue, readSide, history, bounds>>

\* Where another process finds the saga: rolling back, or at its last checkpoint.
Resumed(s) ==
    CASE sync[s].pc \in {"idle", "failed"} -> sync[s]
      [] sync[s].pc \in {"compensate", "compensated"} -> [sync[s] EXCEPT !.pc = "compensate"]
      [] OTHER -> [LeftOff(s, sync[s].from) EXCEPT !.torn = @ \/ sync[s].pc = "applied"]

\* The worker dies: the breaker is new, and the recovery job resumes each saga.
Crash ==
    /\ crashes > 0
    /\ crashes' = crashes - 1
    /\ breaker' = ClosedBreaker /\ streak' = 0 /\ straggled' = FALSE
    /\ sync' = [s \in Syncs |-> Resumed(s)]
    /\ UNCHANGED <<upstream, snapshot, rows, requests, queue, readSide, requested, failures>>

-----------------------------------------------------------------------------
(* GetSpeciesQueryHandler, ValkeySpeciesCache, SpeciesCacheConsumer *)

\* A miss (or an unreadable cache): the row is read without a lock.
GetSpeciesMiss(x) ==
    /\ reader[x] = NoEntry /\ rows[x] # 0
    /\ reader' = [reader EXCEPT ![x].view = rows[x]]
    /\ UNCHANGED <<breaker, upstream, snapshot, rows, saga, queue, cache, history, bounds>>

\* A Valkey error is logged, and the entry stays as it was.
set(x) == cache' = [cache EXCEPT ![x] = reader[x]] \/ UNCHANGED cache

invalidate(x) == cache' = [cache EXCEPT ![x] = NoEntry] \/ cache' = Excuse(cache, {x})

\* The view read then is cached now.
CacheSet(x) ==
    /\ reader[x] # NoEntry
    /\ set(x)
    /\ reader' = [reader EXCEPT ![x] = NoEntry]
    /\ UNCHANGED <<breaker, upstream, snapshot, rows, saga, queue, history, bounds>>

\* SpeciesUpdated or SpeciesCacheInvalidated is consumed, whatever the DEL did.
InvalidateEntry(x) ==
    /\ queue[x] > 0
    /\ queue' = [queue EXCEPT ![x] = @ - 1]
    /\ invalidate(x)
    /\ UNCHANGED <<breaker, upstream, snapshot, rows, saga, reader, history, bounds>>

Expire(x) ==
    /\ cache[x].view # 0
    /\ cache' = [cache EXCEPT ![x] = NoEntry]
    /\ UNCHANGED <<breaker, upstream, snapshot, rows, saga, queue, reader, history, bounds>>

-----------------------------------------------------------------------------
SyncStep(s) ==
    \/ StartSync(s)
    \/ Admit(s) \/ Reject(s)
    \/ Answered(s) \/ Unusable(s) \/ Missing(s) \/ Unavailable(s) \/ Refused(s) \/ Unparsable(s)
    \/ Save(s) \/ Fallback(s)
    \/ Apply(s) \/ ApplyFails(s) \/ Checkpoint(s)
    \/ Invalidate(s) \/ InvalidateFails(s) \/ Compensate(s) \/ LogCompensated(s)
    \/ Retry(s) \/ Park(s)

Next ==
    \/ DailyTick \/ RequestSpeciesSync \/ NewEdition \/ Cool \/ Crash
    \/ \E s \in Syncs : SyncStep(s)
    \/ \E x \in SpeciesIds : GetSpeciesMiss(x) \/ CacheSet(x) \/ InvalidateEntry(x) \/ Expire(x)

Spec == Init /\ [][Next]_vars

\* A saga that lives goes on, the recovery job ticks, the topic delivers, a query
\* ends, a TTL elapses.
\* Nothing is assumed of the breaker's timeout, of Trefle or of new requests.
FairSpec ==
    /\ Spec
    /\ \A s \in Syncs : WF_vars(SyncStep(s))
    /\ \A x \in SpeciesIds : WF_vars(CacheSet(x)) /\ WF_vars(InvalidateEntry(x)) /\ WF_vars(Expire(x))

-----------------------------------------------------------------------------
(* Properties *)

\* The breaker, the tables, the saga contexts and the cache have their types.
TypeOK ==
    /\ breaker \in AsyncCircuitBreaker
    /\ rows \in SpeciesModel /\ snapshot \in SpeciesRecord
    /\ sync \in [Syncs -> SpeciesSyncContext]
    /\ cache \in [SpeciesIds -> CacheEntry] /\ reader \in [SpeciesIds -> CacheEntry]
    /\ queue \in [SpeciesIds -> Nat]

\* The breaker is closed exactly while fewer than failure_threshold calls failed
\* since the last that succeeded, in whatever order concurrent calls end and
\* whichever state admitted them.
ClosedIffShortStreak == (breaker.state = "closed") <=> (streak < failure_threshold)

\* One trial at a time, unless a call admitted in another state of the breaker
\* ended while a trial was in flight (it clears the flag that guards the trial).
OneTrial == straggled \/ Cardinality(TrialsOf(sync)) <= 1

\* A saga that failed, in whatever attempt and at whatever step, leaves the
\* catalogue as its first Apply found it, when nobody else wrote the catalogue
\* since and no process died between Apply's commit and its checkpoint.
FailedRunUndone ==
    \A s \in Syncs :
        (sync[s].pc = "failed" /\ sync[s].base = "alone" /\ ~sync[s].torn)
          => rows = sync[s].before

\* An entry that differs from its row, with no invalidating event on its way, was
\* read before a commit and set after it, survived a DEL that failed, or belongs
\* to a species a rollback deleted.
StaleOnlyKnownWays ==
    \A x \in SpeciesIds :
        (cache[x].view \notin {0, rows[x]} /\ queue[x] = 0) => cache[x].excused

\* The cache catches up: once the syncs have ended, every entry is eventually
\* gone or equal to its row, the racing and orphaned ones included.
CacheCatchesUp == <>[](\A x \in SpeciesIds : cache[x].view \in {0, rows[x]})

\* Every run ends, whatever Trefle, the breaker and Valkey do.
EverySyncEnds == \A s \in Syncs : (sync[s].pc # "idle") ~> (sync[s].pc = "idle")

\* The breaker keeps its contract under concurrent calls: it opens on the streak
\* that should open it and lets one trial through.
BreakerHolds == TypeOK /\ ClosedIffShortStreak /\ OneTrial

\* A synchronisation leaves nothing unsettled: its run ends and the cache comes to
\* show the catalogue.
SettlesDown == EverySyncEnds /\ CacheCatchesUp

\* What docs/catalog.md says of a rollback, for a run that had the catalogue to
\* itself: the local catalogue is back to its before-image.
BackToBeforeImage ==
    \A s \in Syncs :
        (sync[s].pc = "failed" /\ sync[s].base = "alone") => rows = sync[s].before

\* What the breaker says of its half-open state: one trial is in flight and other
\* callers fail fast.
AtMostOneTrial == Cardinality(TrialsOf(sync)) <= 1
=============================================================================
