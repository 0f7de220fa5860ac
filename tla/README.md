# PlantKeeper: a TLA+ verification project

PlantKeeper is a plant-care system in Python built from bounded contexts that
talk through events: commands change an aggregate and write its events to an
outbox in the same transaction, a relay carries the outbox to Kafka, consumer
groups react, and process managers drive work that spans contexts. This
directory models the machinery that makes those parts agree, checks it with TLC
and proves the parts that matter most with TLAPS.

Paths below are relative to `src/`; `infra/`, `app/`, `domain/` stand for
`packages/{infrastructure,application,domain}/src/plantkeeper/{...}/`.

## 1. Inventory

Three programs are deployed: **api** (REST and gRPC), **workers** (the relay,
eight consumer groups, the telemetry ingress and six timed jobs in one asyncio
process; two of them overlap while a deploy rolls), and **admin** (Django, which
owns the read models and consumes events into them).

| Component | State | Operations | Talks to | What is hard | What makes it correct |
|---|---|---|---|---|---|
| Outbox, unit of work (`infra/persistence/uow.py`, `repositories/outbox.py`) | `write_shared.outbox` rows: id, key, published_at, dead_lettered_at, attempts, claimed_at | append, commit, rollback, fetch_unpublished, mark_published, record_failure, dead_letter, release_claim | every command handler; the relay | id order is not commit order; leases; stale snapshots | nothing dropped or invented, order within a key, one publisher, budget honoured |
| Relay, publisher (`infra/messaging/relay.py`, `publisher.py`) | the batch in hand | run, run_once, deliver, retry, dead-letter | outbox, Kafka | crash after publish, lost acknowledgement, dead-letter topic down | every committed event settles |
| Consumer delivery (`app/delivery.py`, `app/sagas/consumer.py`, `apps/workers/.../consumers.py`, `apps/admin/.../projections/`) | `processed_events`, the committed offset, the dead-letter topic | claim, handle, commit, retry, move aside, acknowledge, replay (`tools/dlq.py`) | Kafka, the handlers | rebalance, unseen commit, failing copy, crash between copy and claim, replays | handled once, never skipped, set aside only after the budget, the partition moves on |
| Saga intents and dispatch (`infra/scheduling/command_dispatch.py`, `repositories/sagas.py`, `app/ports/saga_intents.py`) | `saga_intents`: status, attempts, claimed_at; `idempotency_keys` | record, claim_pending, execute, mark_executed, mark_failed, cancel_pending | onboarding saga; the owning contexts' handlers | crash between effect and mark, two dispatchers, compensation of a claimed intent | effect at most once, truthful statuses, undo wins, all decided |
| Onboarding saga, saga storage, recovery (`app/sagas/onboard.py`, `base.py`, `infra/persistence/saga_storage.py`, `infra/scheduling/saga_recovery.py`) | saga executions, step log, version | act, compensate, checkpoint, recover, park | intents, trigger consumer | step committed before its checkpoint, two recoverers, exhausted budget | a saga ends completed, compensated or parked; compensation covers what ran |
| Missed care (`app/sagas/missed_care.py`, `infra/scheduling/missed_care.py`) | `missed_care_windows` | on WateringDue, on WateringCompleted, escalate_overdue | care schedule, care topic, clock | late events, late ticks, reads without a lock | a miss is real, recorded once, and never lost |
| Care schedule (`domain/care/schedule.py`, `repositories/care.py`) | next_watering_at, version | create, complete, skip, reschedule, mark_due, mark_missed | commands, adaptive watering, missed care | lost updates, moments in the past | versions grow by one, waterings kept |
| Adaptive watering (`app/sagas/adaptive_watering.py`) | none of its own | on low or high soil moisture | schedule, notifications | unlocked unread-check | reschedules only far waterings, one reminder |
| Plants and households (`domain/garden`, `app/commands/garden.py`) | plants, rooms, last_watered_at | create, add, move, water, remove | care, references, projections | unlocked read and merge; the household's lock; a clock read before a lock | the cap and the distance between waterings hold |
| Species catalogue (`app/sagas/species_sync.py`, `infra/external`, `infra/cache/species.py`) | species, upstream snapshot and cache in Valkey, breaker | fetch, apply, invalidate, compensate | Trefle, cache, saga engine | upstream failures, half-open trial, stale cache fill | breaker recovers, a fallback never deletes, cache converges |
| Telemetry (`app/telemetry/ingest.py`, `domain/telemetry/sensor.py`, `infra/scheduling/sensor_silence.py`, `infra/persistence/partitions.py`) | readings, sensors, partitions | ingest, announce silence, create and drop partitions | adaptive watering, projections | duplicates, reordering, unlocked reads, month boundaries | one row per (sensor, moment), silence announced once, no reading without a partition |
| Care journal (`app/journal`, `domain/journal`, `repositories/event_store.py`) | event stream, snapshots | append, load, snapshot, project | care events | version races, rebuild equals replay | gap-free versions |
| Notifications (`app/notifications`, `infra/notifications`, `api/rest/routers/notifications.py`) | notifications, Valkey channel, open streams | create, acknowledge, push, stream, long poll | household clients | subscribe/read order, reconnection, backlog bound | nothing missed between backlog and live |
| Projections and read queries (`apps/admin/.../projections`, `repositories/read_models.py`, `app/queries`) | Django read models | apply; list plants, today's care, species, timeline | events; REST | four topics in any order, half-assembled rows | what is projected reads as it was written |
| Plant references (`app/references.py`) | local copies of plant data | apply | garden events | late events | follows the garden |
| Idempotent commands (`app/idempotency.py`) | idempotency_keys | commit_create | REST, dispatcher | two requests with one key | one effect, one answer |
| Identity, REST/gRPC surface, DI, configuration, contracts, IoT simulator | – | translation and wiring | – | – | not modelled (section 9) |

`PROJECT.json` lists the same components with their status, and under
`hazards` the places where the code is hardest to test, with their lines.

## 2. Modules

| Module | Models | Composes |
|---|---|---|
| `OutboxRelay` | writers' transactions, the outbox table, the relays, the two topics | unit of work + outbox repository + relay + publisher |
| `ConsumerDelivery` | one group on one partition, for both subscriber sets, and the replay tool | delivery policy + ledger + consumer loop + `tools/dlq.py` |
| `CommandDispatch` | recorded commands, dispatchers, the owning contexts' handlers, the saga's steps and compensations | intents repository + dispatcher + `commit_create` + onboarding steps |
| `MissedCare` | one plant's schedule and grace window, the household, the dry reading, the consumer, the tick, the clock | missed-care saga + schedule + adaptive watering |
| `SagaRecovery` | the onboarding saga, its storage and the recovery job | trigger + steps + `saga_state`/`saga_log` + intents + recovery |
| `JournalLog` | what a journal promises: an append-only log per plant, an entry once and in one log | – |
| `Journal` | event streams, checkpoints, mirror, plant references | consumer + command + dated query + event store; implements `JournalLog` |
| `Telemetry` | raw topic, ingress, sensors, silence job, telemetry projection | ingestion + sensor aggregate + job + rollups |
| `TelemetryPartitions` | the calendar, monthly partitions, the retention job | `partitions.py` + its job |
| `Species` | synchronisation saga, Trefle client, breaker, snapshot, cache-aside reads | saga + client + breaker + cache + cache consumer |
| `Notifications` | reminders, nudges, the shared subscription, streams, the waiting request | consumer + pusher + channel + fan-out + routes |
| `Garden` | households, plants, schedules, idempotency keys, requests of several steps | commands + aggregates + repositories |
| `PlantReadModel` | the read side of `Garden`: four projections and the list queries | EXTENDS `Garden` |
| `OutboxRelayProofs` | theorems about `OutboxRelay` and `ConsumerDelivery` | both ends of the broker |
| `SagaRecoveryProofs` | theorems about `SagaRecovery` and `CommandDispatch` | sagas and the commands they delegate |
| `TelemetryProofs` | theorems about `Telemetry` and `TelemetryPartitions` | readings and where they are stored |
| `MissedCareProofs`, `JournalProofs`, `SpeciesProofs`, `PlantReadModelProofs`, `NotificationsProofs` | theorems about the module each is named after | – |
| `MC…` | model values and small sets for TLC | – |

Operators that begin a mutated behaviour are commented "Mutant": each is a
plausible bug, kept beside the definition it would replace, and for every
property of every passing run one of them makes TLC find a violation.

### How state and actions correspond to the code

**OutboxRelay.** One function per column (`publishedAt`, `deadLetteredAt`,
`attempts`, `claimedAt`, …); `vis` is transaction visibility (`staged` = flushed
and invisible, ids drawn at that moment). A writer of `LockingWriters` waits for
another of its aggregate (`LockedByAnother`); the others, like `plants.get` and the
missed-care tick, do not, and `overlapping` remembers which rows were flushed beside
each other. A lease is `null`, `leased` or
`lapsed`; real time appears only as the action `Lapse`. A relay's `run_once` is
a program counter: `Fetch` (the claiming UPDATE with SKIP LOCKED), `Take`,
`Publish…`, `DeadLetter…`, then one of `MarkPublished`, `DeadLetter`,
`RecordFailure`, each including release_claim and the commit. `locked` is the
claiming transaction before its first commit, when row locks and not the lease
keep others away. `CloseSession` is what every exception and every crash does.
`AttemptsOverflow` is the smallint column refusing an increment.

**ConsumerDelivery.** `phase` walks through take, claim, handle, commit, move
aside and acknowledge; an open transaction's ledger row blocks another
member's claim of the same delivery, as the primary key does. `side`, chosen in
Init, selects the order of the move-aside: claim, copy, commit (workers) or
copy, then claim (Django). A failed commit may or may not have taken effect. A
delivery that triggers a saga (`Triggers`) has no handler that ends with the commit:
`StartsSaga` commits the claim with `SagaStarted`, and the run then ends or fails
without a redelivery (`RunEnds`, `RunFails`). The
replay tool clears the claim and then publishes; it can die between the two.

**CommandDispatch.** `status`, `attempts`, `claimedAt` are columns of
`saga_intents`; `effect` and `stored` are the owning context's row and its
idempotency record, written by the handler's own commit. Marking the intent is
a second transaction. `Withdraw` is the compensation: cancel what is pending,
otherwise record the undo.

**MissedCare.** Time is an integer. The tick is one transaction with three
reads at different moments, so three actions; the household's commands are one
action each, because the repository locks the schedule row for their whole
transaction. `delays`, chosen in Init, names the imperfections of a deployment:
an event still in the topic, a worker that was down, transactions that overlap.
`DeleteCareSchedule` is the undo of a compensated onboarding; the tick then skips the
plant's window.

**SagaRecovery.** `saga`, `acted`, `undone` are `saga_state` and `saga_log`;
`intents` and `undo` the commands of the two steps that record one; `run` is the
process at work, with what it remembers and the tables do not. A step's own
commit (`Act`) and the engine's checkpoint (`Checkpoint`) are two actions, and a
process may die between any two. The job's `Resume`, `AnnounceRetry`,
`ClearStatus`, `ParkCounter`, `ParkAnnounce` are its separate transactions. The
engine is python-cqrs: what src/ does not say of it is a choice (`reruns`).

**Journal.** `event_store`, `journal_snapshots`, `journal_entries` and `refs` are
the tables. Loading a stream is two statements (`LoadSnapshot`, `LoadStream`);
an append flushes at once (`AppendRow`), so another transaction with the same
version waits for it and then fails (`AppendConflict`), and a mirror row another
plant's entry holds fails the commit (`MirrorConflict`). `Rebuild` resets a
group. The refinement reads the abstract log off the committed events of each
stream in version order.

**Telemetry.** A device reports late, twice or from a wrong clock. `ReadSensor`
precedes `StoreReading`, and `ListSilent` precedes `AnnounceOffline`, without a
lock; a save is a merge and may overwrite (`lost`). The job announces what it listed
by `last_seen_at`, in either order where two are equal (`OldestFirst`). The four SQL
statements of the projection are operators on the read rows.

**TelemetryPartitions.** A month is a (year, month) pair with a short year;
`add_months`, `months_to_create`, `expired_partitions` are the module's
functions, `RunOnce` one tick in one transaction, `Refused` PostgreSQL's refusal
to create a month the catch-all already holds rows of.

**Species.** `breaker` has the fields of `AsyncCircuitBreaker`; a call is
admitted in one action and ends in another, so calls that started in different
states end in any order. `sync` is a saga's context, `stored` what its last checkpoint
kept of it, and `Apply`, `Checkpoint`, `Invalidate`, `Compensate` and `LogCompensated`
its transactions: a process that dies leaves the saga at its last record (`Resumed`),
so a commit without one is repeated. A failed saga is retried from its first step or
from where its log leaves off, then parked. A detail that is no JSON fails the saga
(`Unparsable`), one that does not validate is skipped (`Unusable`). A query past its cache miss
(`reader`) sets the entry later (`CacheSet`).

**Notifications.** `fans` are the fan-out objects with their pump task, the
streams' signals and a task that is being cancelled; `st` is a connection and
what its client holds. Each `await` of the stream, the pump and the waiting
request separates two actions, and a cancellation can come at any of them.
`order` is the order of `created_at`; a read takes the unread rows with ids beyond
the cursor (`pending_since`) and yields them oldest first (`OldestOf`), so the cursor
follows ids and the frames follow time.

**Garden, PlantReadModel.** A request is loaded, decided and committed in
separate actions; locks are held until the commit. The plant is written back by
merge, so `dirty` records which columns a request will overwrite. An addition that
meets the cap is refused before it comes to its key. `DeleteCareSchedule` removes a
schedule without an event. `SkipWatering` stands for the commands that move a schedule
under its lock; the missed-care tick, which does not lock, is in `MissedCare`. The
projections take the head of their own topic in any order.

## 3. Runs

The constants of each run are in its `.cfg`.

| Run | Distinct states | Question and bounds |
|---|---|---|
| `OutboxRelay_delivery` | 523 thousand | Two relays, a writer that locks and one that does not, two keys (one the topic refuses, one the dead-letter topic refuses), two rows, two faults, a crash, a lease that expires under a live relay, a budget of two polls, an attempts column that overflows. Two rows are the fewest with which a key has a predecessor. |
| `ConsumerDelivery_policy` | 1.00 million | Both subscriber sets: two members, a log with an event that starts a saga where the group is one's, an ignored one and one that breaks a rule, faults, a crash, a replay, a budget of two. |
| `MissedCare_escalation` | 2.92 million | Five deployments, from none of the imperfections to all; six moments with an interval of three and a grace of two, two changes: two due moments and a watering, a deletion or a skip between them. |
| `SagaRecovery_dispatch` | 660 thousand | Side by side. `SagaRecovery`: a budget of one retry, three failing steps, two crashes, an operator's reset, a rebuilt group. `CommandDispatch`: two dispatchers, three failures, two crashes, two lapsed leases, a budget of two; steps never share a row, so one step (a create and its undo) is enough. |
| `Journal_streams` | 549 thousand | Two plants, one known from the start; a group member and a client that race on one stream, client ids that collide across plants, a checkpoint every second entry, a crash (before the commit or before the acknowledgement) or a rebuild. |
| `Telemetry_jobs` | 241 thousand | Side by side. `Telemetry`: one sensor, one ingress, two silence jobs, two reports, removal and registration, a crash; sensors share no row. `TelemetryPartitions`: two years of three months, one month ahead, a window of two, an outage, a wrong clock, so that the window crosses the turn of the year. |
| `Species_sync` | 181 thousand | Two sagas at a time over two pages that repeat a species, a threshold of two, two editions: the breaker, and the end of every saga. |
| `Species_rollback` | 2.58 million | Two sagas, each retried once, a failing transaction, a crash at any step: what a failed saga leaves behind, and the cache. |
| `Notifications_stream` | 925 thousand | Two notifications, guarded or not, two clients, two fan-outs, two connections, a channel failure. |
| `PlantReadModel_lists` | 1.25 million | Two overlapping requests on two plants and one idempotency key, a cap of one plant, a distance of two between waterings (so that two on neighbouring moments are too close), two events of other contexts; requests and locations are symmetric (no liveness in this run). |

Two more runs, `OutboxRelay_order` and `Notifications_cursor`, expect a violation of
what the repository says (section 4).

Where a run checks two specifications side by side, they share no variable: a variable
of the MC module chooses in the initial state which of them moves, and fairness is asked
of that one.

Deadlock is not checked where the bounded system may really stop (every event
handled, every bound used up); in `MissedCare` the tick can always run, and it
is checked.

### What the passing runs show

A property that joins several facts of one promise is the conjunction of named
parts; the parts are documented in the modules.

* `OutboxRelay`: `NothingLostOrInvented` (what is settled is in Kafka, what is in
  Kafka was committed), `KeyOrder` (but for rows flushed beside each other by
  transactions that do not both lock), `OnePublisherPerRow`,
  `AbandonedOnlyAfterBudget`, `EventuallySettled`.
* `ConsumerDelivery`: `AppliedOnce` (once, and once more for each claim an
  operator cleared), `NothingDroppedOrSkipped`, `AsideOnlyAfterBudget`,
  `PartitionMovesOn`.
* `CommandDispatch`: `ExecutedOnce` (one effect, an executed undo wins, one
  dispatcher per intent), `StatusesTellTheTruth`, `EventuallyDecided`.
* `MissedCare`: `MissesAreEarned` and `WindowsEnd` (an overdue window closes while its
  schedule exists) in every deployment; `OnTimeNeverMissed` unless events lag or transactions
  overlap, `OncePerDueMoment` (no double announcement unless events lag, no
  double miss in a punctual deployment), `WateringKept` unless transactions
  overlap.
* `SagaRecovery`: `AllOrNothing` (completed means done, failed means withdrawn,
  announced once; the parts name the torn checkpoint that breaks the last two),
  `RetriesBounded`, `EventuallyAtRest` (and every parking is announced, but for a job
  that died between its two commits).
* `Journal`: `ReadsAreHistory` (no replay meets a gap, dated answers are a prefix
  of the stream, the mirror agrees), `ImplementsJournal` (the refinement of
  `JournalLog`), `RefsFollowGarden`, `EveryWateringSettles` (a watering of a known
  plant is journalled or moved aside).
* `Telemetry`: `AnnouncedOnce`, `ReadSideExact`, `SilenceAnnounced`.
  `TelemetryPartitions`: `ReadingsKept`, `EventuallyRetired`.
* `Species`: `BreakerHolds` (closed exactly while the streak is short, one trial
  unless a straggler cleared the flag), `FailedRunUndone` (after a crash, a repeated
  compensation and a retry too, but for a torn checkpoint or another writer),
  `StaleOnlyKnownWays`, `SettlesDown`.
* `Notifications`: `NoLostWakeUp`, `OneOfEach`, `DeliveredUnlessPassed`,
  `SubscriptionReleased`.
* `Garden`: `RulesHold` (the cap and the distance between waterings, for plants no old
  row was written over), `SameAnswer` (requests with one key and one body get one
  answer unless one failed or was refused, with two bodies never two objects).
* `PlantReadModel`: `ReadsAsWritten`. A plant whose schedule was deleted keeps the last
  watering announced, and a plant without a later species event has no name; the
  property says so exactly, and section 4 what is wrong with it.

## 4. Where the code and its documents disagree

Each line is a sentence of the repository that the code does not keep. The definition
states it without a condition, and the passing properties of the same module say what
does hold, with the race as their named exception. Two of them, the order of events and
the cursor, are runs that expect the violation (`OutboxRelay_order`,
`Notifications_cursor`; `PROJECT.json` quotes the sentences under `findings`). TLC
refutes each of the others in seconds when it stands in the place of the properties of
its component's passing configuration. `AtMostMaxPlants` needs a third request there,
`NamesFilledIn` the fair specification of `PlantReadModel`.

| Definition | What is said | What happens |
|---|---|---|
| `OutboxRelay!PublishedInOrder` | events of one plant stay in order (`outbox.py:13`, `topics.py:15`) | two transactions that do not lock commit against the order of their ids, and the barrier sees committed rows only |
| `ConsumerDelivery!NeverHandledTwice` | a delivery is never handled twice (`docs/events.md:166`, `delivery.py:12`) | a projection's commit succeeds unseen, the handled delivery is copied aside, and its replay clears the claim |
| `CommandDispatch!CancelledLeavesNothing` | cancelled: the effect never happens (`ports/saga_intents.py:50`) | the intent is `pending` while its handler runs; cancelled, and the row stays |
| `CommandDispatch!EffectWithStatus` | effect and status in one transaction (`command_dispatch.py:112`) | the handler commits first; a dispatcher that dies then leaves an executed command pending. The repetition is harmless (`ExecutedOnce`) |
| `MissedCare!OnTimeAlwaysCounts` | a watering before the deadline means no miss (`process-managers/spec.md:99`) | its event is still in the topic when the tick decides |
| `MissedCare!MissedAtMostOnce` | a miss is recorded once (`care-scheduling/spec.md:84`) | a late tick opens and escalates at once, its own `WateringDue` reopens the window |
| `MissedCare!WateringNeverUndone` | no lost updates of a schedule (`schedule.py:31`) | the tick merges a schedule it read without a lock over a watering |
| `MissedCare!EveryOverdueWindowCloses` | every expired window is escalated (`missed_care.py:14`) | the window of a deleted schedule is skipped for ever |
| `SagaRecovery!ParkedWithRecord` | the parking and its record are one transaction (`saga_recovery.py:204`) | the counter is committed in a session of its own |
| `SagaRecovery!ClaimedIsCarriedOut` | an interrupted process is resumed (`process-managers/spec.md:125`) | a death after the commit of `SagaStarted`: the claim is taken and there is no saga |
| `SagaRecovery!StepsAreWhole` | a step's effect and its checkpoint are one commit (`docs/sagas.md:300`) | a death between the two: the rollback does not know of the command |
| `Species!BackToBeforeImage` | after a rollback the catalogue is its before-image (`docs/catalog.md:177`) | the same death in `Apply`: the resumed step takes the run's rows for the old ones |
| `Species!AtMostOneTrial` | one trial at a time (`circuit_breaker.py:16`) | a straggler's failure clears the trial's flag |
| `Telemetry!AtMostOncePerSilence` | a silence is announced at most once (`sensor_silence.py:13`) | two jobs read the same row without a lock |
| `TelemetryPartitions!RunsAgain` | a job that was down runs again (`telemetry_partitions.py:15`) | a row in the catch-all makes every tick fail; `docs/telemetry.md:110` knows it |
| `Notifications!NothingPassedOver` | a reconnect receives what it missed (`stream.py:11`) | `id > since` on ids that are hashes: a later notification with a smaller id is passed over |
| `Notifications!ShareReleased` | closing a stream releases its share (`stream.py:292`) | a stream closed while it attaches leaves its signal, and the subscription stays |
| `Garden!AtMostMaxPlants` | at most fifty plants (`plant-collection/spec.md:53`) | a stale merge brings a removed plant back |
| `Garden!LoserRereadsWinner` | the loser re-reads the winner's record (`idempotency.py:15`) | it waits for the household's lock, meets the cap and is refused |
| `PlantReadModel!StaleOnlyInTheWindow` | a list is stale within the relay's and the projection's lag (`docs/cqrs.md:90`) | a deleted schedule has no event, its rows stay |
| `PlantReadModel!NamesFilledIn` | every value is eventually filled in (`read_models/models.py:41`) | a plant added after the last event of its species never gets the name |

The models show more that no single sentence denies; each is a case that a definition
contains or a property excludes.

*Outbox.* A row that neither topic accepts ends at the smallint limit and fails every
later poll that claims it (`outbox.py:141`), so `EventuallySettled` leaves such keys out.

*Missed care.* A late completion of an earlier watering satisfies the window of a later
moment (`missed_care.py:96`). Skipping does not close the window, so a skipped watering
is reported missed (`missed_care.py:57`), and a skip or miss of a schedule more than an
interval behind plans a moment in the past (`schedule.py:172`).

*Sagas.* `record` is a plain INSERT under a unique key, so a step torn from its
checkpoint cannot be repeated and its saga cannot finish (`repositories/sagas.py:159`
against `docs/sagas.md:360`). A compensated saga that is retried may skip the
compensated step and complete with a cancelled command. A recovered saga announces
neither its completion nor its failure.

*Species.* A 404 on one species' details counts as a breaker failure. The snapshot
fallback can revert rows to an older edition. Two runs that overlap undo each other's
rows. A rolled-back creation leaves a cache entry until its TTL, and so does a query
that sets what it read before an update; the documents give the TTL as the bound.

*Telemetry.* Migration 0003 creates the catch-all only, contrary to `partitions.py:10`.
A dropped month takes the unique keys of its readings with it, so an older redelivery is
stored and announced again.

*Garden.* A household over its cap can no longer be rebuilt by its repository.
`DeleteNotification` raises no event either, and its read row stays.

*Notifications.* A stream that attaches while the last one out awaits the pump's end has
no pump until it reconnects. A rebuilt group can create a reminder the guard had
suppressed (`consumer.py:20`).

## 5. Fairness

`OutboxRelay`, `CommandDispatch`: weak fairness of each relay's or dispatcher's
step and of lease expiry. The loops poll for ever, wait a bounded time and
survive exceptions; time passes. `ConsumerDelivery`, `Journal`: weak fairness of
the members, since the broker offers what is not acknowledged, and of a client's
request once begun. `MissedCare`, `Telemetry`, `TelemetryPartitions`: of the tick,
which is called at an interval for as long as the worker runs, and of the
consumers and the projection; of the passing of months and the restart of the
worker in `TelemetryPartitions`. `SagaRecovery`: of the engine, the job, and the
topic's redelivery. `Species`: of a saga's steps and the recovery job, the cache consumer, a query's
end and a TTL; nothing of the breaker's timeout or of Trefle. `Notifications`: of
the streams' and requests' loops and their timeouts and of the pump's
subscription; nothing of nudges. `PlantReadModel` (for `NamesFilledIn`, section 4): of
the four projections.

Nothing is assumed of writers, households, operators, devices, faults or
crashes, and each kind of fault is bounded by a constant, so "eventually" means
"once faults stop".

## 6. What is proved

TLAPS proves, for any number of processes, keys, rows, plants and events and any
bound, under the specification's named assumption on its constants, the theorems below: every safety
invariant that a passing run checks is one of them. An invariant
is proved in three facts: `Init` implies the inductive invariant, every action
keeps it (one lemma per action, the `…Keeps` lemmas), and it implies the property.
Each inductive invariant was checked by TLC on the run's instance before.

Three proof modules extend two specifications that are neighbours in the system and
share no variable, constant or definition. For that `ConsumerDelivery`,
`CommandDispatch` and `TelemetryPartitions` put a prefix on the usual names
(`DeliveryInit`, `DispatchNext`, `PartitionsSpec`); a theorem speaks of one
specification only, and each assumption is evaluated by that specification's run.

`OutboxRelayProofs`
* `TypeCorrect`: the type invariant, strengthened by what a program counter
  says of the row in hand (`InHandOK`: `cur` is in the batch while a row is
  being delivered, and a try is left while it is published).
* `NothingLostNothingInvented`: `NothingLostOrInvented`. The invariant adds that
  rows in hand are committed (`RowsOK`) and that a relay at `published` or
  `abandoned` has its row in the topic or the dead-letter topic
  (`AcknowledgedOK`).
* `BudgetSafe`: `AbandonedOnlyAfterBudget`, by `BudgetOK`. A snapshot is never
  larger than the column, so deciding on a stale value can only delay the
  decision.
* `OnePublisher`: while no lease has lapsed under a live relay, batches are
  disjoint. `LeaseOK` says a row in hand is locked by the claiming transaction or
  visibly leased.
* `OrderWithinKey`: `KeyOrder`, for every mix of writers. `BarrierOK` says a row in hand
  has no pending predecessor of its key but one flushed beside it, `CommitOrderOK` that a
  staged row older than a committed one of its key was flushed beside it, and that two
  writers that both lock never have such a pair.

`OutboxRelayProofs`, of `ConsumerDelivery`
* `DeliveryTypeCorrect`.
* `NothingDropped`: `NothingDroppedOrSkipped`, replays included. A ledger row
  stands for a handled delivery, a copy or a saga that was started; the invariant carries that fact from
  the phase a member is in to the moment the offset moves.
* `DeliveryBudgetSafe`: `AsideOnlyAfterBudget`, from an invariant that bounds a member's
  attempt counter by the failures recorded for its delivery.
* `HandledOnce`: `AppliedOnce`, without an assumption on replays: once, plus once
  for each time an operator cleared the claim. At most one open transaction
  holds the claim of a delivery and a claimed delivery is not handled again.

`SagaRecoveryProofs`
* `Inductive`: the invariant ties together what is written in different
  transactions: the step log (`acted`, `undone`), the context's flags, the recorded
  commands, the saga's status and the memory of the process at work (`StatusOK`,
  `DoneOK`, `FlagsOK`, `EffectsOK`, `LastStepOK`).
* `WholeOrUndone`: `AllOrNothing`. Completed follows from `LastStepOK`: the last step
  is logged only on top of all the others, and after it the saga only completes.
  Withdrawn follows from `WithdrawnOK`: unless a step was torn from its checkpoint,
  every recorded command that stands is in the log and still ahead of the run that
  goes back.
* `BudgetHolds`: `RetriesBounded`, by the accounting `BudgetOK`: each announced retry
  is paid for by a counted failure, a crash or a reset, and the one under way by an
  attempt that is left.

`SagaRecoveryProofs`, of `CommandDispatch`
* `DispatchTypeCorrect`, with `InHandOK`: a dispatcher at work has its intent in its own
  batch, and at `ran` the handler's commit is behind it.
* `StatusesTrue`: `StatusesTellTheTruth`. `RecordedOK` keeps unrecorded intents out
  of the table, the batches and `ran`, so nothing is marked that was never there.
* `EffectOnce`: `ExecutedOnce`. The handler's commit and the intent's mark are two
  transactions, so an intent may run again; `StoredOK` (the idempotency record
  counts the insertions) is why this does not show. That an executed undo wins
  needs `CancelledOK` and `UndoOK` (an undo exists only for a settled create), and
  one dispatcher per intent `LeaseOK` and `SettledOK`, which hold while no lease
  ran out under a live dispatcher.

`MissedCareProofs`
* `TypeCorrect`.
* `EarnedMisses`: `MissesAreEarned` in every deployment. `EarnedInv` follows a due
  moment from the schedule through the topic and the window to the tick's list: each
  is announced, or will be by the commit of the tick that holds it.
* `WateringStays`: `WateringKept`. `CurrentInv` says that without overlap what a
  transaction has read is still so when it writes; `KeptInv` is the property with the
  plant's own record of its last watering.
* `OnTimeIsNeverMissed`: `OnTimeNeverMissed`. A pending window that a watering was on
  time for has that watering's event still in the topic (`OnTimeInv`), and the topic is
  empty while a tick decides (`TopicInv`).
* `OnceForEachDueMoment`: `OncePerDueMoment`. `ReportedInv`: where the consumer keeps
  up, the current version of a schedule is reported only while its window is pending
  or about to be. `PromptInv` and `MissedInv`: without delays the clock is never a
  grace period past a due moment that has no window, so missed moments lie before
  everything the schedule can still ask for.
* `MissIsForGood`: `MissStands`, the safety half of `WindowsEnd`, as an action
  property.

`JournalProofs`
* `Inductive`: the versions of a stream are `1 .. n` (`StreamOK`), a version of a
  stream and an entry id of any stream have one row (`KeysOK`), the mirror holds the
  same ids (`MirrorAgrees`), checkpoints and loaded aggregates are states the stream
  went through (`CheckpointsOK`, `LoadedOK`), and what an open transaction appended
  is the only such row of its stream (`FreshOK`). The versions are gap-free because
  a writer appends at the version it loaded plus one and the unique key lets
  one of two such rows through; the checkpoint is a shortcut to the same state
  because it is one.
* `ReadsHistory`: `ReadsAreHistory`.
* `Implements`: `ImplementsJournal`, the refinement of `JournalLog`. The abstract log
  is the stream in the order of its versions; `CommitEntry` is an `Add` (the new row
  comes last, its id is in no log), every other step a stutter. The lemmas on
  counting and ordering rest on the library's facts about finite sets.
* `RefsForward`: `RefsNeverWalkBack`, the safety half of `RefsFollowGarden`.

`SpeciesProofs`
* `Inductive` and `BreakerSafe`: `BreakerHolds`. `CounterOK` determines the breaker's
  state from the streak of failures, for calls that begin and end in any order;
  `TrialOK` says that while no call outlived the state that admitted it the admitted
  trials are one and the half-open breaker knows of it.
* `StaleKnown`: `StaleOnlyKnownWays`. `CacheOK` follows a view from the query that read
  it (`reader`) to the cache: between the two the row may change.
* `FailedRunIsUndone`: `FailedRunUndone`, of every attempt of a saga. `UndoOK`: what a
  saga would restore from what it holds, and from what its checkpoint holds, is what its
  first `Apply` found, while nobody else writes and no checkpoint was torn from its
  commit; a compensation that a crash repeats finds nothing left to restore.

`PlantReadModelProofs` (of `Garden` and `PlantReadModel`)
* `Inductive`: `RequestInv`. A request's step is described once (`Fits`: what it may
  leave in the request), so that the steps that change nothing else need one
  argument. `HeldRow` is the heart of it: the aggregate of a request that no commit
  has overtaken is what its operation makes of the row in the table, and its `dirty`
  columns are those it changed; `ApartOK` keeps additions in progress on different
  plants and waterings in progress on different schedules.
* `OneAnswer`: `SameAnswer`, by `KeyInv`: whoever was given an object under a key was
  given the stored one, and a conflict only under another body. Nothing but the unique
  key decides.
* `RulesSafe`: `RulesHold`. `CapInv` says that while an addition holds a household's
  lock the household has room, and that one addition at a time holds it; `SpacedInv`
  that `last_watered_at` is the latest watering, unless an overlapping command wrote
  an old row back.
* `ReadsWhatWasWritten`: `ReadsAsWritten`. The invariant (`ReadInv`) says of each plant
  and topic that what is still in the topic makes of the read row what was written:
  the event that creates a row comes first and once (`NamedFor`, `CareFor`), the last
  event of a kind carries the column's value and a column without one has it already
  (`WrittenFor`, `WateredFor`), and the entries not in the topic are in the timeline
  (`JournalFor`). A deleted schedule stands for the last moment it announced (`deleted`),
  and a name for the species events after the row was filled in (`filled`). It is kept by appending an event, by delivering the first, and by
  another topic's projection, which leaves the garden's columns alone or empty
  (`SameColumns`); nothing is assumed of the order between topics.

`NotificationsProofs`
* `Inductive`: only the household's current fan-out has a pump or waits for the end of
  one, never both (`FanInv`); a stream that reads holds a signal of the fan-out it knows
  and is without one only on its last read (`SignalInv`); unread rows of a guarded type
  are one row (`UnreadInv`).
* `WakeUpsKept`: `NoLostWakeUp`. `HearInv` says of a stream that has read and has no
  nudge what the property needs at the wait: an unread row it will not hear of is in its
  batch, was received, or is behind the cursor and stays behind it for every frame of
  the batch still to come, since the batch was taken beyond the cursor. `PollInv` is
  the same of the waiting request.
* `OnlyOne`: `OneOfEach`, from `UnreadInv` and `FanInv`.

`TelemetryProofs`
* `Inductive`: the log of events explains everything else. `StoredInv`: the rows of
  `sensor_readings` are the readings announced, each once. `SeenInv`: the last reading of a
  sensor's row, and of every copy of it that a transaction holds, is a stored one, and what
  a job listed was silent and not announced. `PrecededInv`: an alert or a silence comes
  after a reading of its sensor. `KnownInv`: of a sensor that was never registered there is
  nothing. `SilenceInv`: unless a merge overwrote a row (`lost`) or the sensor was removed,
  its row has the newest reading of the log and the silence that no newer reading ended,
  and its announced silences all have different last readings. `LatestInv`, `RollupInv`:
  the read rows are what the first `projected` events make of them.
* `FactsAnnouncedOnce`: `AnnouncedOnce`. A reading's event is appended by the transaction
  that wins the insert. A silence's event leaves `offline_announced_at` in the row, and a
  row is listed again only after a newer reading took it out, so the next silence has
  another last reading; a job whose row changed after it listed it is the excluded race.
* `ReadSideRight`: `ReadSideExact`. Count, minimum and maximum follow readings one by one.
  For the sum the lemmas `SumsExist`, `SumsAnyOrder` and `TotalGrows` show that the fold
  over a finite set has a value, that the value does not depend on the order in which
  members are taken out, and that one more reading adds its moisture.

`TelemetryProofs`, of `TelemetryPartitions`
* `NeverDropped`: `ReadingsKept`. The calendar is numbered (`Number`), so that comparing
  months is comparing numbers (`LaterIsGreater`) and `add_months` adds
  (`AddMonths`), backwards, across years and before the first one. Then the months
  created are those ahead and no gap (`CreatesAhead`) and a partition is expired exactly
  when the window has left it (`ExpiredIsPast`). `CreatedAhead` is the inductive part: what
  the last tick created is still there, less the months that have passed since.

Facts about a recursive definition or a fold are proved by taking a least
counterexample instead of an induction over an operator: `Smallest` (a non-empty set of
naturals has a least member) for the loop of `add_months`, `LeastSet` (a non-empty
collection of finite sets has a member with no proper subset in it) for sums. Both are
instances of the library's `WFMin`.

The assumptions are those the modules declare, each a `Nat` or non-empty set that
the settings and the deployment give: besides the bounds, `Journal` assumes there is
a plant, every schedule of `MissedCare` has a positive version, as the repository
inserts it, `MIN_WATERING_INTERVAL` is positive (with none, two waterings may fall on
one moment), and the identifiers of `Garden` are none of the words that stand for an
absence or an answer. Where a property names the condition under which the code
keeps its promise (no lapsed lease, no torn checkpoint, a deployment without
overlap), the theorem has the same condition and no other.

Only model-checked: liveness, that is `EventuallySettled`, `PartitionMovesOn`,
`EventuallyDecided`, `EventuallyAtRest`, `EveryWateringSettles`, `SilenceAnnounced`,
`EventuallyRetired`, `SettlesDown`, `DeliveredUnlessPassed` and `SubscriptionReleased`,
and the liveness halves of `WindowsEnd` and `RefsFollowGarden`, whose safety halves are
proved. The prover handles neither fairness nor ENABLED.

## 7. Bounds and abstractions

Events, keys and payloads are model values; only their identity matters to the
properties. Time is an order of events (leases, the breaker's cooling) or a small
integer (care, telemetry). Every bound is a constant whose name begins with `Max`
and whose declaration is commented as a bound; the proofs hold for every value of
them. Exponential back-off, logging and metrics are left out. History variables
(`torn`, `lost`, `straggled`, `overlapping`, `silent`, …) record that a race the code leaves
open has happened; a passing property that excludes one says so, and section 4
shows what the repository says without the exclusion.

## 8. Plan

Every component with state of its own is modelled, and the safety invariants of its
eleven specifications are proved. What would extend the project: the missed-care tick in
the composition of `Garden` and `PlantReadModel`, and the parts that section 9 leaves out
within modelled components.

## 9. Not modelled

Identity (a record without interacting operations); the REST and gRPC surface
(translation; the routes that wait and stream are in `Notifications`); dependency
injection and configuration (wiring; settings appear as constants); topic tables
and generated contracts (static data); provenance headers (carried, never
decided on); the IoT simulator (a development tool); database migrations. Within
modelled components: the tracker across a rollback inside one unit of work, the
overwatering notice of adaptive watering, the notification projection (a copy),
`aclose` at shutdown, and the listing and dry run of the replay tool.
