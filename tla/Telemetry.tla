------------------------------ MODULE Telemetry ------------------------------
(***************************************************************************)
(* Telemetry from the raw topic to the read side: the ingress that stores  *)
(* and announces readings, the sensor registry with its silence state, the *)
(* job that announces silent sensors, and the projection that keeps        *)
(* hourly rollups and each sensor's latest row.                            *)
(*                                                                         *)
(* A device may report late, out of order or twice.  The ingress reads the *)
(* sensor before its transaction, and the silence job reads the silent     *)
(* sensors without a lock; both write the whole row back by merge, so one  *)
(* may overwrite what the other committed in between, and a merge of a row *)
(* that was removed inserts it again.  The history variable lost says that *)
(* this has happened.                                                      *)
(***************************************************************************)
EXTENDS Integers, Sequences, FiniteSets, FiniteSetsExt, Functions

CONSTANTS
    Sensors,
    Ingesters,      \* members of the telemetry-ingest consumer group
    SilenceJobs,    \* worker processes that run the silence job
    Measurements,   \* what a device may measure: [moisture, temperature]
    MOISTURE_LOW_THRESHOLD, MOISTURE_HIGH_THRESHOLD,
    TEMPERATURE_LOW_THRESHOLD, TEMPERATURE_HIGH_THRESHOLD,
    OFFLINE_AFTER,
    ROLLUP_WINDOW,
    MaxTime,        \* bound: the clock
    MaxReports,     \* bound: messages on the raw topic
    MaxCommands,    \* bound: sensors registered and removed
    MaxCrashes      \* bound: ingress processes that die before the acknowledgement

ASSUME ConstantsAssumption ==
    /\ IsFiniteSet(Sensors) /\ Measurements \subseteq [moisture : Nat, temperature : Int]
    /\ OFFLINE_AFTER \in Nat \ {0} /\ ROLLUP_WINDOW \in Nat \ {0}
    /\ MaxTime \in Nat \ {0} /\ MaxReports \in Nat /\ MaxCommands \in Nat /\ MaxCrashes \in Nat

VARIABLES
    now,
    raw,        \* the raw topic, one partition per sensor
    offset,     \* the ingress group's committed offsets
    sensors,    \* write_telemetry.sensors: the registered rows
    readings,   \* write_telemetry.sensor_readings
    outbox,     \* the telemetry events committed, in order
    projected,  \* how many of them the projection has applied
    rollups,    \* read_telemetry.telemetry_rollups
    latest,     \* read_telemetry.sensor_latest
    ingest,     \* each ingester: the message and the row it has read
    job,        \* each silence job: its moment and the rows it has read
    removed,    \* history: sensors that were unregistered at some point
    lost,       \* history: a save overwrote a change it had not read
    commands, crashes

device == <<now, raw>>
writeSide == <<sensors, readings, outbox>>
readSide == <<projected, rollups, latest>>
workers == <<ingest, job>>
history == <<removed, lost>>
bounds == <<commands, crashes>>
vars == <<device, offset, writeSide, readSide, workers, history, bounds>>

Times == 1 .. MaxTime
Never == 0                         \* NULL in a timestamp column
NoMessage == [at |-> Never]        \* a message parse_raw_reading refuses

RawReading == [at : Times, m : Measurements]
SensorModel == [last_seen_at : 0 .. MaxTime, offline_announced_at : 0 .. MaxTime]
NoRow == [last_seen_at |-> -1, offline_announced_at |-> -1]
SensorReadingModel == [sensor : Sensors, at : Times, m : Measurements]
NoRollup == [count |-> 0, sum |-> 0, min |-> 0, max |-> 0]
NoLatest == [recorded_at |-> Never, offline_at |-> Never, last_alert_at |-> Never]
Idle == [pc |-> "idle"]

Init ==
    /\ now = 1
    /\ raw = [s \in Sensors |-> << >>]
    /\ offset = [s \in Sensors |-> 0]
    /\ sensors = [s \in Sensors |-> NoRow]
    /\ readings = {}
    /\ outbox = << >> /\ projected = 0
    /\ rollups = [w \in Sensors \X (0 .. MaxTime) |-> NoRollup]
    /\ latest = [s \in Sensors |-> NoLatest]
    /\ ingest = [i \in Ingesters |-> Idle]
    /\ job = [j \in SilenceJobs |-> Idle]
    /\ removed = {} /\ lost = FALSE
    /\ commands = MaxCommands /\ crashes = MaxCrashes

Registered == {s \in Sensors : sensors[s] # NoRow}

-----------------------------------------------------------------------------
(* Devices, and the commands that register and remove sensors. *)

Tick ==
    /\ now < MaxTime
    /\ now' = now + 1
    /\ UNCHANGED <<raw, offset, writeSide, readSide, workers, history, bounds>>

\* A device sends a measurement stamped by its own clock, maybe one it has sent
\* before, or something that does not validate.
Report(s) ==
    /\ Len(raw[s]) < MaxReports
    /\ \E msg \in {NoMessage} \cup RawReading :
         raw' = [raw EXCEPT ![s] = Append(@, msg)]
    /\ UNCHANGED <<now, offset, writeSide, readSide, workers, history, bounds>>

AddSensor(s) ==
    /\ s \notin Registered /\ commands > 0
    /\ commands' = commands - 1
    /\ sensors' = [sensors EXCEPT ![s] = [last_seen_at |-> Never, offline_announced_at |-> Never]]
    /\ UNCHANGED <<device, offset, readings, outbox, readSide, workers, history, crashes>>

RemoveSensor(s) ==
    /\ s \in Registered /\ commands > 0
    /\ commands' = commands - 1
    /\ sensors' = [sensors EXCEPT ![s] = NoRow]
    /\ removed' = removed \cup {s}
    /\ UNCHANGED <<device, offset, readings, outbox, readSide, workers, lost, crashes>>

-----------------------------------------------------------------------------
(* The Sensor aggregate. *)

Event(type, s, at, seen, m) ==
    [type |-> type, sensor |-> s, at |-> at, seen |-> seen, m |-> m]

\* Sensor.record: the silence state moves forward only.
record(row, at) ==
    IF at >= row.last_seen_at   \* NULL is smaller than every moment
    THEN [last_seen_at |-> at, offline_announced_at |-> Never]
    ELSE row

\* ... and the threshold events of the reading; equality is not a crossing.
Alerts(s, at, m) ==
    (IF m.moisture < MOISTURE_LOW_THRESHOLD
       THEN <<Event("soil_moisture_low", s, at, Never, m)>> ELSE << >>)
    \o (IF m.moisture > MOISTURE_HIGH_THRESHOLD
          THEN <<Event("soil_moisture_high", s, at, Never, m)>> ELSE << >>)
    \o (IF m.temperature < TEMPERATURE_LOW_THRESHOLD
             \/ m.temperature > TEMPERATURE_HIGH_THRESHOLD
          THEN <<Event("temperature_anomaly", s, at, Never, m)>> ELSE << >>)

\* Sensor.mark_offline, for a row list_silent returned.
mark_offline(row, at) == [row EXCEPT !.offline_announced_at = at]

\* session.merge of the whole row: what another transaction wrote since row was
\* read is overwritten, and a row deleted since is inserted again.
Merge(s, new) == sensors' = [sensors EXCEPT ![s] = new]
Overwrites(s, row) == sensors[s] # row

-----------------------------------------------------------------------------
(* TelemetryIngestConsumer.ingest *)

\* A member that lost its partition cannot move the offset back.
AckAt(s, n) == offset' = [offset EXCEPT ![s] = IF @ + 1 = n THEN n ELSE @]

\* An unusable message, or one of a sensor nobody registered, is acknowledged.
DropMessage(i, s) ==
    /\ ingest[i] = Idle /\ offset[s] < Len(raw[s])
    /\ raw[s][offset[s] + 1] = NoMessage \/ s \notin Registered
    /\ AckAt(s, offset[s] + 1)
    /\ UNCHANGED <<device, writeSide, readSide, workers, history, bounds>>

ReadSensor(i, s) ==
    /\ ingest[i] = Idle /\ offset[s] < Len(raw[s])
    /\ raw[s][offset[s] + 1] # NoMessage /\ s \in Registered
    /\ ingest' = [ingest EXCEPT ![i] = [pc |-> "read", sensor |-> s, n |-> offset[s] + 1,
                                        row |-> sensors[s]]]
    /\ UNCHANGED <<device, offset, writeSide, readSide, job, history, bounds>>

Message(i) == raw[ingest[i].sensor][ingest[i].n]

\* Mutant: the key of a reading is not a conflict target.
add_many_always(s, at) == TRUE

\* add_many inserts the row unless its key is there.
add_many(s, at) == ~\E r \in readings : r.sensor = s /\ r.at = at

\* The process ends the delivery: it acknowledges, or dies before it does.
EndDelivery(i) ==
    /\ ingest' = [ingest EXCEPT ![i] = Idle]
    /\ \/ AckAt(ingest[i].sensor, ingest[i].n) /\ UNCHANGED crashes
       \/ crashes > 0 /\ crashes' = crashes - 1 /\ UNCHANGED offset

StoreReading(i) ==
    LET s == ingest[i].sensor
        at == Message(i).at
        m == Message(i).m IN
    /\ ingest[i] # Idle /\ add_many(s, at)
    /\ readings' = readings \cup {[sensor |-> s, at |-> at, m |-> m]}
    /\ outbox' = outbox \o <<Event("received", s, at, Never, m)>> \o Alerts(s, at, m)
    /\ Merge(s, record(ingest[i].row, at))
    /\ lost' = (lost \/ Overwrites(s, ingest[i].row))
    /\ EndDelivery(i)
    /\ UNCHANGED <<device, readSide, job, removed, commands>>

SkipDuplicate(i) ==
    /\ ingest[i] # Idle /\ ~add_many(ingest[i].sensor, Message(i).at)
    /\ EndDelivery(i)
    /\ UNCHANGED <<device, writeSide, readSide, job, history, commands>>

-----------------------------------------------------------------------------
(* SensorSilenceJob.run_once *)

\* Mutant: only the sensors that crossed the threshold at this tick are listed.
list_silent_crossing(threshold) ==
    {s \in Registered : /\ sensors[s].last_seen_at = threshold /\ threshold > 0
                        /\ sensors[s].offline_announced_at = Never}

list_silent(threshold) ==
    {s \in Registered : /\ sensors[s].last_seen_at \in 1 .. threshold
                        /\ sensors[s].offline_announced_at = Never}

ListSilent(j) ==
    LET silent == list_silent(now - OFFLINE_AFTER) IN
    /\ job[j] = Idle /\ silent # {}
    /\ job' = [job EXCEPT ![j] = [pc |-> "listed", now |-> now,
                                  rows |-> [s \in silent |-> sensors[s]]]]
    /\ UNCHANGED <<device, offset, writeSide, readSide, ingest, history, bounds>>

\* One transaction; oldest silence first, and among equals by their ids, whose
\* order is left open.
OldestFirst(rows) ==
    {o \in Bijection(1 .. Cardinality(DOMAIN rows), DOMAIN rows) :
       \A a, b \in DOMAIN o : a < b => rows[o[a]].last_seen_at <= rows[o[b]].last_seen_at}

AnnounceOffline(j) ==
    LET rows == job[j].rows
        m == CHOOSE m \in Measurements : TRUE   \* the event carries no measurement
        offline(s) == Event("offline", s, job[j].now, rows[s].last_seen_at, m) IN
    /\ job[j] # Idle
    /\ sensors' = [s \in Sensors |-> IF s \in DOMAIN rows
                                     THEN mark_offline(rows[s], job[j].now)
                                     ELSE sensors[s]]
    /\ \E order \in OldestFirst(rows) :
         outbox' = outbox \o [k \in 1 .. Cardinality(DOMAIN rows) |-> offline(order[k])]
    /\ lost' = (lost \/ \E s \in DOMAIN rows : Overwrites(s, rows[s]))
    /\ job' = [job EXCEPT ![j] = Idle]
    /\ UNCHANGED <<device, offset, readings, readSide, ingest, removed, bounds>>

\* The tick fails or its process dies: the transaction is rolled back.
TickFails(j) ==
    /\ job[j] # Idle /\ crashes > 0
    /\ crashes' = crashes - 1
    /\ job' = [job EXCEPT ![j] = Idle]
    /\ UNCHANGED <<device, offset, writeSide, readSide, ingest, history, commands>>

-----------------------------------------------------------------------------
(* TelemetryRollupProjection.  The ledger applies each event once and the    *)
(* relay keeps one sensor's events in order (OutboxRelay, ConsumerDelivery). *)

window_start(at) == at \div ROLLUP_WINDOW

\* UPSERT_ROLLUP for one measurement, kept as count and sum instead of count and
\* average; temperature is folded in the same way.
UPSERT_ROLLUP(roll, v) ==
    [count |-> roll.count + 1,
     sum |-> roll.sum + v,
     min |-> IF roll.count = 0 \/ v < roll.min THEN v ELSE roll.min,
     max |-> IF roll.count = 0 \/ v > roll.max THEN v ELSE roll.max]

\* Mutant: the update has no WHERE clause.
UPSERT_LATEST_any(row, at) == [row EXCEPT !.recorded_at = at, !.offline_at = Never]

UPSERT_LATEST(row, at) ==
    IF at > row.recorded_at
    THEN [row EXCEPT !.recorded_at = at, !.offline_at = Never]
    ELSE row

\* The updates find no row when the sensor has none.
ANNOUNCE_OFFLINE(row, at) == IF row = NoLatest THEN row ELSE [row EXCEPT !.offline_at = at]

RECORD_ALERT(row, at) ==
    IF row # NoLatest /\ row.last_alert_at <= at   \* NULL or not newer
    THEN [row EXCEPT !.last_alert_at = at]
    ELSE row

Project ==
    LET e == outbox[projected + 1]
        w == <<e.sensor, window_start(e.at)>> IN
    /\ projected < Len(outbox)
    /\ projected' = projected + 1
    /\ IF e.type = "received"
         THEN /\ rollups' = [rollups EXCEPT ![w] = UPSERT_ROLLUP(@, e.m.moisture)]
              /\ latest' = [latest EXCEPT ![e.sensor] = UPSERT_LATEST(@, e.at)]
         ELSE /\ latest' = [latest EXCEPT ![e.sensor] =
                              IF e.type = "offline" THEN ANNOUNCE_OFFLINE(@, e.at)
                                                    ELSE RECORD_ALERT(@, e.at)]
              /\ UNCHANGED rollups
    /\ UNCHANGED <<device, offset, writeSide, workers, history, bounds>>

-----------------------------------------------------------------------------
IngestStep(i) ==
    \/ \E s \in Sensors : DropMessage(i, s) \/ ReadSensor(i, s)
    \/ StoreReading(i)
    \/ SkipDuplicate(i)

JobStep(j) == ListSilent(j) \/ AnnounceOffline(j)

Next ==
    \/ Tick
    \/ \E s \in Sensors : Report(s) \/ AddSensor(s) \/ RemoveSensor(s)
    \/ \E i \in Ingesters : IngestStep(i)
    \/ \E j \in SilenceJobs : JobStep(j) \/ TickFails(j)
    \/ Project

Spec == Init /\ [][Next]_vars

\* The consumers poll and the job ticks for as long as the worker runs
\* (SensorSilenceJob.run catches whatever a tick raises).
FairSpec ==
    /\ Spec
    /\ \A i \in Ingesters : WF_vars(IngestStep(i))
    /\ \A j \in SilenceJobs : WF_vars(JobStep(j))
    /\ WF_vars(Project)

-----------------------------------------------------------------------------
(* Properties *)

\* Every row, message, event and local has its type, and nothing is projected
\* or acknowledged that is not there.
TypeOK ==
    /\ now \in Times
    /\ \A s \in Sensors : /\ \A k \in DOMAIN raw[s] : raw[s][k] \in {NoMessage} \cup RawReading
                          /\ offset[s] \in 0 .. Len(raw[s])
                          /\ sensors[s] \in {NoRow} \cup SensorModel
    /\ readings \subseteq SensorReadingModel
    /\ projected \in 0 .. Len(outbox)
    /\ \A i \in Ingesters : ingest[i] # Idle => ingest[i].row \in SensorModel
    /\ \A j \in SilenceJobs : job[j] # Idle => job[j].rows \in [DOMAIN job[j].rows -> SensorModel]

Announced(type) == {k \in DOMAIN outbox : outbox[k].type = type}

\* The readings table and the announcements agree: every stored reading is
\* announced exactly once, however often it was delivered and whichever ingester
\* died before it acknowledged, and nothing else is announced as received.
StoredIffAnnounced ==
    /\ Cardinality(Announced("received")) = Cardinality(readings)
    /\ \A r \in readings : \E k \in Announced("received") :
         outbox[k].sensor = r.sensor /\ outbox[k].at = r.at /\ outbox[k].m = r.m

Applied(type, s) ==
    {outbox[k] : k \in {k \in 1 .. projected : outbox[k].type = type /\ outbox[k].sensor = s}}

\* A window's rollup is exact for the readings projected, in whatever order they
\* came: its count, its sum (the average times the count), its minimum and maximum.
RollupsExact ==
    \A w \in DOMAIN rollups :
      LET in == {e \in Applied("received", w[1]) : window_start(e.at) = w[2]}
          values == {e.m.moisture : e \in in} IN
      /\ rollups[w].count = Cardinality(in)
      /\ rollups[w].sum = MapThenSumSet(LAMBDA e : e.m.moisture, in)
      /\ in # {} => rollups[w].min = Min(values) /\ rollups[w].max = Max(values)

\* A sensor's latest row shows the newest reading and the newest alert projected:
\* a late or repeated one never walks it back.
LatestIsNewest ==
    \A s \in Sensors :
      LET received == {e.at : e \in Applied("received", s)}
          alerts == {e.at : e \in UNION {Applied(t, s) : t \in
                       {"soil_moisture_low", "soil_moisture_high", "temperature_anomaly"}}} IN
      /\ latest[s].recorded_at = Max({Never} \cup received)
      /\ latest[s].last_alert_at = Max({Never} \cup alerts)

\* A silence is announced once, not once per tick, unless the job's unlocked read
\* raced another writer (two processes that listed the same sensor, or a reading
\* stored between the list and the save).
OncePerSilence ==
    lost \/ \A s \in Sensors \ removed :
              \A j, k \in Announced("offline") :
                j # k /\ outbox[j].sensor = s /\ outbox[k].sensor = s
                  => outbox[j].seen # outbox[k].seen

\* Write side and read side agree once everything is projected: the same newest
\* reading, and the same answer to "is it offline", unless a save was lost.
ReadSideAgrees ==
    (projected = Len(outbox) /\ ~lost) =>
      \A s \in Registered \ removed :
        /\ latest[s].recorded_at = sensors[s].last_seen_at
        /\ latest[s].offline_at = sensors[s].offline_announced_at

\* A sensor that stays silent is announced offline on the read side in the end,
\* even if the job or the ingress fails: a race may announce it twice but
\* never not at all.
SilenceAnnounced ==
    \A s \in Sensors, t \in Times :
      (sensors[s].last_seen_at = t /\ now - OFFLINE_AFTER >= t)
        ~> \/ \E e \in Applied("offline", s) : e.seen = t
           \/ sensors[s].last_seen_at # t

\* A fact is announced when it is stored and once: a reading with its event, a
\* silence with one SensorOffline although it lasts for many ticks, unless a save
\* was lost between two writers.
AnnouncedOnce == TypeOK /\ StoredIffAnnounced /\ OncePerSilence

\* What the read side shows of the readings is exact: the rollups, the latest
\* values and the state of the sensors, in whatever order events are consumed.
ReadSideExact == RollupsExact /\ LatestIsNewest /\ ReadSideAgrees

\* A silence is announced at most once, whoever writes the row meanwhile.
\* sensor_silence.py:13-16 says "'at most once per silence' is a domain rule rather
\* than a property of this loop's query ... a duplicate tick finds nothing to do".
\* The rule is asked of a row read without a lock: two ticks that overlap, or a
\* tick and a writer that saves the row it read before it, announce the same
\* silence twice.
AtMostOncePerSilence ==
    \A s \in Sensors \ removed :
      \A j, k \in Announced("offline") :
        j # k /\ outbox[j].sensor = s /\ outbox[k].sensor = s
          => outbox[j].seen # outbox[k].seen
=============================================================================
