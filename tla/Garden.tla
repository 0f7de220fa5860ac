------------------------------- MODULE Garden -------------------------------
(***************************************************************************)
(* The write side of the Garden context: the requests that create          *)
(* households and plants once per Idempotency-Key, and the ones that move, *)
(* remove and water a plant.  A request is a transaction of several steps. *)
(* Adding locks the household and watering locks the schedule; the plant   *)
(* itself is read without a lock and written back by merge, which reads    *)
(* the row again and writes every column that differs from the aggregate.  *)
(*                                                                         *)
(* Events join the topics in commit order (OutboxRelay models the relay).  *)
(* A plant's name and species never change and are left out.               *)
(***************************************************************************)
EXTENDS Naturals, Sequences, FiniteSets

CONSTANTS
    Requests, Keys, Locations, Households, Plants,
    Home,           \* the household there is at first, and
    FirstPlant,     \* the plant it may own
    MaxPlants,      \* MAX_PLANTS
    MinInterval,    \* MIN_WATERING_INTERVAL
    Interval,       \* the schedules' watering_interval
    MaxNow          \* bound: the clock

\* Identifiers are none of the words that stand for their absence or for an answer.
ASSUME GardenAssumption ==
    /\ Home \in Households /\ FirstPlant \in Plants
    /\ MaxPlants \in Nat \ {0} /\ MinInterval \in Nat \ {0}
    /\ Interval \in Nat /\ MaxNow \in Nat \ {0}
    /\ {"none", "null"} \cap (Households \cup Locations) = {} /\ "nokey" \notin Keys
    /\ {"none", "refused", "conflict", "failed", "ok"} \cap (Households \cup Plants) = {}

VARIABLES
    households, plants,     \* write_garden
    schedules,              \* write_care.care_schedules: the next watering, 0 for none
    idempotency,            \* the answers by the key they are stored under
    req,                    \* the requests
    now,
    garden, care,           \* per plant: garden.events and care.events not yet projected
    overlapped,             \* history: plants a command wrote from a row older than the table's
    restored,               \* history: removed plants such a command brought back
    waterings,              \* history: per plant, the waterings by time
    deleted                 \* history: per plant, the next watering of its deleted schedule, 0 for none

tables == <<households, plants, schedules, idempotency>>
topics == <<garden, care>>
history == <<overlapped, restored, waterings, deleted>>
gardenVars == <<tables, req, now, topics, history>>

None == "none"
NoKey == "nokey"
NoFingerprint == <<None, None, None>>
NoRow == [household |-> None, location |-> None, watered |-> 0, removed |-> FALSE]

Columns == {"location", "watered", "removed"}

\* last_watered_at is 0 for a plant that never was.
PlantModel == [household : Households, location : Locations, watered : 0 .. MaxNow, removed : BOOLEAN]

add(h, location) == [household |-> h, location |-> location, watered |-> 0, removed |-> FALSE]

PlantAdded(row) == [type |-> "PlantAdded", location |-> row.location]
PlantMoved(location) == [type |-> "PlantMoved", location |-> location]
PlantRemoved == [type |-> "PlantRemoved"]
CareScheduleCreated(next) == [type |-> "CareScheduleCreated", next |-> next]
WateringCompleted(at, next) == [type |-> "WateringCompleted", at |-> at, next |-> next]

\* op, key, home and to are the request's; object, what it creates or changes; row
\* and events, the aggregate it holds; dirty, the columns its merge will write;
\* stale, whether the plant has been written since it was read; beaten, whether its
\* key had an answer when the request was given its own.
NewRequest == [pc |-> "idle", op |-> None, key |-> NoKey, fingerprint |-> NoFingerprint,
               home |-> None, to |-> None, at |-> 0, object |-> None, row |-> NoRow, events |-> <<>>,
               dirty |-> {}, stale |-> FALSE, answer |-> None, beaten |-> FALSE]

Init ==
    /\ households = {Home}
    /\ \E loc \in Locations, first \in SUBSET {FirstPlant} :
        /\ plants = [p \in Plants |-> IF p \in first THEN add(Home, loc) ELSE NoRow]
        /\ garden = [p \in Plants |-> IF p \in first THEN <<PlantAdded(add(Home, loc))>> ELSE <<>>]
    /\ schedules = [p \in Plants |-> 0]
    /\ idempotency = [k \in {} |-> NoRow]
    /\ req = [r \in Requests |-> NewRequest]
    /\ now = 1
    /\ care = [p \in Plants |-> <<>>]
    /\ overlapped = {} /\ restored = {}
    /\ waterings = [p \in Plants |-> [t \in 1 .. MaxNow |-> 0]]
    /\ deleted = [p \in Plants |-> 0]

Exists(p) == plants[p] # NoRow
_plant_ids(h) == {p \in Plants : plants[p].household = h /\ ~plants[p].removed}

\* Of a request that has ended, its key, what it asked for and its answer remain.
Ended(key, fingerprint, answer) ==
    [NewRequest EXCEPT !.pc = "done", !.key = key, !.fingerprint = fingerprint, !.answer = answer,
                       !.beaten = key \in DOMAIN idempotency]
Answered(r, answer) == [req EXCEPT ![r] = Ended(req[r].key, req[r].fingerprint, answer)]

-----------------------------------------------------------------------------
(* commit_create *)

\* The digest is of the whole command.
request_fingerprint(op, h, to) == <<op, h, to>>

_replayed(stored, fingerprint) == IF stored.hash = fingerprint THEN stored.response ELSE "conflict"

\* The key is looked up first: a stored answer is replayed.
commit_create(r, op, key, h, to) ==
    LET fingerprint == IF key = NoKey THEN NoFingerprint ELSE request_fingerprint(op, h, to)
    IN  /\ req[r].pc = "idle"
        /\ req' = [req EXCEPT ![r] =
             IF key \in DOMAIN idempotency
             THEN Ended(key, fingerprint, _replayed(idempotency[key], fingerprint))
             ELSE [NewRequest EXCEPT !.pc = "operate", !.op = op, !.key = key, !.fingerprint = fingerprint,
                                     !.home = h, !.to = to]]
        /\ UNCHANGED <<tables, now, topics, history>>

CreateHouseholdCommand(r, key) == commit_create(r, "household", key, None, None)
AddPlantCommand(r, key, h, to) == commit_create(r, "add", key, h, to)

Staged == {req[r].object : r \in {q \in Requests : req[q].pc = "saved"}}

\* A new identifier.
New(ids) == {CHOOSE i \in ids : TRUE}

CreateHousehold(r) ==
    /\ req[r].pc = "operate" /\ req[r].op = "household"
    /\ Households \ (households \cup Staged) # {}
    /\ \E h \in New(Households \ (households \cup Staged)) :
        req' = [req EXCEPT ![r].pc = "saved", ![r].object = h]
    /\ UNCHANGED <<tables, now, topics, history>>

HouseholdLocked(h) == \E q \in Requests : req[q].pc = "saved" /\ req[q].op = "add" /\ req[q].row.household = h

\* Mutant: the household is read without the lock.
get_for_update_unlocked(h) == TRUE

get_for_update(h) == ~HouseholdLocked(h)

plant_count(h) == Cardinality(_plant_ids(h))

\* A household above the cap cannot even be rebuilt from its rows.
Rebuildable(h) == plant_count(h) <= MaxPlants

CapacityExceeded(h) == ~Rebuildable(h) \/ plant_count(h) >= MaxPlants

Spare == {p \in Plants : ~Exists(p)} \ Staged

AddPlant(r) ==
    LET h == req[r].home
    IN  /\ req[r].pc = "operate" /\ req[r].op = "add"
        /\ get_for_update(h)
        /\ \/ CapacityExceeded(h) /\ req' = Answered(r, "refused")
           \/ /\ ~CapacityExceeded(h) /\ Spare # {}
              /\ \E p \in New(Spare) :
                    req' = [req EXCEPT ![r].pc = "saved", ![r].object = p, ![r].row = add(h, req[r].to),
                                       ![r].events = <<PlantAdded(add(h, req[r].to))>>]
        /\ UNCHANGED <<tables, now, topics, history>>

remember(r) ==
    IF req[r].key = NoKey THEN idempotency
    ELSE [k \in DOMAIN idempotency \cup {req[r].key} |->
            IF k = req[r].key THEN [hash |-> req[r].fingerprint, response |-> req[r].object] ELSE idempotency[k]]

\* Mutant: the primary key of the keys table is not there.
KeyTakenNever(r) == FALSE

KeyTaken(r) == req[r].key \in DOMAIN idempotency

\* The object, its event and the stored answer commit together, unless the key was
\* taken in the meantime: then the winner's answer is replayed.
CommitCreate(r) ==
    /\ req[r].pc = "saved" /\ req[r].op \in {"household", "add"}
    /\ IF KeyTaken(r)
         THEN /\ req' = Answered(r, _replayed(idempotency[req[r].key], req[r].fingerprint))
              /\ UNCHANGED <<tables, garden>>
         ELSE /\ idempotency' = remember(r)
              /\ req' = Answered(r, req[r].object)
              /\ \/ /\ req[r].op = "household"
                    /\ households' = households \cup {req[r].object}
                    /\ UNCHANGED <<plants, garden>>
                 \/ /\ req[r].op = "add"
                    /\ plants' = [plants EXCEPT ![req[r].object] = req[r].row]
                    /\ garden' = [garden EXCEPT ![req[r].object] = @ \o req[r].events]
                    /\ UNCHANGED households
              /\ UNCHANGED schedules
    /\ UNCHANGED <<now, care, history>>

-----------------------------------------------------------------------------
(* Commands on a plant *)

_ensure_active(p) == Exists(p) /\ ~plants[p].removed

Load(r, op, p, row, events) ==
    req' = [req EXCEPT ![r] = [@ EXCEPT !.pc = "loaded", !.op = op, !.object = p, !.row = row, !.events = events]]

\* A move to where the plant is records nothing, and still saves.
move(row, to) == [row EXCEPT !.location = to]
MovePlant(r, p, to) ==
    /\ req[r].pc = "idle" /\ _ensure_active(p)
    /\ Load(r, "move", p, move(plants[p], to),
            IF to = plants[p].location THEN <<>> ELSE <<PlantMoved(to)>>)
    /\ UNCHANGED <<tables, now, topics, history>>

remove(row) == [row EXCEPT !.removed = TRUE]
RemovePlant(r, p) ==
    /\ req[r].pc = "idle" /\ _ensure_active(p)
    /\ Load(r, "remove", p, remove(plants[p]), <<PlantRemoved>>)
    /\ UNCHANGED <<tables, now, topics, history>>

\* The clock is read before the schedule's lock is waited for.
WaterPlantCommand(r, p) ==
    /\ req[r].pc = "idle" /\ schedules[p] # 0
    /\ req' = [req EXCEPT ![r] = [@ EXCEPT !.pc = "operate", !.op = "water", !.object = p, !.at = now]]
    /\ UNCHANGED <<tables, now, topics, history>>

ScheduleLocked(p) ==
    \E q \in Requests : req[q].op = "water" /\ req[q].object = p /\ req[q].pc \in {"loaded", "saved"}

\* A watering earlier than the last one is too soon as well.
TooSoon(row, at) == row.watered # 0 /\ at < row.watered + MinInterval

water(row, at) == [row EXCEPT !.watered = at]
WaterPlant(r) ==
    LET p == req[r].object
    IN  /\ req[r].pc = "operate" /\ req[r].op = "water"
        /\ ~ScheduleLocked(p)
        /\ IF schedules[p] # 0 /\ _ensure_active(p) /\ ~TooSoon(plants[p], req[r].at)
             THEN Load(r, "water", p, water(plants[p], req[r].at), <<>>)
             ELSE req' = Answered(r, "refused")
        /\ UNCHANGED <<tables, now, topics, history>>

\* merge reads the row again: what differs from the aggregate will be written.
Save(r) ==
    /\ req[r].pc = "loaded"
    /\ req' = [req EXCEPT ![r].pc = "saved",
                          ![r].dirty = {c \in Columns : req[r].row[c] # plants[req[r].object][c]}]
    /\ UNCHANGED <<tables, now, topics, history>>

plant_to_model(r) ==
    [c \in DOMAIN NoRow |-> IF c \in req[r].dirty THEN req[r].row[c] ELSE plants[req[r].object][c]]

\* The others that hold the plant hold an old one now; waterings answer to the
\* schedule's lock instead.
Holds(q, p) == req[q].object = p /\ req[q].pc \in {"loaded", "saved"}
Aged(r, p) ==
    [q \in Requests |->
        IF q # r /\ Holds(q, p) /\ {req[q].op, req[r].op} # {"water"}
        THEN [req[q] EXCEPT !.stale = TRUE] ELSE Answered(r, "ok")[q]]

Commit(r) ==
    LET p == req[r].object
    IN  /\ req[r].pc = "saved" /\ req[r].op \in {"move", "remove", "water"}
        /\ plants' = [plants EXCEPT ![p] = plant_to_model(r)]
        /\ garden' = [garden EXCEPT ![p] = @ \o req[r].events]
        /\ req' = Aged(r, p)
        /\ \/ /\ req[r].op = "water"
              /\ schedules' = [schedules EXCEPT ![p] = req[r].at + Interval]
              /\ care' = [care EXCEPT ![p] = Append(@, WateringCompleted(req[r].at, req[r].at + Interval))]
              /\ waterings' = [waterings EXCEPT ![p][req[r].at] = @ + 1]
           \/ req[r].op # "water" /\ UNCHANGED <<schedules, care, waterings>>
        /\ overlapped' = overlapped \cup {q \in {p} : req[r].stale}
        /\ restored' = restored \cup {q \in {p} : plants[p].removed /\ ~plants'[p].removed}
        /\ UNCHANGED <<households, idempotency, now, deleted>>

\* A failure or a cancelled request rolls its transaction back.
Abort(r) ==
    /\ req[r].pc \notin {"idle", "done"}
    /\ req' = Answered(r, "failed")
    /\ UNCHANGED <<tables, now, topics, history>>

-----------------------------------------------------------------------------
(* The onboarding's commands to Care, and time *)

\* Once: the intent's key is derived from the saga and the step, and stays taken.
CreateCareSchedule(p) ==
    /\ Exists(p) /\ schedules[p] = 0 /\ deleted[p] = 0
    /\ schedules' = [schedules EXCEPT ![p] = now + Interval]
    /\ care' = [care EXCEPT ![p] = Append(@, CareScheduleCreated(now + Interval))]
    /\ UNCHANGED <<households, plants, idempotency, req, now, garden, history>>

\* The undo of a compensated onboarding, under the schedule's lock: the row goes,
\* and no event says so.
DeleteCareSchedule(p) ==
    /\ schedules[p] # 0 /\ ~ScheduleLocked(p)
    /\ schedules' = [schedules EXCEPT ![p] = 0]
    /\ deleted' = [deleted EXCEPT ![p] = schedules[p]]
    /\ UNCHANGED <<households, plants, idempotency, req, now, topics, overlapped, restored, waterings>>

Tick ==
    /\ now < MaxNow
    /\ now' = now + 1
    /\ UNCHANGED <<tables, req, topics, history>>

GardenNext ==
    \/ \E r \in Requests :
        \/ \E k \in Keys \cup {NoKey} :
            \/ CreateHouseholdCommand(r, k)
            \/ \E h \in households, to \in Locations : AddPlantCommand(r, k, h, to)
        \/ CreateHousehold(r) \/ AddPlant(r) \/ CommitCreate(r)
        \/ \E p \in Plants :
            \/ \E to \in Locations : MovePlant(r, p, to)
            \/ RemovePlant(r, p) \/ WaterPlantCommand(r, p)
        \/ WaterPlant(r) \/ Save(r) \/ Commit(r) \/ Abort(r)
    \/ \E p \in Plants : CreateCareSchedule(p) \/ DeleteCareSchedule(p)
    \/ Tick

-----------------------------------------------------------------------------
(* Properties of the write side *)

\* A household never owns more than MAX_PLANTS plants, whatever is added at once,
\* but for removed plants that an overlapping command brought back.
CapHolds == \A h \in Households : Cardinality(_plant_ids(h) \ restored) <= MaxPlants

\* "Not twice within an hour": waterings of a plant are MIN_WATERING_INTERVAL
\* apart, unless an overlapping command wrote an old last_watered_at back.
WateringsSpaced ==
    \A p \in Plants \ overlapped :
        \A t \in 1 .. MaxNow : waterings[p][t] > 0
            => /\ waterings[p][t] = 1
               /\ \A u \in t + 1 .. MaxNow : waterings[p][u] > 0 => u >= t + MinInterval

\* The rules that span rows or requests, whatever overlaps: the household's cap, of
\* the plants no old row was written back over as present, and the distance between
\* the waterings of a plant no old row was written back over.
RulesHold == CapHolds /\ WateringsSpaced

\* "A household SHALL NOT hold more than fifty plants at one time", plants brought
\* back included. A move or a watering that read its plant before the removal
\* merges removed_at back to null, after another plant has taken the place.
AtMostMaxPlants == \A h \in Households : Cardinality(_plant_ids(h)) <= MaxPlants

Answers(r, q) == {req[r].answer, req[q].answer}
Repeats(r, q) == r # q /\ req[r].pc = "done" /\ req[q].pc = "done" /\ req[r].key # NoKey /\ req[r].key = req[q].key

\* Two answers to one key. To the same body they are the same, the object or the
\* conflict, unless one request failed or found its household full; to different
\* bodies they are not both objects. So a key creates one object, and only who
\* asked for it is given it.
SameAnswer ==
    \A r, q \in Requests : Repeats(r, q) =>
        IF req[r].fingerprint = req[q].fingerprint
        THEN req[r].answer = req[q].answer \/ Answers(r, q) \cap {"failed", "refused"} # {}
        ELSE ~(Answers(r, q) \subseteq Households \cup Plants)

\* "One wins, and the loser re-reads the winner's record": a request that is
\* answered once its own key and body have an answer, and did not fail, is given
\* that answer. An addition that waited for the winner's lock and then meets the cap
\* is refused before it comes to the insert that would have told it.
LoserRereadsWinner ==
    \A r \in Requests :
        LET stored == idempotency[req[r].key]
        IN  (req[r].pc = "done" /\ req[r].beaten /\ stored.hash = req[r].fingerprint)
              => req[r].answer \in {stored.response, "failed"}

GardenSpec == Init /\ [][GardenNext]_gardenVars
=============================================================================
