------------------------ MODULE PlantReadModelProofs ------------------------
(***************************************************************************)
(* Proofs about Garden and PlantReadModel for every number of requests,    *)
(* keys, households and plants, every cap, interval and bound: the rules   *)
(* of the garden under overlapping requests, one answer per key, and a     *)
(* read side that agrees with the write side once its topics are consumed. *)
(***************************************************************************)
EXTENDS PlantReadModel, FiniteSetTheorems, TLAPS

OnPlant == {"move", "remove", "water"}
GardenEvent ==
    [type : {"PlantAdded", "PlantMoved"}, location : Locations]
      \cup [type : {"PlantRemoved", "PlantOnboarded"}]
CareEvent ==
    [type : {"CareScheduleCreated", "CareSkipped"}, next : Nat]
      \cup [type : {"WateringCompleted"}, at : 1 .. MaxNow, next : Nat]

Fingerprint ==
    {None, "household", "add"} \X (Households \cup {None}) \X (Locations \cup {None})
AnswerWords == Households \cup Plants \cup {None, "refused", "conflict", "failed", "ok"}

Request ==
    [pc : {"idle", "operate", "loaded", "saved", "done"},
     op : {"household", "add", None} \cup OnPlant, key : Keys \cup {NoKey}, fingerprint : Fingerprint,
     home : Households \cup {None}, to : Locations \cup {None}, at : 0 .. MaxNow,
     object : Households \cup Plants \cup {None}, row : PlantModel \cup {NoRow},
     events : Seq(GardenEvent), dirty : SUBSET Columns, stale : BOOLEAN,
     answer : AnswerWords, beaten : BOOLEAN]

\* The latest watering that n events of the other contexts can plan.
Horizon(n) == MaxNow + (1 + n) * Interval

WriteTypes ==
    /\ households \subseteq Households
    /\ plants \in [Plants -> PlantModel \cup {NoRow}]
    /\ schedules \in [Plants -> Nat]
    /\ req \in [Requests -> Request]
    /\ now \in 1 .. MaxNow
    /\ waterings \in [Plants -> [1 .. MaxNow -> Nat]]
    /\ \A k \in DOMAIN idempotency : k \in Keys /\ idempotency[k].response \in Households \cup Plants

TopicTypes ==
    /\ garden \in [Plants -> Seq(GardenEvent)]
    /\ care \in [Plants -> Seq(CareEvent)]
    /\ background \in 0 .. MaxBackground
    /\ \A p \in Plants :
         /\ schedules[p] <= Horizon(MaxBackground - background)
         /\ \A i \in 1 .. Len(care[p]) : care[p][i].next <= Horizon(MaxBackground)

ReadTypes ==
    /\ plant_rows \in [Plants -> PlantRow]
    /\ care_rows \in [Plants -> CareRow]

CatalogOK ==
    /\ catalog \in Seq(Nat) /\ version \in 0 .. MaxBackground - background
    /\ Len(catalog) <= version
    /\ \A i \in 1 .. Len(catalog) : catalog[i] = version - Len(catalog) + i
    /\ species_row = version - Len(catalog)

\* What a request is doing follows from its operation.
PhaseRow(x, planned) ==
    /\ x.pc = "idle" => x = NewRequest
    /\ x.pc = "operate" => x.op \in {"household", "add", "water"} /\ ~x.stale
    /\ x.pc = "loaded" => x.op \in OnPlant
    /\ x.pc = "saved" => x.op # None
    /\ x.op = "household" => x.pc \in {"operate", "saved"} /\ (x.pc = "saved" => x.object \in Households)
    /\ x.op = "add" => x.pc \in {"operate", "saved"} /\ x.home \in Households /\ x.to \in Locations
    /\ x.op \in OnPlant => x.pc \in {"operate", "loaded", "saved"} /\ x.object \in Plants /\ x.key = NoKey
    /\ x.op = "water" => x.at \in 1 .. MaxNow /\ (x.pc # "operate" => planned[x.object] # 0)

PhaseOK == \A r \in Requests : PhaseRow(req[r], schedules)

\* A plant that is or was scheduled is there, and a deleted schedule does not come
\* back.
ScheduledFor(planned, gone, row) == (planned # 0 \/ gone # 0 => row # NoRow) /\ (planned = 0 \/ gone = 0)

ScheduledOK ==
    /\ deleted \in [Plants -> Nat]
    /\ \A p \in Plants : ScheduledFor(schedules[p], deleted[p], plants[p])

TypeInv == WriteTypes /\ TopicTypes /\ ReadTypes /\ CatalogOK /\ PhaseOK /\ ScheduledOK

-----------------------------------------------------------------------------
Adding(x) == x.pc = "saved" /\ x.op = "add"
Holding(x) == x.pc \in {"loaded", "saved"} /\ x.op \in OnPlant

\* An addition that is not committed has a plant of its own, new to the table.
AddRow(x, rows) ==
    Adding(x) => /\ x.object \in Plants /\ rows[x.object] = NoRow
                 /\ x.row = add(x.home, x.to)
                 /\ x.events = <<PlantAdded(x.row)>>

\* The aggregate of an up-to-date request is what its operation makes of the row.
Changed(x, row) ==
    /\ x.op = "move" =>
         \E to \in Locations :
            /\ x.row = move(row, to)
            /\ x.events = IF to = row.location THEN <<>> ELSE <<PlantMoved(to)>>
    /\ x.op = "remove" => x.row = remove(row) /\ x.events = <<PlantRemoved>>
    /\ x.op = "water" => /\ x.row = water(row, x.at) /\ ~TooSoon(row, x.at)
                         /\ x.events = <<>>

\* A request that holds a plant records at most a move or a removal.
EventsOfChange(events) ==
    \/ events = <<>>
    \/ \E e \in GardenEvent : e.type \in {"PlantMoved", "PlantRemoved"} /\ events = <<e>>

Differing(row, other) == {c \in Columns : row[c] # other[c]}

HeldRow(x, rows) ==
    Holding(x) =>
        /\ rows[x.object] # NoRow /\ x.row \in PlantModel
        /\ EventsOfChange(x.events)
        /\ ~x.stale => /\ Changed(x, rows[x.object]) /\ ~rows[x.object].removed
                       /\ x.pc = "saved" => x.dirty = Differing(x.row, rows[x.object])

HeldOK == \A r \in Requests : AddRow(req[r], plants) /\ HeldRow(req[r], plants)

\* Additions in progress have different plants, waterings in progress different
\* schedules.
ApartOK ==
    \A r, q \in Requests : req[r].object = req[q].object =>
        /\ Adding(req[r]) /\ Adding(req[q]) => r = q
        /\ Holding(req[r]) /\ Holding(req[q]) /\ req[r].op = "water" /\ req[q].op = "water" => r = q

RequestInv == TypeInv /\ HeldOK /\ ApartOK

-----------------------------------------------------------------------------
\* While an addition holds the household's lock there is room for its plant.
CapInv ==
    /\ IsFiniteSet({p \in Plants : Exists(p)})
    /\ \A h \in Households :
         /\ Cardinality(_plant_ids(h) \ restored) <= MaxPlants
         /\ HouseholdLocked(h) => Cardinality(_plant_ids(h) \ restored) < MaxPlants
    /\ \A r, q \in Requests : Adding(req[r]) /\ Adding(req[q]) /\ req[r].row.household = req[q].row.household => r = q

\* Whoever repeats a key fails, finds the household full, or is answered from the
\* record.
FromRecord(x) ==
    x.pc = "done" /\ x.key # NoKey =>
        \/ x.answer \in {"failed", "refused"}
        \/ x.key \in DOMAIN idempotency /\ x.answer = _replayed(idempotency[x.key], x.fingerprint)

KeyInv == \A r \in Requests : FromRecord(req[r])

\* last_watered_at is the latest watering.
SpacedInv ==
    /\ \A p \in Plants \ overlapped : \A t \in 1 .. MaxNow :
         waterings[p][t] > 0 => t <= plants[p].watered
    /\ WateringsSpaced

-----------------------------------------------------------------------------
Has(topic, types) == \E i \in 1 .. Len(topic) : topic[i].type \in types

\* The last event of these types, where there is one.
IsLast(topic, i, types) ==
    /\ i \in 1 .. Len(topic) /\ topic[i].type \in types
    /\ \A j \in i + 1 .. Len(topic) : topic[j].type \notin types

Located == {"PlantAdded", "PlantMoved"}

\* The event that names a plant is the first of its topic, once, and no read row
\* has a location before it.
NamedFor(row, topic, read) ==
    /\ row = NoRow => topic = <<>> /\ read = NoPlantRow
    /\ row # NoRow /\ read.location \notin Locations =>
         /\ topic # <<>> /\ topic[1].type = "PlantAdded"
         /\ \A i \in 2 .. Len(topic) : topic[i].type # "PlantAdded"
         /\ ~read.removed /\ ~read.onboarded
    /\ read.location \in Locations => ~Has(topic, {"PlantAdded"})

OnboardedFor(topic, read) == read.onboarded \/ Has(topic, {"PlantOnboarded"})

\* What is still in the topic makes of the read row what was written.
WrittenFor(row, topic, read) ==
    /\ \A i \in 1 .. Len(topic) : IsLast(topic, i, Located) => topic[i].location = row.location
    /\ ~Has(topic, Located) => read.location = row.location
    /\ row.removed <=> read.removed \/ Has(topic, {"PlantRemoved"})

GardenFor(p) ==
    /\ NamedFor(plants[p], garden[p], plant_rows[p])
    /\ p \in onboarded <=> OnboardedFor(garden[p], plant_rows[p])
    /\ p \notin overlapped => WrittenFor(plants[p], garden[p], plant_rows[p])

GardenInv == \A p \in Plants : GardenFor(p)

\* The event that creates a care row is the first of its topic, once, and the last
\* event carries the next watering.
CareFor(planned, topic, next, read) ==
    /\ planned = 0 => topic = <<>> /\ read = NoCareRow
    /\ planned # 0 /\ read = NoCareRow => topic # <<>> /\ topic[1].type = "CareScheduleCreated"
    /\ \A i \in 1 .. Len(topic) : topic[i].type = "CareScheduleCreated" => i = 1 /\ read = NoCareRow
    /\ read # NoCareRow => read.version = 1
    /\ topic = <<>> => next = planned /\ read.next = planned
    /\ topic # <<>> => topic[Len(topic)].next = planned

WateredFor(row, topic, read) ==
    /\ \A i \in 1 .. Len(topic) : IsLast(topic, i, {"WateringCompleted"}) => topic[i].at = row.watered
    /\ ~Has(topic, {"WateringCompleted"}) => read.watered = row.watered

CaredFor(p) ==
    /\ CareFor(LastPlanned(p), care[p], plant_rows[p].next, care_rows[p])
    /\ p \notin overlapped => WateredFor(plants[p], care[p], care_rows[p])

CareInv == \A p \in Plants : CaredFor(p)

\* The entries that are not in the topic any more are in the timeline.
JournalFor(n, topic, entries) ==
    /\ topic \in Seq(Nat) /\ n \in Nat /\ Len(topic) <= n
    /\ \A i \in 1 .. Len(topic) : topic[i] = n - Len(topic) + i
    /\ entries = 1 .. (n - Len(topic))

JournalInv ==
    /\ journal \in [Plants -> Seq(Nat)] /\ recorded \in [Plants -> Nat] /\ entry_rows \in [Plants -> SUBSET Nat]
    /\ \A p \in Plants : JournalFor(recorded[p], journal[p], entry_rows[p])
    /\ \A p \in Plants : plants[p] = NoRow => recorded[p] = 0

\* A row that was filled before the species' last change was projected has its name.
NamedRow(read, row, fill) == read.species_name = IF read.location \in Locations /\ row > fill THEN row ELSE 0

NamesInv ==
    /\ filled \in [Plants -> Nat]
    /\ \A p \in Plants : filled[p] <= species_row /\ NamedRow(plant_rows[p], species_row, filled[p])

ReadInv == GardenInv /\ CareInv /\ JournalInv /\ NamesInv

-----------------------------------------------------------------------------
(* Values *)

\* No word that stands for an absence or for an answer is an identifier.
LEMMA Words ==
  /\ None \notin Households \cup Locations \cup Plants /\ Null \notin Locations /\ NoKey \notin Keys
  /\ \A a \in {None, "refused", "conflict", "failed", "ok"} : a \notin Households \cup Plants
  /\ NoRow \notin PlantModel /\ NoRow.household = None
  BY GardenAssumption DEF None, Null, NoKey, NoRow, PlantModel

\* A request that has not begun has its type.
LEMMA NewRequestType == NewRequest \in Request
<1>1. <<>> \in Seq(GardenEvent)
  OBVIOUS
<1> QED
  BY <1>1, GardenAssumption DEF NewRequest, NoFingerprint, Fingerprint, Request, AnswerWords

\* So has one that has ended, and it holds nothing.
LEMMA EndedRequest ==
  ASSUME NEW k \in Keys \cup {NoKey}, NEW f \in Fingerprint, NEW a \in AnswerWords
  PROVE  /\ Ended(k, f, a) \in Request
         /\ Ended(k, f, a).pc = "done" /\ Ended(k, f, a).key = k /\ Ended(k, f, a).answer = a
         /\ Ended(k, f, a).fingerprint = f
         /\ ~Adding(Ended(k, f, a)) /\ ~Holding(Ended(k, f, a))
         /\ \A planned : PhaseRow(Ended(k, f, a), planned)
         /\ \A rows : HeldRow(Ended(k, f, a), rows) /\ AddRow(Ended(k, f, a), rows)
<1> DEFINE x == Ended(k, f, a)
           beaten == k \in DOMAIN idempotency
<1>0. /\ beaten \in BOOLEAN
      /\ x = [NewRequest EXCEPT !.pc = "done", !.key = k, !.fingerprint = f, !.answer = a,
                               !.beaten = beaten]
  BY DEF Ended
<1> HIDE DEF x, beaten
<1>1. /\ x \in Request /\ x.pc = "done" /\ x.key = k /\ x.answer = a /\ x.op = None
      /\ x.fingerprint = f
  BY <1>0, NewRequestType DEF Request, NewRequest
<1>2. ~Adding(x) /\ ~Holding(x)
  BY <1>1 DEF Adding, Holding
<1>3. ASSUME NEW planned PROVE PhaseRow(x, planned)
  BY <1>1 DEF PhaseRow, OnPlant, None
<1>4. ASSUME NEW rows PROVE HeldRow(x, rows) /\ AddRow(x, rows)
  BY <1>1, <1>2 DEF HeldRow, AddRow
<1> QED
  BY <1>1, <1>2, <1>3, <1>4 DEF x

-----------------------------------------------------------------------------
(* The steps that change a request only *)

RestSame ==
    UNCHANGED <<tables, now, topics, history, readSide, inputs>>

\* What every such step leaves in the request.
Fits(r, x) ==
    /\ x \in Request /\ PhaseRow(x, schedules) /\ AddRow(x, plants) /\ HeldRow(x, plants)
    /\ Adding(x) => /\ x.object \notin Staged /\ ~HouseholdLocked(x.row.household)
                    /\ ~CapacityExceeded(x.row.household)
    /\ Holding(x) /\ x.op = "water" =>
         \/ ~ScheduleLocked(x.object)
         \/ Holding(req[r]) /\ req[r].op = "water" /\ req[r].object = x.object
    /\ FromRecord(x)

RequestStep(r) == \E x \in Request : req' = [req EXCEPT ![r] = x] /\ Fits(r, x)

\* What is chosen as new is one of those that are free.
LEMMA NewIsFree ==
  ASSUME NEW ids, ids # {}, NEW i \in New(ids) PROVE i \in ids
  BY DEF New

\* An ended request fits when its answer is a failure, a refusal or the record's.
LEMMA EndedFits ==
  ASSUME NEW r \in Requests, NEW k \in Keys \cup {NoKey}, NEW f \in Fingerprint, NEW a \in AnswerWords,
         \/ a \in {"failed", "refused"}
         \/ k \in DOMAIN idempotency /\ a = _replayed(idempotency[k], f),
         req' = [req EXCEPT ![r] = Ended(k, f, a)]
  PROVE  RequestStep(r)
<1>1. Fits(r, Ended(k, f, a))
  BY EndedRequest DEF Fits, FromRecord
<1> QED
  BY <1>1, EndedRequest DEF RequestStep

\* A replayed answer is the stored one, or a conflict.
LEMMA ReplayedFits ==
  ASSUME TypeInv, NEW r \in Requests, NEW k \in DOMAIN idempotency, NEW f \in Fingerprint,
         req' = [req EXCEPT ![r] = Ended(k, f, _replayed(idempotency[k], f))]
  PROVE  RequestStep(r)
<1>1. k \in Keys /\ idempotency[k].response \in Households \cup Plants
  BY DEF TypeInv, WriteTypes
<1>2. _replayed(idempotency[k], f) \in AnswerWords
  BY <1>1 DEF _replayed, AnswerWords
<1> QED
  BY <1>1, <1>2, EndedFits

\* A refused or failed command ends with a word.
LEMMA AnsweredFits ==
  ASSUME TypeInv, NEW r \in Requests, NEW a \in {"refused", "failed"},
         req' = Answered(r, a)
  PROVE  RequestStep(r)
<1>1. req[r].key \in Keys \cup {NoKey} /\ req[r].fingerprint \in Fingerprint
  BY DEF TypeInv, WriteTypes, Request
<1>2. req' = [req EXCEPT ![r] = Ended(req[r].key, req[r].fingerprint, a)]
  BY DEF Answered
<1>3. a \in AnswerWords
  BY DEF AnswerWords
<1> QED
  BY <1>1, <1>2, <1>3, EndedFits

\* commit_create replays a stored answer or begins.
LEMMA commit_createFits ==
  ASSUME TypeInv, NEW r \in Requests, NEW op \in {"household", "add"}, NEW k \in Keys \cup {NoKey},
         NEW h \in Households \cup {None}, NEW to \in Locations \cup {None},
         op = "add" => h \in Households /\ to \in Locations,
         commit_create(r, op, k, h, to)
  PROVE  RequestStep(r)
<1> DEFINE f == IF k = NoKey THEN NoFingerprint ELSE request_fingerprint(op, h, to)
           x == [NewRequest EXCEPT !.pc = "operate", !.op = op, !.key = k, !.fingerprint = f,
                                   !.home = h, !.to = to]
<1>0. f \in Fingerprint
  BY DEF NoFingerprint, request_fingerprint, Fingerprint
<1>1. CASE k \in DOMAIN idempotency
  <2>1. req' = [req EXCEPT ![r] = Ended(k, f, _replayed(idempotency[k], f))]
    BY <1>1 DEF commit_create
  <2> HIDE DEF f
  <2> QED
    BY <1>0, <1>1, <2>1, ReplayedFits
<1>2. CASE k \notin DOMAIN idempotency
  <2>1. req' = [req EXCEPT ![r] = x]
    BY <1>2 DEF commit_create
  <2> HIDE DEF f
  <2>2. x \in Request /\ x.pc = "operate" /\ x.op = op /\ x.home = h /\ x.to = to /\ ~x.stale
    BY <1>0, NewRequestType DEF NewRequest, Request
  <2> HIDE DEF x
  <2>3. ~Adding(x) /\ ~Holding(x)
    BY <2>2 DEF Adding, Holding
  <2>4. Fits(r, x)
    BY <2>2, <2>3 DEF Fits, FromRecord, PhaseRow, AddRow, HeldRow, OnPlant
  <2> QED
    BY <2>1, <2>2, <2>4 DEF RequestStep
<1> QED
  BY <1>1, <1>2

\* A new household is staged.
LEMMA CreateHouseholdFits ==
  ASSUME TypeInv, NEW r \in Requests, CreateHousehold(r) PROVE RequestStep(r)
<1>1. PICK h \in New(Households \ (households \cup Staged)) :
        req' = [req EXCEPT ![r].pc = "saved", ![r].object = h]
  BY DEF CreateHousehold
<1>2. h \in Households
  BY <1>1, NewIsFree DEF CreateHousehold
<1> DEFINE x == [req[r] EXCEPT !.pc = "saved", !.object = h]
<1>3. req \in [Requests -> Request] /\ req[r] \in Request
  BY DEF TypeInv, WriteTypes
<1>4. req' = [req EXCEPT ![r] = x]
  BY <1>1, <1>3
<1>5. x \in Request /\ x.pc = "saved" /\ x.op = "household" /\ x.object = h
  BY <1>2, <1>3 DEF Request, CreateHousehold
<1> HIDE DEF x
<1>6. ~Adding(x) /\ ~Holding(x)
  BY <1>5 DEF Adding, Holding, OnPlant
<1>7. Fits(r, x)
  BY <1>2, <1>5, <1>6 DEF Fits, FromRecord, PhaseRow, AddRow, HeldRow, OnPlant, None
<1> QED
  BY <1>4, <1>5, <1>7 DEF RequestStep

\* A plant is staged under the household's lock, or refused.
LEMMA AddPlantFits ==
  ASSUME TypeInv, NEW r \in Requests, AddPlant(r) PROVE RequestStep(r)
<1> DEFINE h == req[r].home
           to == req[r].to
<1>1. req \in [Requests -> Request] /\ req[r] \in Request
  BY DEF TypeInv, WriteTypes
<1>2. h \in Households /\ to \in Locations
  BY DEF TypeInv, PhaseOK, PhaseRow, AddPlant
<1>3. CASE req' = Answered(r, "refused")
  BY <1>3, AnsweredFits
<1>4. CASE req' # Answered(r, "refused")
  <2>1. PICK p \in New(Spare) :
          req' = [req EXCEPT ![r].pc = "saved", ![r].object = p, ![r].row = add(h, to),
                             ![r].events = <<PlantAdded(add(h, to))>>]
    BY <1>4 DEF AddPlant
  <2>2. Spare # {} /\ ~CapacityExceeded(h) /\ ~HouseholdLocked(h)
    BY <1>4 DEF AddPlant, get_for_update
  <2>3. p \in Plants /\ plants[p] = NoRow /\ p \notin Staged
    BY <2>2, <2>1, NewIsFree DEF Spare, Exists
  <2> DEFINE x == [req[r] EXCEPT !.pc = "saved", !.object = p, !.row = add(h, to),
                                 !.events = <<PlantAdded(add(h, to))>>]
  <2>4. req' = [req EXCEPT ![r] = x]
    BY <2>1, <1>1
  <2>5. add(h, to) \in PlantModel /\ add(h, to).household = h
    BY <1>2, GardenAssumption DEF add, PlantModel
  <2>6. PlantAdded(add(h, to)) \in GardenEvent
    BY <1>2 DEF add, PlantAdded, GardenEvent
  <2>7. <<PlantAdded(add(h, to))>> \in Seq(GardenEvent)
    BY <2>6
  <2>8. /\ x \in Request /\ x.pc = "saved" /\ x.op = "add" /\ x.object = p /\ x.home = h /\ x.to = to
        /\ x.row = add(h, to) /\ x.events = <<PlantAdded(add(h, to))>>
    BY <1>1, <2>3, <2>5, <2>7 DEF Request, AddPlant
  <2> HIDE DEF x
  <2>9. ~Holding(x) /\ Adding(x)
    BY <2>8 DEF Holding, Adding, OnPlant
  <2>10. PhaseRow(x, schedules) /\ AddRow(x, plants) /\ HeldRow(x, plants)
    BY <1>2, <2>3, <2>8, <2>9 DEF PhaseRow, AddRow, HeldRow, OnPlant, None
  <2>11. Fits(r, x)
    BY <2>2, <2>3, <2>5, <2>8, <2>9, <2>10 DEF Fits, FromRecord
  <2> QED
    BY <2>4, <2>8, <2>11 DEF RequestStep
<1> QED
  BY <1>3, <1>4

\* A request that takes a plant in hand fits, when what it makes of the row is
\* its operation's, and a watering when the schedule is free.
LEMMA LoadFits ==
  ASSUME TypeInv, NEW r \in Requests, NEW op \in OnPlant, NEW p \in Plants, NEW row \in PlantModel,
         NEW events \in Seq(GardenEvent), EventsOfChange(events),
         plants[p] # NoRow, ~plants[p].removed, ~req[r].stale, req[r].pc \in {"idle", "operate"}, req[r].key = NoKey,
         op = "move" => \E to \in Locations :
                          /\ row = move(plants[p], to)
                          /\ events = IF to = plants[p].location THEN <<>> ELSE <<PlantMoved(to)>>,
         op = "remove" => row = remove(plants[p]) /\ events = <<PlantRemoved>>,
         op = "water" => /\ row = water(plants[p], req[r].at) /\ ~TooSoon(plants[p], req[r].at)
                         /\ events = <<>> /\ ~ScheduleLocked(p)
                         /\ req[r].at \in 1 .. MaxNow /\ schedules[p] # 0,
         Load(r, op, p, row, events)
  PROVE  RequestStep(r)
<1>1. req \in [Requests -> Request] /\ req[r] \in Request
  BY DEF TypeInv, WriteTypes
<1> DEFINE x == [req[r] EXCEPT !.pc = "loaded", !.op = op, !.object = p, !.row = row, !.events = events]
<1>2. req' = [req EXCEPT ![r] = x]
  BY DEF Load
<1>3. /\ x \in Request /\ x.pc = "loaded" /\ x.op = op /\ x.object = p /\ x.row = row
      /\ x.events = events /\ x.at = req[r].at /\ x.stale = req[r].stale /\ x.key = req[r].key
  BY <1>1 DEF Request, OnPlant
<1> HIDE DEF x
<1>4. ~Adding(x) /\ Holding(x)
  BY <1>3 DEF Holding, Adding
<1>5. PhaseRow(x, schedules) /\ AddRow(x, plants)
  BY <1>3, <1>4 DEF PhaseRow, AddRow, OnPlant
<1>6. Changed(x, plants[p])
  BY <1>3 DEF Changed
<1>7. HeldRow(x, plants)
  BY <1>3, <1>4, <1>6 DEF HeldRow
<1>8. Fits(r, x)
  BY <1>3, <1>4, <1>5, <1>7 DEF Fits, FromRecord
<1> QED
  BY <1>2, <1>3, <1>8 DEF RequestStep

\* A request that has not begun, or waits for its lock, is not stale, and a command
\* on a plant has no key.
LEMMA NotYetStale ==
  ASSUME NEW r \in Requests, TypeInv, req[r].pc \in {"idle", "operate"}
  PROVE  ~req[r].stale /\ (req[r].pc = "idle" \/ req[r].op = "water" => req[r].key = NoKey)
  BY DEF TypeInv, PhaseOK, PhaseRow, NewRequest, OnPlant

\* A row that is there is of its type, and its changes are.
LEMMA RowTypes ==
  ASSUME TypeInv, NEW p \in Plants, plants[p] # NoRow
  PROVE  /\ plants[p] \in PlantModel
         /\ \A to \in Locations : move(plants[p], to) \in PlantModel
         /\ remove(plants[p]) \in PlantModel
         /\ \A at \in 0 .. MaxNow : water(plants[p], at) \in PlantModel
<1>1. plants[p] \in PlantModel
  BY DEF TypeInv, WriteTypes
<1> QED
  BY <1>1 DEF PlantModel, move, remove, water

\* A move takes the plant in hand.
LEMMA MovePlantFits ==
  ASSUME TypeInv, NEW r \in Requests, NEW p \in Plants, NEW to \in Locations, MovePlant(r, p, to)
  PROVE  RequestStep(r)
<1> DEFINE events == IF to = plants[p].location THEN <<>> ELSE <<PlantMoved(to)>>
<1>1. /\ plants[p] # NoRow /\ ~plants[p].removed /\ req[r].pc = "idle"
      /\ Load(r, "move", p, move(plants[p], to), events)
  BY DEF MovePlant, _ensure_active, Exists
<1>2. PlantMoved(to) \in GardenEvent /\ PlantMoved(to).type = "PlantMoved"
  BY DEF PlantMoved, GardenEvent
<1>3. <<PlantMoved(to)>> \in Seq(GardenEvent) /\ <<>> \in Seq(GardenEvent)
  BY <1>2
<1>4. events \in Seq(GardenEvent) /\ EventsOfChange(events)
  BY <1>2, <1>3 DEF EventsOfChange
<1>5. \E loc \in Locations :
        /\ move(plants[p], to) = move(plants[p], loc)
        /\ events = IF loc = plants[p].location THEN <<>> ELSE <<PlantMoved(loc)>>
  OBVIOUS
<1> HIDE DEF events
<1> QED
  BY <1>1, <1>4, <1>5, RowTypes, NotYetStale, LoadFits DEF OnPlant

\* So does a removal.
LEMMA RemovePlantFits ==
  ASSUME TypeInv, NEW r \in Requests, NEW p \in Plants, RemovePlant(r, p)
  PROVE  RequestStep(r)
<1>1. /\ plants[p] # NoRow /\ ~plants[p].removed /\ req[r].pc = "idle"
      /\ Load(r, "remove", p, remove(plants[p]), <<PlantRemoved>>)
  BY DEF RemovePlant, _ensure_active, Exists
<1>2. PlantRemoved \in GardenEvent /\ PlantRemoved.type = "PlantRemoved"
  BY DEF PlantRemoved, GardenEvent
<1>3. <<PlantRemoved>> \in Seq(GardenEvent)
  BY <1>2
<1>4. EventsOfChange(<<PlantRemoved>>)
  BY <1>2 DEF EventsOfChange
<1> QED
  BY <1>1, <1>3, <1>4, RowTypes, NotYetStale, LoadFits DEF OnPlant

\* A watering reads the clock, and the schedule is there.
LEMMA WaterPlantCommandFits ==
  ASSUME TypeInv, NEW r \in Requests, NEW p \in Plants, WaterPlantCommand(r, p)
  PROVE  RequestStep(r)
<1> DEFINE x == [req[r] EXCEPT !.pc = "operate", !.op = "water", !.object = p, !.at = now]
<1>1. req[r] \in Request /\ now \in 1 .. MaxNow
  BY DEF TypeInv, WriteTypes
<1>2. req' = [req EXCEPT ![r] = x] /\ schedules[p] # 0 /\ req[r].pc = "idle"
  BY DEF WaterPlantCommand
<1>3. ~req[r].stale /\ req[r].key = NoKey
  BY <1>2, NotYetStale
<1>4. now \in 0 .. MaxNow
  BY <1>1
<1>5. /\ x \in Request /\ x.pc = "operate" /\ x.op = "water" /\ x.object = p /\ x.at = now
      /\ x.stale = req[r].stale /\ x.key = req[r].key
  BY <1>1, <1>4 DEF Request, OnPlant
<1> HIDE DEF x
<1>6. ~Adding(x) /\ ~Holding(x)
  BY <1>5 DEF Holding, Adding
<1>7. Fits(r, x)
  BY <1>1, <1>2, <1>3, <1>5, <1>6 DEF Fits, FromRecord, PhaseRow, AddRow, HeldRow, OnPlant, None
<1> QED
  BY <1>2, <1>5, <1>7 DEF RequestStep

\* Under the schedule's lock it takes the plant in hand, or is refused.
LEMMA WaterPlantFits ==
  ASSUME TypeInv, NEW r \in Requests, WaterPlant(r)
  PROVE  RequestStep(r)
<1> DEFINE p == req[r].object
<1>1. req[r].pc = "operate" /\ req[r].op = "water" /\ ~ScheduleLocked(p)
  BY DEF WaterPlant
<1>2. p \in Plants /\ req[r].at \in 1 .. MaxNow
  BY <1>1 DEF TypeInv, PhaseOK, PhaseRow, OnPlant
<1>3. CASE req' = Answered(r, "refused")
  BY <1>3, AnsweredFits
<1>4. CASE req' # Answered(r, "refused")
  <2>1. /\ plants[p] # NoRow /\ ~plants[p].removed /\ ~TooSoon(plants[p], req[r].at) /\ schedules[p] # 0
        /\ Load(r, "water", p, water(plants[p], req[r].at), <<>>)
    BY <1>4 DEF WaterPlant, _ensure_active, Exists
  <2>2. <<>> \in Seq(GardenEvent) /\ EventsOfChange(<<>>)
    BY DEF EventsOfChange
  <2>3. req[r].at \in 0 .. MaxNow
    BY <1>2
  <2>4. ~req[r].stale /\ req[r].key = NoKey
    BY <1>1, NotYetStale
  <2>5. water(plants[p], req[r].at) \in PlantModel
    BY <1>2, <2>1, <2>3, RowTypes
  <2> QED
    BY <1>1, <1>2, <2>1, <2>2, <2>4, <2>5, LoadFits DEF OnPlant
<1> QED
  BY <1>3, <1>4

\* merge compares the aggregate with the row.
LEMMA SaveFits ==
  ASSUME RequestInv, NEW r \in Requests, Save(r)
  PROVE  RequestStep(r)
<1> DEFINE p == req[r].object
           dirty == {c \in Columns : req[r].row[c] # plants[req[r].object][c]}
           x == [req[r] EXCEPT !.pc = "saved", !.dirty = dirty]
<1>1. req \in [Requests -> Request] /\ req[r] \in Request
  BY DEF RequestInv, TypeInv, WriteTypes
<1>2. req[r].pc = "loaded" /\ req' = [req EXCEPT ![r].pc = "saved", ![r].dirty = dirty]
  BY DEF Save
<1>3. req' = [req EXCEPT ![r] = x]
  BY <1>1, <1>2
<1>4. dirty = Differing(req[r].row, plants[p]) /\ dirty \subseteq Columns
  BY DEF Differing
<1> HIDE DEF dirty
<1>5. /\ x \in Request /\ x.pc = "saved" /\ x.op = req[r].op /\ x.object = p /\ x.row = req[r].row
      /\ x.events = req[r].events /\ x.at = req[r].at /\ x.stale = req[r].stale /\ x.dirty = dirty
      /\ x.key = req[r].key
  BY <1>1, <1>4 DEF Request
<1>6. /\ PhaseRow(req[r], schedules) /\ HeldRow(req[r], plants)
  BY DEF RequestInv, TypeInv, PhaseOK, HeldOK
<1> HIDE DEF x
<1>7. req[r].op \in OnPlant /\ Holding(req[r])
  BY <1>2, <1>6 DEF PhaseRow, Holding
<1>8. Holding(x) /\ ~Adding(x)
  BY <1>5, <1>7 DEF Holding, Adding, OnPlant
<1>9. PhaseRow(x, schedules) /\ AddRow(x, plants)
  BY <1>2, <1>5, <1>6, <1>7, <1>8 DEF PhaseRow, AddRow, OnPlant, None
<1>10. ~x.stale => Changed(x, plants[p])
  BY <1>5, <1>6, <1>7 DEF HeldRow, Changed
<1>11. HeldRow(x, plants)
  BY <1>4, <1>5, <1>6, <1>7, <1>10 DEF HeldRow
<1>12. Fits(r, x)
  BY <1>5, <1>7, <1>8, <1>9, <1>11 DEF Fits, FromRecord
<1> QED
  BY <1>3, <1>5, <1>12 DEF RequestStep

\* A failed request keeps its key and holds nothing.
LEMMA AbortFits ==
  ASSUME TypeInv, NEW r \in Requests, Abort(r) PROVE RequestStep(r)
  BY AnsweredFits DEF Abort

-----------------------------------------------------------------------------
(* The commits *)

\* The merge writes the dirty columns over the row there is.
LEMMA MergedRow ==
  ASSUME RequestInv, NEW r \in Requests, Holding(req[r])
  PROVE  LET p == req[r].object
             new == plant_to_model(r)
         IN  /\ p \in Plants /\ plants[p] \in PlantModel /\ plants[p] # NoRow
             /\ new \in PlantModel /\ new.household = plants[p].household
             /\ ~req[r].stale /\ req[r].pc = "saved" => new = req[r].row
<1> DEFINE p == req[r].object
           new == plant_to_model(r)
           old == plants[p]
           row == req[r].row
<1>1. /\ PhaseRow(req[r], schedules) /\ HeldRow(req[r], plants) /\ req[r] \in Request
  BY DEF RequestInv, TypeInv, WriteTypes, PhaseOK, HeldOK
<1>2. p \in Plants /\ plants[p] # NoRow /\ row \in PlantModel
  BY <1>1 DEF PhaseRow, HeldRow, Holding
<1>3. plants[p] \in PlantModel
  BY <1>2 DEF RequestInv, TypeInv, WriteTypes
<1>4. req[r].dirty \subseteq Columns
  BY <1>1 DEF Request
<1>5. new = [household |-> old.household,
             location |-> IF "location" \in req[r].dirty THEN row.location ELSE old.location,
             watered |-> IF "watered" \in req[r].dirty THEN row.watered ELSE old.watered,
             removed |-> IF "removed" \in req[r].dirty THEN row.removed ELSE old.removed]
  BY <1>4 DEF plant_to_model, NoRow, Columns
<1>6. new \in PlantModel /\ new.household = old.household
  BY <1>2, <1>3, <1>5 DEF PlantModel
<1>7. ASSUME ~req[r].stale, req[r].pc = "saved" PROVE new = row
  <2>1. req[r].dirty = Differing(row, old) /\ Changed(req[r], old)
    BY <1>1, <1>7 DEF HeldRow
  <2>2. row.household = old.household
    BY <1>3, <2>1 DEF Changed, Holding, OnPlant, move, remove, water, PlantModel
  <2>3. /\ "location" \in req[r].dirty <=> row["location"] # old["location"]
        /\ "watered" \in req[r].dirty <=> row["watered"] # old["watered"]
        /\ "removed" \in req[r].dirty <=> row["removed"] # old["removed"]
    BY <2>1 DEF Differing, Columns
  <2> QED
    BY <1>2, <1>3, <1>5, <2>2, <2>3 DEF PlantModel
<1> QED
  BY <1>2, <1>3, <1>6, <1>7

-----------------------------------------------------------------------------
(* What the requests hold, step by step *)

\* The horizon grows by an interval with each event.
LEMMA Horizons ==
  /\ \A n \in Nat : Horizon(n) \in Nat /\ Horizon(n) >= MaxNow + Interval
  /\ \A n \in Nat : Horizon(n) + Interval = Horizon(n + 1)
  /\ \A m, n \in Nat : m <= n => Horizon(m) <= Horizon(n)
<1>1. Interval \in Nat /\ MaxNow \in Nat
  BY GardenAssumption
<1>2. \A n \in Nat : n * Interval \in Nat /\ (1 + n) * Interval = Interval + n * Interval
  BY <1>1
<1>3. \A n \in Nat : Horizon(n) \in Nat /\ Horizon(n) >= MaxNow + Interval
  BY <1>1, <1>2 DEF Horizon
<1>4. ASSUME NEW n \in Nat PROVE Horizon(n) + Interval = Horizon(n + 1)
  <2>1. (1 + (n + 1)) * Interval = Interval + (1 + n) * Interval
    BY <1>1
  <2> QED
    BY <1>1, <1>2, <2>1 DEF Horizon
<1>5. ASSUME NEW m \in Nat, NEW n \in Nat, m <= n PROVE Horizon(m) <= Horizon(n)
  <2>1. (1 + n) * Interval = (1 + m) * Interval + (n - m) * Interval
    BY <1>1
  <2>2. n - m \in Nat
    BY <1>5
  <2>3. (n - m) * Interval \in Nat
    BY <1>1, <2>2
  <2>4. (1 + m) * Interval \in Nat /\ (1 + n) * Interval \in Nat
    BY <1>1
  <2> QED
    BY <1>1, <2>1, <2>3, <2>4 DEF Horizon
<1> QED
  BY <1>3, <1>4, <1>5

\* A step of a request only keeps what the requests hold.
LEMMA RequestStepKeeps ==
  ASSUME RequestInv, NEW r \in Requests, RequestStep(r), RestSame
  PROVE  RequestInv'
<1>1. PICK x \in Request : req' = [req EXCEPT ![r] = x] /\ Fits(r, x)
  BY DEF RequestStep
<1>2. req \in [Requests -> Request]
  BY DEF RequestInv, TypeInv, WriteTypes
<1>3. /\ req' \in [Requests -> Request] /\ req'[r] = x
      /\ \A q \in Requests \ {r} : req'[q] = req[q]
  BY <1>1, <1>2
<1>4. /\ UNCHANGED <<households, plants, schedules, idempotency, now, garden, care, waterings, deleted>>
      /\ UNCHANGED <<catalog, version, background, plant_rows, care_rows, species_row>>
  BY DEF RestSame, tables, topics, history, readSide, inputs
<1>5. WriteTypes' /\ TopicTypes' /\ ReadTypes' /\ CatalogOK' /\ ScheduledOK'
  BY <1>3, <1>4 DEF RequestInv, TypeInv, WriteTypes, TopicTypes, ReadTypes, CatalogOK, ScheduledOK, ScheduledFor
<1>6. PhaseOK'
  BY <1>1, <1>3, <1>4 DEF RequestInv, TypeInv, PhaseOK, Fits
<1>7. HeldOK'
  BY <1>1, <1>3, <1>4 DEF RequestInv, HeldOK, Fits
<1>8. ApartOK'
  <2>1. ASSUME NEW q \in Requests \ {r}, x.object = req[q].object, Adding(x), Adding(req[q])
        PROVE  FALSE
    BY <1>1, <2>1 DEF Fits, Staged, Adding
  <2>2. ASSUME NEW q \in Requests \ {r}, x.object = req[q].object, Holding(x), Holding(req[q]),
               x.op = "water", req[q].op = "water"
        PROVE  FALSE
    BY <1>1, <2>2 DEF Fits, ScheduleLocked, Holding, RequestInv, ApartOK
  <2>3. ASSUME NEW s \in Requests, NEW q \in Requests, req'[s].object = req'[q].object
        PROVE  /\ Adding(req'[s]) /\ Adding(req'[q]) => s = q
               /\ Holding(req'[s]) /\ Holding(req'[q]) /\ req'[s].op = "water" /\ req'[q].op = "water" => s = q
    <3>1. CASE s # r /\ q # r
      BY <1>3, <2>3, <3>1 DEF RequestInv, ApartOK
    <3>2. CASE s = r /\ q # r
      BY <1>3, <2>1, <2>2, <2>3, <3>2
    <3>3. CASE s # r /\ q = r
      BY <1>3, <2>1, <2>2, <2>3, <3>3
    <3> QED
      BY <3>1, <3>2, <3>3
  <2> QED
    BY <2>3 DEF ApartOK, Adding, Holding
<1> QED
  BY <1>5, <1>6, <1>7, <1>8 DEF RequestInv, TypeInv

\* What a topic holds after a commit.
LEMMA Appended ==
  ASSUME NEW S, NEW s \in Seq(S), NEW e \in S
  PROVE  /\ s \o <<e>> = Append(s, e) /\ s \o <<>> = s
         /\ Append(s, e) \in Seq(S) /\ Len(Append(s, e)) = Len(s) + 1
         /\ \A i \in 1 .. Len(s) : Append(s, e)[i] = s[i]
         /\ Append(s, e)[Len(s) + 1] = e
  OBVIOUS

\* What is left of it after a delivery.
LEMMA Delivered ==
  ASSUME NEW S, NEW s \in Seq(S), s # <<>>
  PROVE  /\ Tail(s) \in Seq(S) /\ Len(Tail(s)) = Len(s) - 1 /\ Len(s) \in Nat \ {0}
         /\ \A i \in 1 .. Len(s) - 1 : Tail(s)[i] = s[i + 1]
         /\ Head(s) = s[1] /\ Head(s) \in S
  OBVIOUS

\* A commit of commit_create replays the answer of who took the key, or creates
\* the object and stores the answer.
LEMMA CommitCreateEffect ==
  ASSUME RequestInv, NEW r \in Requests, CommitCreate(r), UNCHANGED <<readSide, inputs>>
  PROVE  \/ RequestStep(r) /\ RestSame
         \/ /\ req[r].key \notin DOMAIN idempotency
            /\ req[r].object \in Households \cup Plants
            /\ req' = [req EXCEPT ![r] = Ended(req[r].key, req[r].fingerprint, req[r].object)]
            /\ idempotency' = remember(r)
            /\ \/ UNCHANGED <<plants, garden>> /\ households' = households \cup {req[r].object}
                                               /\ req[r].object \in Households
               \/ /\ Adding(req[r]) /\ UNCHANGED households
                  /\ plants' = [plants EXCEPT ![req[r].object] = req[r].row]
                  /\ garden' = [garden EXCEPT ![req[r].object] = Append(@, PlantAdded(req[r].row))]
<1>1. CASE KeyTaken(r)
  <2>1. req[r].key \in DOMAIN idempotency
    BY <1>1 DEF KeyTaken
  <2>2. req' = [req EXCEPT ![r] = Ended(req[r].key, req[r].fingerprint,
                                      _replayed(idempotency[req[r].key], req[r].fingerprint))]
    BY <1>1 DEF CommitCreate, Answered
  <2>3. RequestStep(r)
    <3>1. req[r].fingerprint \in Fingerprint
      BY DEF RequestInv, TypeInv, WriteTypes, Request
    <3> QED
      BY <2>1, <2>2, <3>1, ReplayedFits DEF RequestInv
  <2>4. RestSame
    BY <1>1 DEF CommitCreate, RestSame, topics, tables
  <2> QED
    BY <2>3, <2>4
<1>2. CASE ~KeyTaken(r)
  <2>1. /\ req[r].key \notin DOMAIN idempotency /\ idempotency' = remember(r)
        /\ req' = [req EXCEPT ![r] = Ended(req[r].key, req[r].fingerprint, req[r].object)]
        /\ req[r].pc = "saved"
    BY <1>2 DEF CommitCreate, Answered, KeyTaken
  <2>2. CASE req[r].op = "household"
    <3>1. req[r].object \in Households
      BY <2>1, <2>2 DEF RequestInv, TypeInv, PhaseOK, PhaseRow
    <3>2. UNCHANGED <<plants, garden>> /\ households' = households \cup {req[r].object}
      BY <1>2, <2>2 DEF CommitCreate
    <3> QED
      BY <2>1, <3>1, <3>2
  <2>3. CASE req[r].op = "add"
    <3>1. Adding(req[r])
      BY <2>1, <2>3 DEF Adding
    <3>2. req[r].object \in Plants /\ req[r].events = <<PlantAdded(req[r].row)>>
      BY <3>1 DEF RequestInv, HeldOK, AddRow
    <3>3. /\ plants' = [plants EXCEPT ![req[r].object] = req[r].row] /\ UNCHANGED households
          /\ garden' = [garden EXCEPT ![req[r].object] = @ \o req[r].events]
      BY <1>2, <2>3 DEF CommitCreate
    <3>4. garden[req[r].object] \in Seq(GardenEvent)
      BY <3>2 DEF RequestInv, TypeInv, TopicTypes
    <3>5. garden[req[r].object] \o <<PlantAdded(req[r].row)>> = Append(garden[req[r].object], PlantAdded(req[r].row))
      BY <3>4
    <3>6. garden' = [garden EXCEPT ![req[r].object] = Append(@, PlantAdded(req[r].row))]
      BY <3>2, <3>3, <3>5
    <3> QED
      BY <2>1, <3>1, <3>2, <3>3, <3>6
  <2> QED
    BY <1>2, <2>2, <2>3 DEF CommitCreate
<1> QED
  BY <1>1, <1>2

\* A row that was added is the one its command describes.
LEMMA AddedRow ==
  ASSUME RequestInv, NEW r \in Requests, Adding(req[r])
  PROVE  /\ req[r].object \in Plants /\ plants[req[r].object] = NoRow
         /\ req[r].row \in PlantModel /\ req[r].row # NoRow
         /\ req[r].row.watered = 0 /\ ~req[r].row.removed /\ req[r].row.location \in Locations
         /\ req[r].row.household \in Households
         /\ PlantAdded(req[r].row) \in GardenEvent
         /\ PlantAdded(req[r].row).type = "PlantAdded"
         /\ PlantAdded(req[r].row).location = req[r].row.location
<1>1. /\ req[r].object \in Plants /\ plants[req[r].object] = NoRow
      /\ req[r].row = add(req[r].home, req[r].to)
  BY DEF RequestInv, HeldOK, AddRow
<1>2. req[r].home \in Households /\ req[r].to \in Locations
  BY DEF RequestInv, TypeInv, PhaseOK, PhaseRow, Adding
<1>3. /\ req[r].row \in PlantModel /\ req[r].row.watered = 0 /\ ~req[r].row.removed
      /\ req[r].row.location \in Locations /\ req[r].row.household \in Households
  BY <1>1, <1>2, GardenAssumption DEF add, PlantModel
<1> QED
  BY <1>1, <1>3, Words DEF PlantAdded, GardenEvent

\* The creation of an object keeps what the other requests hold.
LEMMA CommitCreateKeeps ==
  ASSUME RequestInv, NEW r \in Requests, CommitCreate(r), UNCHANGED <<readSide, inputs>>
  PROVE  RequestInv'
<1>1. CASE RequestStep(r) /\ RestSame
  BY <1>1, RequestStepKeeps
<1>2. CASE ~(RequestStep(r) /\ RestSame)
  <2> DEFINE p == req[r].object
             k == req[r].key
             f == req[r].fingerprint
  <2>1. /\ p \in Households \cup Plants
        /\ req' = [req EXCEPT ![r] = Ended(k, f, p)] /\ idempotency' = remember(r)
    BY <1>2, CommitCreateEffect
  <2>2. \/ UNCHANGED <<plants, garden>> /\ households' = households \cup {p} /\ p \in Households
        \/ /\ Adding(req[r]) /\ UNCHANGED households
           /\ plants' = [plants EXCEPT ![p] = req[r].row]
           /\ garden' = [garden EXCEPT ![p] = Append(@, PlantAdded(req[r].row))]
    BY <1>2, CommitCreateEffect
  <2>3. UNCHANGED <<schedules, now, care, waterings, deleted, catalog, version, background, plant_rows, care_rows, species_row>>
    BY <1>2, <2>1 DEF CommitCreate, readSide, inputs, tables, history
  <2>4. req \in [Requests -> Request] /\ k \in Keys \cup {NoKey} /\ f \in Fingerprint
    BY DEF RequestInv, TypeInv, WriteTypes, Request
  <2>5. /\ Ended(k, f, p) \in Request /\ ~Adding(Ended(k, f, p)) /\ ~Holding(Ended(k, f, p))
        /\ PhaseRow(Ended(k, f, p), schedules)
        /\ HeldRow(Ended(k, f, p), plants') /\ AddRow(Ended(k, f, p), plants')
    BY <2>1, <2>4, EndedRequest DEF AnswerWords
  <2>6. /\ req' \in [Requests -> Request] /\ req'[r] = Ended(k, f, p)
        /\ \A q \in Requests \ {r} : req'[q] = req[q]
    BY <2>1, <2>4, <2>5
  <2>7. \A i \in DOMAIN idempotency' : i \in Keys /\ idempotency'[i].response \in Households \cup Plants
    BY <2>1, <2>4 DEF RequestInv, TypeInv, WriteTypes, remember
  <2>8. /\ plants' \in [Plants -> PlantModel \cup {NoRow}]
        /\ garden' \in [Plants -> Seq(GardenEvent)]
        /\ \A q \in Plants : plants[q] # NoRow => plants'[q] = plants[q]
    <3>1. plants \in [Plants -> PlantModel \cup {NoRow}] /\ garden \in [Plants -> Seq(GardenEvent)]
      BY DEF RequestInv, TypeInv, WriteTypes, TopicTypes
    <3>2. CASE UNCHANGED <<plants, garden>>
      BY <3>1, <3>2
    <3>3. CASE ~UNCHANGED <<plants, garden>>
      <4>1. /\ Adding(req[r]) /\ plants' = [plants EXCEPT ![p] = req[r].row]
            /\ garden' = [garden EXCEPT ![p] = Append(@, PlantAdded(req[r].row))]
        BY <2>2, <3>3
      <4>2. /\ p \in Plants /\ plants[p] = NoRow /\ req[r].row \in PlantModel
            /\ PlantAdded(req[r].row) \in GardenEvent
        BY <4>1, AddedRow
      <4>3. Append(garden[p], PlantAdded(req[r].row)) \in Seq(GardenEvent)
        BY <3>1, <4>2
      <4> QED
        BY <3>1, <4>1, <4>2, <4>3
    <3> QED
      BY <3>2, <3>3
  <2>9. households' \subseteq Households
    BY <2>2 DEF RequestInv, TypeInv, WriteTypes
  <2>10. WriteTypes' /\ TopicTypes' /\ ReadTypes' /\ CatalogOK'
    BY <2>3, <2>6, <2>7, <2>8, <2>9 DEF RequestInv, TypeInv, WriteTypes, TopicTypes, ReadTypes, CatalogOK
  <2>11. PhaseOK'
    BY <2>3, <2>5, <2>6 DEF RequestInv, TypeInv, PhaseOK
  <2>12. ScheduledOK'
    BY <2>3, <2>8 DEF RequestInv, TypeInv, ScheduledOK, ScheduledFor
  <2>13. ASSUME NEW q \in Requests \ {r}
         PROVE  AddRow(req[q], plants') /\ HeldRow(req[q], plants')
    <3>1. AddRow(req[q], plants) /\ HeldRow(req[q], plants) /\ PhaseRow(req[q], schedules)
      BY DEF RequestInv, HeldOK, TypeInv, PhaseOK
    <3>2. ASSUME Adding(req[q]) PROVE plants'[req[q].object] = NoRow
      <4>1. req[q].object \in Plants /\ plants[req[q].object] = NoRow
        BY <3>1, <3>2 DEF AddRow
      <4>2. Adding(req[r]) => req[q].object # p
        BY <3>2 DEF RequestInv, ApartOK
      <4> QED
        BY <2>2, <4>1, <4>2 DEF RequestInv, TypeInv, WriteTypes
    <3>3. ASSUME Holding(req[q]) PROVE plants'[req[q].object] = plants[req[q].object]
      BY <2>8, <3>1, <3>3 DEF HeldRow, Holding, PhaseRow
    <3> QED
      BY <3>1, <3>2, <3>3 DEF AddRow, HeldRow
  <2>14. HeldOK'
    BY <2>5, <2>6, <2>13 DEF HeldOK
  <2>15. ApartOK'
    BY <2>5, <2>6 DEF RequestInv, ApartOK
  <2> QED
    BY <2>10, <2>11, <2>12, <2>14, <2>15 DEF RequestInv, TypeInv
<1> QED
  BY <1>1, <1>2

\* A commit on a plant writes its row, and the plant's events join their topic.
LEMMA CommitEffect ==
  ASSUME RequestInv, NEW r \in Requests, Commit(r)
  PROVE  LET p == req[r].object
             new == plant_to_model(r)
         IN  /\ Holding(req[r]) /\ p \in Plants /\ plants[p] \in PlantModel /\ plants[p] # NoRow
             /\ plants' = [plants EXCEPT ![p] = new]
             /\ new \in PlantModel /\ new # NoRow /\ new.household = plants[p].household
             /\ \/ garden' = garden
                \/ \E e \in GardenEvent : /\ e.type \in {"PlantMoved", "PlantRemoved"}
                                          /\ garden' = [garden EXCEPT ![p] = Append(@, e)]
             /\ IF req[r].stale THEN overlapped' = overlapped \cup {p} ELSE overlapped' = overlapped
             /\ IF plants[p].removed /\ ~new.removed THEN restored' = restored \cup {p}
                ELSE restored' = restored
<1> DEFINE p == req[r].object
           new == plant_to_model(r)
<1>1. Holding(req[r])
  BY DEF Commit, Holding, OnPlant
<1>2. /\ p \in Plants /\ plants[p] \in PlantModel /\ plants[p] # NoRow
      /\ new \in PlantModel /\ new.household = plants[p].household
  BY <1>1, MergedRow
<1>3. plants' = [plants EXCEPT ![p] = new] /\ garden' = [garden EXCEPT ![p] = @ \o req[r].events]
  BY DEF Commit
<1>4. plants'[p] = new
  BY <1>2, <1>3 DEF RequestInv, TypeInv, WriteTypes
<1>5. /\ overlapped' = overlapped \cup {q \in {p} : req[r].stale}
      /\ restored' = restored \cup {q \in {p} : plants[p].removed /\ ~plants'[p].removed}
  BY DEF Commit
<1> HIDE DEF new
<1>6. IF req[r].stale THEN overlapped' = overlapped \cup {p} ELSE overlapped' = overlapped
  BY <1>5
<1>7. IF plants[p].removed /\ ~new.removed THEN restored' = restored \cup {p} ELSE restored' = restored
  BY <1>4, <1>5
<1>8. garden \in [Plants -> Seq(GardenEvent)] /\ EventsOfChange(req[r].events)
  BY <1>1 DEF RequestInv, TypeInv, TopicTypes, HeldOK, HeldRow
<1>9. \/ garden' = garden
      \/ \E e \in GardenEvent : /\ e.type \in {"PlantMoved", "PlantRemoved"}
                                /\ garden' = [garden EXCEPT ![p] = Append(@, e)]
  <2>1. CASE req[r].events = <<>>
    <3>1. garden[p] \o <<>> = garden[p]
      BY <1>2, <1>8
    <3> QED
      BY <1>3, <1>8, <2>1, <3>1
  <2>2. ASSUME NEW e \in GardenEvent, e.type \in {"PlantMoved", "PlantRemoved"}, req[r].events = <<e>>
        PROVE  garden' = [garden EXCEPT ![p] = Append(@, e)]
    <3>1. garden[p] \o <<e>> = Append(garden[p], e)
      BY <1>2, <1>8
    <3> QED
      BY <1>3, <1>8, <2>2, <3>1
  <2> QED
    BY <1>8, <2>1, <2>2 DEF EventsOfChange
<1>10. new # NoRow
  BY <1>2, Words
<1> QED
  BY <1>1, <1>2, <1>3, <1>6, <1>7, <1>9, <1>10 DEF new

\* The committing request ends, and the others that hold its plant hold an old one.
LEMMA CommitRequests ==
  ASSUME RequestInv, NEW r \in Requests, Commit(r)
  PROVE  /\ req' \in [Requests -> Request]
         /\ req'[r] = Ended(req[r].key, req[r].fingerprint, "ok")
         /\ \A q \in Requests \ {r} :
              \/ req'[q] = req[q] /\ ~(Holding(req[q]) /\ req[q].object = req[r].object)
              \/ /\ req[q].object = req[r].object /\ req[q].pc \in {"loaded", "saved"}
                 /\ req'[q] = [req[q] EXCEPT !.stale = TRUE]
<1> DEFINE p == req[r].object
<1>1. req \in [Requests -> Request]
  BY DEF RequestInv, TypeInv, WriteTypes
<1>2. Holding(req[r])
  BY CommitEffect
<1>3. req' = Aged(r, p)
  BY DEF Commit
<1>4. req'[r] = Ended(req[r].key, req[r].fingerprint, "ok")
  BY <1>1, <1>3 DEF Aged, Answered
<1>5. ASSUME NEW q \in Requests \ {r}
      PROVE  \/ req'[q] = req[q] /\ ~(Holding(req[q]) /\ req[q].object = p)
             \/ /\ req[q].object = p /\ req[q].pc \in {"loaded", "saved"}
                /\ req'[q] = [req[q] EXCEPT !.stale = TRUE]
  <2>1. Answered(r, "ok")[q] = req[q]
    BY <1>1 DEF Answered
  <2>2. CASE Holds(q, p) /\ {req[q].op, req[r].op} # {"water"}
    BY <1>3, <2>2 DEF Aged, Holds
  <2>3. CASE Holds(q, p) /\ {req[q].op, req[r].op} = {"water"}
    <3>1. req[q].op = "water" /\ req[r].op = "water"
      BY <2>3
    <3>2. Holding(req[q]) /\ req[q].object = p
      BY <2>3, <3>1 DEF Holding, Holds, OnPlant
    <3> QED
      BY <1>2, <3>1, <3>2 DEF RequestInv, ApartOK
  <2>4. CASE ~Holds(q, p)
    BY <1>3, <2>1, <2>4 DEF Aged, Holds, Holding
  <2> QED
    BY <2>2, <2>3, <2>4
<1>6. Ended(req[r].key, req[r].fingerprint, "ok") \in Request
  <2>1. req[r].key \in Keys \cup {NoKey} /\ "ok" \in AnswerWords /\ req[r].fingerprint \in Fingerprint
    BY <1>1 DEF Request, AnswerWords
  <2> QED
    BY <2>1, EndedRequest
<1>7. \A q \in Requests : req'[q] \in Request
  <2>1. ASSUME NEW q \in Requests PROVE [req[q] EXCEPT !.stale = TRUE] \in Request
    <3>1. req[q] \in Request
      BY <1>1
    <3> QED
      BY <3>1 DEF Request
  <2> QED
    BY <1>1, <1>4, <1>5, <1>6, <2>1
<1>8. req' = [q \in Requests |-> req'[q]]
  BY <1>3 DEF Aged
<1> QED
  BY <1>4, <1>5, <1>7, <1>8

\* An aged request differs in that only.
LEMMA AgedRequest ==
  ASSUME NEW x \in Request, NEW y, y = [x EXCEPT !.stale = TRUE]
  PROVE  /\ y.stale /\ y.pc = x.pc /\ y.op = x.op /\ y.object = x.object /\ y.row = x.row
         /\ y.home = x.home /\ y.to = x.to /\ y.at = x.at /\ y.events = x.events
         /\ y.key = x.key /\ y.fingerprint = x.fingerprint /\ y.answer = x.answer
         /\ Adding(y) <=> Adding(x)
         /\ Holding(y) <=> Holding(x)
  BY DEF Request, Adding, Holding

\* The schedules and the care topic after a commit.
LEMMA CommitCare ==
  ASSUME RequestInv, NEW r \in Requests, Commit(r)
  PROVE  \/ UNCHANGED <<schedules, care, waterings>>
         \/ LET p == req[r].object
                e == WateringCompleted(req[r].at, req[r].at + Interval)
            IN  /\ req[r].op = "water" /\ req[r].at \in 1 .. MaxNow
                /\ schedules[p] # 0
                /\ e \in CareEvent /\ e.type = "WateringCompleted" /\ e.at = req[r].at
                /\ e.next = req[r].at + Interval
                /\ schedules' = [schedules EXCEPT ![p] = req[r].at + Interval]
                /\ care' = [care EXCEPT ![p] = Append(@, e)]
                /\ waterings' = [waterings EXCEPT ![p][req[r].at] = @ + 1]
<1>1. CASE req[r].op # "water"
  BY <1>1 DEF Commit
<1>2. CASE req[r].op = "water"
  <2>1. req[r].at \in 1 .. MaxNow /\ schedules[req[r].object] # 0
    BY <1>2 DEF Commit, RequestInv, TypeInv, PhaseOK, PhaseRow
  <2>2. req[r].at + Interval \in Nat
    BY <2>1, GardenAssumption
  <2> QED
    BY <1>2, <2>1, <2>2 DEF Commit, WateringCompleted, CareEvent
<1> QED
  BY <1>1, <1>2

\* A commit on a plant keeps what the other requests hold.
LEMMA CommitKeeps ==
  ASSUME RequestInv, NEW r \in Requests, Commit(r), UNCHANGED <<readSide, inputs>>
  PROVE  RequestInv'
<1> DEFINE p == req[r].object
           new == plant_to_model(r)
           n == MaxBackground - background
<1>1. /\ Holding(req[r]) /\ p \in Plants /\ plants[p] \in PlantModel /\ plants[p] # NoRow
      /\ plants' = [plants EXCEPT ![p] = new]
      /\ new \in PlantModel /\ new # NoRow
      /\ \/ garden' = garden
         \/ \E e \in GardenEvent : garden' = [garden EXCEPT ![p] = Append(@, e)]
  BY CommitEffect
<1> HIDE DEF new
<1>2. /\ UNCHANGED <<households, idempotency, now, deleted, catalog, version, background>>
      /\ UNCHANGED <<plant_rows, care_rows, species_row>>
  BY DEF Commit, readSide, inputs
<1>3. /\ plants \in [Plants -> PlantModel \cup {NoRow}] /\ garden \in [Plants -> Seq(GardenEvent)]
      /\ schedules \in [Plants -> Nat] /\ care \in [Plants -> Seq(CareEvent)]
      /\ waterings \in [Plants -> [1 .. MaxNow -> Nat]]
      /\ \A q \in Plants : /\ schedules[q] <= Horizon(n)
                           /\ \A i \in 1 .. Len(care[q]) : care[q][i].next <= Horizon(MaxBackground)
  BY DEF RequestInv, TypeInv, WriteTypes, TopicTypes
<1>4. /\ plants' \in [Plants -> PlantModel \cup {NoRow}] /\ plants'[p] = new
      /\ \A q \in Plants \ {p} : plants'[q] = plants[q]
  BY <1>1, <1>3
<1>5. garden' \in [Plants -> Seq(GardenEvent)]
  <2>1. \A e \in GardenEvent : Append(garden[p], e) \in Seq(GardenEvent)
    BY <1>1, <1>3
  <2> QED
    BY <1>1, <1>3, <2>1
<1>6. /\ schedules' \in [Plants -> Nat] /\ care' \in [Plants -> Seq(CareEvent)]
      /\ waterings' \in [Plants -> [1 .. MaxNow -> Nat]]
      /\ \A q \in Plants : /\ schedules[q] # 0 <=> schedules'[q] # 0
                           /\ schedules'[q] <= Horizon(n)
                           /\ \A i \in 1 .. Len(care'[q]) : care'[q][i].next <= Horizon(MaxBackground)
  <2>1. CASE UNCHANGED <<schedules, care, waterings>>
    BY <1>3, <2>1
  <2>2. CASE ~UNCHANGED <<schedules, care, waterings>>
    <3> DEFINE at == req[r].at
               e == WateringCompleted(at, at + Interval)
    <3>1. /\ at \in 1 .. MaxNow /\ schedules[p] # 0
          /\ e \in CareEvent /\ e.next = at + Interval
          /\ schedules' = [schedules EXCEPT ![p] = at + Interval]
          /\ care' = [care EXCEPT ![p] = Append(@, e)]
          /\ waterings' = [waterings EXCEPT ![p][at] = @ + 1]
      BY <2>2, CommitCare
    <3> HIDE DEF e
    <3>2. n \in Nat /\ MaxBackground \in Nat
      BY ReadModelAssumption DEF RequestInv, TypeInv, TopicTypes
    <3>3. /\ at + Interval \in Nat /\ at + Interval # 0
          /\ at + Interval <= Horizon(n) /\ at + Interval <= Horizon(MaxBackground)
      <4>1. /\ Horizon(n) \in Nat /\ Horizon(n) >= MaxNow + Interval
            /\ Horizon(MaxBackground) \in Nat /\ Horizon(MaxBackground) >= MaxNow + Interval
        BY <3>2, Horizons
      <4>2. at \in Nat /\ at >= 1 /\ at <= MaxNow /\ Interval \in Nat /\ MaxNow \in Nat
        BY <3>1, GardenAssumption
      <4> HIDE DEF at, n
      <4> QED
        BY <4>1, <4>2
    <3>4. waterings' \in [Plants -> [1 .. MaxNow -> Nat]]
      <4>1. waterings[p] \in [1 .. MaxNow -> Nat]
        BY <1>1, <1>3
      <4>2. [waterings[p] EXCEPT ![at] = @ + 1] \in [1 .. MaxNow -> Nat]
        <5> DEFINE f == waterings[p]
        <5>1. f \in [1 .. MaxNow -> Nat] /\ at \in 1 .. MaxNow
          BY <3>1, <4>1
        <5> HIDE DEF f, at
        <5>2. f[at] + 1 \in Nat
          BY <5>1
        <5>3. [f EXCEPT ![at] = f[at] + 1] \in [1 .. MaxNow -> Nat]
          BY <5>1, <5>2
        <5> QED
          BY <5>3 DEF f
      <4>3. waterings' = [waterings EXCEPT ![p] = [waterings[p] EXCEPT ![at] = @ + 1]]
        BY <1>1, <1>3, <3>1
      <4> QED
        BY <1>1, <1>3, <4>2, <4>3
    <3>5. /\ schedules' \in [Plants -> Nat] /\ schedules'[p] = at + Interval
          /\ \A q \in Plants \ {p} : schedules'[q] = schedules[q]
      BY <1>1, <1>3, <3>1, <3>3
    <3>6. /\ Append(care[p], e) \in Seq(CareEvent) /\ Len(Append(care[p], e)) = Len(care[p]) + 1
          /\ \A i \in 1 .. Len(care[p]) : Append(care[p], e)[i] = care[p][i]
          /\ Append(care[p], e)[Len(care[p]) + 1] = e
      BY <1>1, <1>3, <3>1, Appended
    <3>7. /\ care' \in [Plants -> Seq(CareEvent)] /\ care'[p] = Append(care[p], e)
          /\ \A q \in Plants \ {p} : care'[q] = care[q]
      BY <1>1, <1>3, <3>1, <3>6
    <3>8. Len(care[p]) \in Nat
      BY <1>1, <1>3
    <3>9. ASSUME NEW q \in Plants, NEW i \in 1 .. Len(care'[q])
          PROVE  care'[q][i].next <= Horizon(MaxBackground)
      <4>1. CASE q # p
        BY <1>3, <3>7, <3>9, <4>1
      <4>2. CASE q = p /\ i \in 1 .. Len(care[p])
        BY <1>3, <3>6, <3>7, <4>2
      <4>3. CASE q = p /\ i = Len(care[p]) + 1
        BY <3>1, <3>3, <3>6, <3>7, <4>3
      <4> QED
        BY <3>6, <3>7, <3>8, <3>9, <4>1, <4>2, <4>3
    <3> QED
      BY <1>3, <3>1, <3>3, <3>4, <3>5, <3>7, <3>9
  <2> QED
    BY <2>1, <2>2
<1>7. /\ req' \in [Requests -> Request] /\ req'[r] = Ended(req[r].key, req[r].fingerprint, "ok")
      /\ \A q \in Requests \ {r} :
           \/ req'[q] = req[q] /\ ~(Holding(req[q]) /\ req[q].object = p)
           \/ /\ req[q].object = p /\ req[q].pc \in {"loaded", "saved"}
              /\ req'[q] = [req[q] EXCEPT !.stale = TRUE]
  BY CommitRequests
<1>8. WriteTypes' /\ ReadTypes' /\ CatalogOK'
  BY <1>2, <1>4, <1>6, <1>7 DEF RequestInv, TypeInv, WriteTypes, ReadTypes, CatalogOK
<1>9. TopicTypes'
  BY <1>2, <1>5, <1>6 DEF RequestInv, TypeInv, TopicTypes
<1>10. ScheduledOK'
  BY <1>1, <1>2, <1>4, <1>6 DEF RequestInv, TypeInv, ScheduledOK, ScheduledFor
<1>11. /\ ~Adding(req'[r]) /\ ~Holding(req'[r]) /\ PhaseRow(req'[r], schedules')
       /\ HeldRow(req'[r], plants') /\ AddRow(req'[r], plants')
  <2>1. req[r].key \in Keys \cup {NoKey} /\ "ok" \in AnswerWords /\ req[r].fingerprint \in Fingerprint
    BY DEF RequestInv, TypeInv, WriteTypes, Request, AnswerWords
  <2> QED
    BY <1>7, <2>1, EndedRequest
<1>12. ASSUME NEW q \in Requests \ {r}
       PROVE  /\ req'[q].object = req[q].object /\ req'[q].op = req[q].op
              /\ Adding(req'[q]) <=> Adding(req[q])
              /\ Holding(req'[q]) <=> Holding(req[q])
              /\ PhaseRow(req'[q], schedules') /\ AddRow(req'[q], plants') /\ HeldRow(req'[q], plants')
  <2>1. /\ PhaseRow(req[q], schedules) /\ AddRow(req[q], plants) /\ HeldRow(req[q], plants)
        /\ req[q] \in Request
    BY DEF RequestInv, TypeInv, WriteTypes, PhaseOK, HeldOK
  <2>2. PhaseRow(req[q], schedules')
    BY <1>6, <2>1 DEF PhaseRow, OnPlant
  <2>3. Adding(req[q]) => req[q].object # p
    BY <1>1, <2>1 DEF AddRow
  <2>4. AddRow(req[q], plants')
    BY <1>4, <2>1, <2>3 DEF AddRow
  <2>5. CASE req'[q] = req[q] /\ ~(Holding(req[q]) /\ req[q].object = p)
    <3>1. HeldRow(req[q], plants')
      BY <1>4, <2>1, <2>5 DEF HeldRow, PhaseRow, Holding
    <3> QED
      BY <2>2, <2>4, <2>5, <3>1
  <2>6. CASE /\ req[q].object = p /\ req[q].pc \in {"loaded", "saved"}
             /\ req'[q] = [req[q] EXCEPT !.stale = TRUE]
    <3> DEFINE y == req'[q]
               x == req[q]
    <3>1. /\ y.stale /\ y.pc = x.pc /\ y.op = x.op /\ y.object = x.object /\ y.row = x.row
          /\ y.home = x.home /\ y.to = x.to /\ y.at = x.at /\ y.events = x.events /\ y.key = x.key
          /\ Adding(y) <=> Adding(x)
          /\ Holding(y) <=> Holding(x)
      BY <2>1, <2>6, AgedRequest
    <3> HIDE DEF y
    <3>2. PhaseRow(y, schedules')
      BY <2>2, <2>6, <3>1 DEF PhaseRow
    <3>3. AddRow(y, plants')
      BY <2>4, <3>1 DEF AddRow
    <3>4. HeldRow(y, plants')
      BY <1>1, <1>4, <2>1, <2>6, <3>1 DEF HeldRow
    <3> QED
      BY <3>1, <3>2, <3>3, <3>4 DEF y
  <2> QED
    BY <1>7, <2>5, <2>6
<1>13. PhaseOK' /\ HeldOK'
  BY <1>11, <1>12 DEF PhaseOK, HeldOK
<1>14. ApartOK'
  BY <1>11, <1>12 DEF RequestInv, ApartOK
<1> QED
  BY <1>8, <1>9, <1>10, <1>13, <1>14 DEF RequestInv, TypeInv

\* A step that changes neither the tables of the garden nor a request keeps what
\* the requests hold, when no schedule under a watering goes.
LEMMA OtherStepKeeps ==
  ASSUME RequestInv, UNCHANGED <<households, plants, idempotency, req, waterings>>,
         now' \in 1 .. MaxNow, schedules' \in [Plants -> Nat], deleted' \in [Plants -> Nat],
         \A p \in Plants : ScheduleLocked(p) /\ schedules[p] # 0 => schedules'[p] # 0,
         \A p \in Plants : ScheduledFor(schedules'[p], deleted'[p], plants[p]),
         TopicTypes', ReadTypes', CatalogOK'
  PROVE  RequestInv'
<1>1. WriteTypes'
  BY DEF RequestInv, TypeInv, WriteTypes
<1>2. ScheduledOK'
  BY DEF ScheduledOK
<1>3. PhaseOK'
  <2>1. ASSUME NEW r \in Requests PROVE PhaseRow(req[r], schedules')
    <3>1. PhaseRow(req[r], schedules)
      BY DEF RequestInv, TypeInv, PhaseOK
    <3>2. ASSUME req[r].op = "water", req[r].pc # "operate" PROVE schedules'[req[r].object] # 0
      <4>1. /\ req[r].object \in Plants /\ req[r].pc \in {"loaded", "saved"}
            /\ schedules[req[r].object] # 0
        BY <3>1, <3>2 DEF PhaseRow, OnPlant
      <4>2. ScheduleLocked(req[r].object)
        BY <3>2, <4>1 DEF ScheduleLocked
      <4> QED
        BY <4>1, <4>2
    <3> QED
      BY <3>1, <3>2 DEF PhaseRow, OnPlant
  <2> QED
    BY <2>1 DEF PhaseOK
<1>4. HeldOK' /\ ApartOK'
  BY DEF RequestInv, HeldOK, ApartOK
<1> QED
  BY <1>1, <1>2, <1>3, <1>4 DEF RequestInv, TypeInv

\* An event that joins a topic, and one that is delivered, keep the topics' types.
LEMMA TopicSteps ==
  ASSUME TopicTypes, NEW p \in Plants
  PROVE  /\ \A e \in GardenEvent : [garden EXCEPT ![p] = Append(@, e)] \in [Plants -> Seq(GardenEvent)]
         /\ garden[p] # <<>> => [garden EXCEPT ![p] = Tail(@)] \in [Plants -> Seq(GardenEvent)]
         /\ \A e \in CareEvent : [care EXCEPT ![p] = Append(@, e)] \in [Plants -> Seq(CareEvent)]
         /\ care[p] # <<>> => [care EXCEPT ![p] = Tail(@)] \in [Plants -> Seq(CareEvent)]
<1>1. garden \in [Plants -> Seq(GardenEvent)] /\ care \in [Plants -> Seq(CareEvent)]
  BY DEF TopicTypes
<1>2. \A e \in GardenEvent : Append(garden[p], e) \in Seq(GardenEvent)
  BY <1>1
<1>3. garden[p] # <<>> => Tail(garden[p]) \in Seq(GardenEvent)
  BY <1>1
<1>4. \A e \in CareEvent : Append(care[p], e) \in Seq(CareEvent)
  BY <1>1
<1>5. care[p] # <<>> => Tail(care[p]) \in Seq(CareEvent)
  BY <1>1
<1> QED
  BY <1>1, <1>2, <1>3, <1>4, <1>5

\* A schedule that is planned or moved, and its event.
LEMMA PlannedTypes ==
  ASSUME TypeInv, NEW p \in Plants, NEW e \in CareEvent, NEW n \in Nat,
         background' \in 0 .. MaxBackground, background' <= background,
         n <= Horizon(MaxBackground - background'), e.next = n,
         schedules' = [schedules EXCEPT ![p] = n],
         care' = [care EXCEPT ![p] = Append(@, e)], UNCHANGED garden
  PROVE  TopicTypes' /\ schedules' \in [Plants -> Nat]
<1>1. /\ schedules \in [Plants -> Nat] /\ care \in [Plants -> Seq(CareEvent)]
      /\ garden \in [Plants -> Seq(GardenEvent)] /\ background \in 0 .. MaxBackground
      /\ \A q \in Plants : /\ schedules[q] <= Horizon(MaxBackground - background)
                           /\ \A i \in 1 .. Len(care[q]) : care[q][i].next <= Horizon(MaxBackground)
  BY DEF TypeInv, WriteTypes, TopicTypes
<1>2. /\ schedules' \in [Plants -> Nat] /\ schedules'[p] = n
      /\ \A q \in Plants \ {p} : schedules'[q] = schedules[q]
  BY <1>1
<1>3. care' \in [Plants -> Seq(CareEvent)]
  BY TopicSteps DEF TypeInv
<1>4. /\ MaxBackground \in Nat /\ MaxBackground - background \in Nat /\ MaxBackground - background' \in Nat
      /\ MaxBackground - background <= MaxBackground - background'
      /\ MaxBackground - background' <= MaxBackground
  <2> DEFINE b == background
             c == background'
  <2>1. b \in 0 .. MaxBackground /\ c \in 0 .. MaxBackground /\ c <= b
    BY <1>1
  <2> HIDE DEF b, c
  <2>2. /\ MaxBackground \in Nat /\ MaxBackground - b \in Nat /\ MaxBackground - c \in Nat
        /\ MaxBackground - b <= MaxBackground - c /\ MaxBackground - c <= MaxBackground
    BY <2>1, ReadModelAssumption
  <2> QED
    BY <2>2 DEF b, c
<1>5. /\ Horizon(MaxBackground - background) <= Horizon(MaxBackground - background')
      /\ Horizon(MaxBackground - background') <= Horizon(MaxBackground)
      /\ Horizon(MaxBackground - background) \in Nat /\ Horizon(MaxBackground - background') \in Nat
      /\ Horizon(MaxBackground) \in Nat
  BY <1>4, Horizons
<1>6. \A q \in Plants : schedules'[q] <= Horizon(MaxBackground - background')
  BY <1>1, <1>2, <1>5
<1>7. /\ Append(care[p], e) \in Seq(CareEvent) /\ Len(Append(care[p], e)) = Len(care[p]) + 1
      /\ \A i \in 1 .. Len(care[p]) : Append(care[p], e)[i] = care[p][i]
      /\ Append(care[p], e)[Len(care[p]) + 1] = e /\ Len(care[p]) \in Nat
  BY <1>1, Appended
<1>8. care'[p] = Append(care[p], e) /\ \A q \in Plants \ {p} : care'[q] = care[q]
  BY <1>1
<1>9. ASSUME NEW q \in Plants, NEW i \in 1 .. Len(care'[q])
      PROVE  care'[q][i].next <= Horizon(MaxBackground)
  <2>1. CASE q # p
    BY <1>1, <1>8, <1>9, <2>1
  <2>2. CASE q = p /\ i \in 1 .. Len(care[p])
    BY <1>1, <1>7, <1>8, <2>2
  <2>3. CASE q = p /\ i = Len(care[p]) + 1
    BY <1>5, <1>7, <1>8, <2>3
  <2> QED
    BY <1>7, <1>8, <1>9, <2>1, <2>2, <2>3
<1> QED
  BY <1>1, <1>2, <1>3, <1>6, <1>9 DEF TopicTypes

\* The onboarding plans the first watering.
LEMMA CreateCareScheduleKeeps ==
  ASSUME RequestInv, NEW p \in Plants, CreateCareSchedule(p), UNCHANGED <<readSide, inputs>>
  PROVE  RequestInv'
<1> DEFINE n == now + Interval
           e == CareScheduleCreated(n)
<1>1. /\ n \in Nat /\ n # 0 /\ n <= MaxNow + Interval /\ MaxBackground - background \in Nat
      /\ background \in 0 .. MaxBackground /\ now \in 1 .. MaxNow
  BY GardenAssumption, ReadModelAssumption DEF RequestInv, TypeInv, WriteTypes, TopicTypes
<1>2. /\ UNCHANGED <<households, plants, idempotency, req, waterings, deleted, now, garden>>
      /\ UNCHANGED <<background, catalog, version, species_row, plant_rows, care_rows>>
      /\ plants[p] # NoRow /\ deleted[p] = 0
  BY DEF CreateCareSchedule, Exists, readSide, inputs, history
<1>3. /\ schedules' = [schedules EXCEPT ![p] = n] /\ care' = [care EXCEPT ![p] = Append(@, e)]
  BY DEF CreateCareSchedule
<1>4. e \in CareEvent /\ e.next = n
  BY <1>1 DEF CareScheduleCreated, CareEvent
<1>5. Horizon(MaxBackground - background) \in Nat /\ MaxNow + Interval <= Horizon(MaxBackground - background)
  BY <1>1, Horizons
<1> HIDE DEF e
<1>6. n <= Horizon(MaxBackground - background)
  BY <1>1, <1>5, GardenAssumption
<1> HIDE DEF n
<1>7. TopicTypes' /\ schedules' \in [Plants -> Nat]
  <2>1. background' \in 0 .. MaxBackground /\ background' <= background /\ UNCHANGED garden
    BY <1>1, <1>2
  <2>2. n <= Horizon(MaxBackground - background')
    BY <1>2, <1>6
  <2> QED
    BY <1>1, <1>3, <1>4, <2>1, <2>2, PlannedTypes DEF RequestInv
<1>8. ReadTypes' /\ CatalogOK'
  BY <1>2 DEF RequestInv, TypeInv, ReadTypes, CatalogOK
<1>9. /\ deleted' \in [Plants -> Nat]
      /\ \A q \in Plants : /\ schedules[q] # 0 => schedules'[q] # 0
                           /\ ScheduledFor(schedules'[q], deleted'[q], plants[q])
  BY <1>1, <1>2, <1>3 DEF RequestInv, TypeInv, WriteTypes, ScheduledOK, ScheduledFor
<1> QED
  BY <1>1, <1>2, <1>7, <1>8, <1>9, OtherStepKeeps

\* A skipped watering moves it on, and spends an event.
LEMMA SkipWateringKeeps ==
  ASSUME RequestInv, NEW p \in Plants, SkipWatering(p)
  PROVE  RequestInv'
<1> DEFINE n == schedules[p] + Interval
           e == [type |-> "CareSkipped", next |-> n]
           m == MaxBackground - background
<1>1. /\ schedules[p] \in Nat /\ schedules[p] # 0 /\ schedules[p] <= Horizon(m)
      /\ background \in 0 .. MaxBackground /\ background > 0 /\ background' = background - 1
      /\ now \in 1 .. MaxNow
  BY DEF RequestInv, TypeInv, WriteTypes, TopicTypes, SkipWatering, Publish
<1>2. /\ UNCHANGED <<households, plants, idempotency, req, waterings, deleted, now, garden>>
      /\ UNCHANGED <<catalog, version, species_row, plant_rows, care_rows>>
  BY DEF SkipWatering, readSide, inputs, history
<1>3. /\ schedules' = [schedules EXCEPT ![p] = n] /\ care' = [care EXCEPT ![p] = Append(@, e)]
  BY DEF SkipWatering, RequestInv, TypeInv, WriteTypes
<1>4. n \in Nat /\ n # 0
  BY <1>1, GardenAssumption
<1>5. e \in CareEvent /\ e.next = n
  BY <1>4 DEF CareEvent
<1>6. m \in Nat /\ MaxBackground - background' = m + 1 /\ background' \in 0 .. MaxBackground
      /\ background' <= background
  BY <1>1, ReadModelAssumption
<1>7. Horizon(m) \in Nat /\ Horizon(m) + Interval = Horizon(m + 1)
  BY <1>6, Horizons
<1>8. n <= Horizon(MaxBackground - background')
  BY <1>1, <1>6, <1>7, GardenAssumption
<1> HIDE DEF e, n, m
<1>9. TopicTypes' /\ schedules' \in [Plants -> Nat]
  BY <1>2, <1>3, <1>4, <1>5, <1>6, <1>8, PlannedTypes DEF RequestInv, TypeInv
<1>10. ReadTypes' /\ CatalogOK'
  BY <1>1, <1>2, ReadModelAssumption DEF RequestInv, TypeInv, ReadTypes, CatalogOK
<1>11. /\ deleted' \in [Plants -> Nat]
       /\ \A q \in Plants : /\ schedules[q] # 0 => schedules'[q] # 0
                            /\ ScheduledFor(schedules'[q], deleted'[q], plants[q])
  BY <1>1, <1>2, <1>3, <1>4 DEF RequestInv, TypeInv, WriteTypes, ScheduledOK, ScheduledFor
<1> QED
  BY <1>1, <1>2, <1>9, <1>10, <1>11, OtherStepKeeps

\* A deleted schedule is not one a watering has locked.
LEMMA DeleteCareScheduleKeeps ==
  ASSUME RequestInv, NEW p \in Plants, DeleteCareSchedule(p), UNCHANGED <<readSide, inputs>>
  PROVE  RequestInv'
<1>1. /\ UNCHANGED <<households, plants, idempotency, req, waterings, now, garden, care>>
      /\ UNCHANGED <<background, catalog, version, species_row, plant_rows, care_rows>>
  BY DEF DeleteCareSchedule, readSide, inputs, topics
<1>2. /\ schedules[p] # 0 /\ ~ScheduleLocked(p)
      /\ schedules' = [schedules EXCEPT ![p] = 0] /\ deleted' = [deleted EXCEPT ![p] = schedules[p]]
  BY DEF DeleteCareSchedule
<1>3. /\ schedules \in [Plants -> Nat] /\ deleted \in [Plants -> Nat] /\ now \in 1 .. MaxNow
      /\ \A q \in Plants : ScheduledFor(schedules[q], deleted[q], plants[q])
  BY DEF RequestInv, TypeInv, WriteTypes, ScheduledOK
<1>4. /\ schedules' \in [Plants -> Nat] /\ deleted' \in [Plants -> Nat]
      /\ schedules'[p] = 0 /\ deleted'[p] = schedules[p]
      /\ \A q \in Plants \ {p} : schedules'[q] = schedules[q] /\ deleted'[q] = deleted[q]
  BY <1>2, <1>3
<1>5. \A q \in Plants : /\ ScheduleLocked(q) /\ schedules[q] # 0 => schedules'[q] # 0
                        /\ ScheduledFor(schedules'[q], deleted'[q], plants[q])
  BY <1>2, <1>3, <1>4 DEF ScheduledFor
<1>6. \A q \in Plants : schedules'[q] <= Horizon(MaxBackground - background)
  <2>1. /\ MaxBackground - background \in Nat
        /\ \A q \in Plants : schedules[q] <= Horizon(MaxBackground - background)
    BY ReadModelAssumption DEF RequestInv, TypeInv, TopicTypes
  <2>2. Horizon(MaxBackground - background) \in Nat
    BY <2>1, Horizons
  <2> QED
    BY <1>3, <1>4, <2>1, <2>2
<1>7. TopicTypes'
  BY <1>1, <1>6 DEF RequestInv, TypeInv, TopicTypes
<1>8. ReadTypes' /\ CatalogOK'
  BY <1>1 DEF RequestInv, TypeInv, ReadTypes, CatalogOK
<1> QED
  BY <1>1, <1>3, <1>4, <1>5, <1>7, <1>8, OtherStepKeeps

\* A step that leaves the schedules alone keeps what the requests hold, when the
\* topics, the read rows and the catalogue stay in order.
LEMMA QuietStepKeeps ==
  ASSUME RequestInv, UNCHANGED <<households, plants, idempotency, req, waterings, deleted, schedules>>,
         now' \in 1 .. MaxNow, TopicTypes', ReadTypes', CatalogOK'
  PROVE  RequestInv'
<1>1. /\ schedules' \in [Plants -> Nat] /\ deleted' \in [Plants -> Nat]
      /\ \A p \in Plants : schedules[p] # 0 => schedules'[p] # 0
      /\ \A p \in Plants : ScheduledFor(schedules'[p], deleted'[p], plants[p])
  BY DEF RequestInv, TypeInv, WriteTypes, ScheduledOK, ScheduledFor
<1> QED
  BY <1>1, OtherStepKeeps

\* An event of another context is within the bound.
LEMMA Published ==
  ASSUME TypeInv, Publish, UNCHANGED <<schedules, care>>, garden' \in [Plants -> Seq(GardenEvent)]
  PROVE  /\ TopicTypes' /\ background' \in 0 .. MaxBackground /\ background' = background - 1
         /\ MaxBackground - background' = MaxBackground - background + 1
<1>1. /\ background \in 0 .. MaxBackground /\ background' = background - 1 /\ background > 0
      /\ MaxBackground \in Nat
  BY ReadModelAssumption DEF TypeInv, TopicTypes, Publish
<1> DEFINE m == MaxBackground - background
<1>2. m \in Nat /\ MaxBackground - background' = m + 1 /\ background' \in 0 .. MaxBackground
  BY <1>1
<1>3. Horizon(m) \in Nat /\ Horizon(m + 1) \in Nat /\ Horizon(m) + Interval = Horizon(m + 1)
  BY <1>2, Horizons
<1>4. \A p \in Plants : schedules'[p] <= Horizon(MaxBackground - background')
  <2>1. \A p \in Plants : schedules[p] \in Nat /\ schedules[p] <= Horizon(m)
    BY DEF TypeInv, WriteTypes, TopicTypes
  <2> HIDE DEF m
  <2> QED
    BY <1>2, <1>3, <2>1, GardenAssumption
<1> QED
  BY <1>1, <1>2, <1>4 DEF TypeInv, TopicTypes

\* Every update of a read row keeps its type.
LEMMA ReadRowTypes ==
  ASSUME ReadTypes, TopicTypes, CatalogOK
  PROVE  /\ NoPlantRow \in PlantRow /\ Placeholder \in PlantRow
         /\ NoPlantRow.location = None /\ Placeholder.location = Null
         /\ \A p \in Plants : /\ plant_rows[p] \in PlantRow /\ Row(p) \in PlantRow
                              /\ care_rows[p] \in CareRow
         /\ \A row \in PlantRow :
              /\ \A l \in Locations : /\ [row EXCEPT !.location = l, !.removed = FALSE] \in PlantRow
                                      /\ [row EXCEPT !.location = l] \in PlantRow
              /\ [row EXCEPT !.removed = TRUE] \in PlantRow
              /\ [row EXCEPT !.onboarded = TRUE] \in PlantRow
              /\ \A n \in 0 .. Horizon(MaxBackground) : [row EXCEPT !.next = n] \in PlantRow
              /\ \A v \in 0 .. MaxBackground : [row EXCEPT !.species_name = v] \in PlantRow
<1>1. Horizon(MaxBackground) \in Nat /\ MaxBackground \in Nat
  BY Horizons, ReadModelAssumption
<1>2. PlantRow = [location : Locations \cup {Null, None}, removed : BOOLEAN, onboarded : BOOLEAN,
                  species_name : 0 .. MaxBackground, next : 0 .. Horizon(MaxBackground)]
  BY DEF PlantRow, Horizon
<1>3. NoPlantRow \in PlantRow /\ Placeholder \in PlantRow
  BY <1>1, <1>2 DEF NoPlantRow, Placeholder
<1>4. \A p \in Plants : plant_rows[p] \in PlantRow /\ Row(p) \in PlantRow /\ care_rows[p] \in CareRow
  BY <1>3 DEF ReadTypes, Row
<1>5. NoPlantRow.location = None /\ Placeholder.location = Null
  BY DEF NoPlantRow, Placeholder
<1>6. ASSUME NEW row \in PlantRow
      PROVE  /\ \A l \in Locations : /\ [row EXCEPT !.location = l, !.removed = FALSE] \in PlantRow
                                     /\ [row EXCEPT !.location = l] \in PlantRow
             /\ [row EXCEPT !.removed = TRUE] \in PlantRow
             /\ [row EXCEPT !.onboarded = TRUE] \in PlantRow
  BY <1>2
<1>7. ASSUME NEW row \in PlantRow, NEW n \in 0 .. Horizon(MaxBackground)
      PROVE  [row EXCEPT !.next = n] \in PlantRow
  BY <1>2
<1>8. ASSUME NEW row \in PlantRow, NEW v \in 0 .. MaxBackground
      PROVE  [row EXCEPT !.species_name = v] \in PlantRow
  BY <1>2
<1> QED
  BY <1>3, <1>4, <1>5, <1>6, <1>7, <1>8

\* The garden projection makes of a row what the oldest event says.
LEMMA GardenProjected ==
  ASSUME TypeInv, NEW p \in Plants, GardenProjection(p)
  PROVE  LET e == garden[p][1]
         IN  /\ garden[p] # <<>> /\ e \in GardenEvent
             /\ garden' = [garden EXCEPT ![p] = Tail(@)]
             /\ garden'[p] = Tail(garden[p]) /\ \A q \in Plants \ {p} : garden'[q] = garden[q]
             /\ plant_rows' \in [Plants -> PlantRow]
             /\ \A q \in Plants \ {p} : plant_rows'[q] = plant_rows[q]
             /\ e.type = "PlantAdded" => e.location \in Locations /\ plant_rows'[p] = on_plant_added(p, e)
             /\ e.type = "PlantMoved" => e.location \in Locations /\ plant_rows'[p] = on_plant_moved(p, e)
             /\ e.type = "PlantRemoved" => plant_rows'[p] = on_plant_removed(p)
             /\ e.type = "PlantOnboarded" => plant_rows'[p] = on_plant_onboarded(p)
<1> DEFINE e == garden[p][1]
           new == CASE e.type = "PlantAdded" -> on_plant_added(p, e)
                    [] e.type = "PlantMoved" -> on_plant_moved(p, e)
                    [] e.type = "PlantRemoved" -> on_plant_removed(p)
                    [] e.type = "PlantOnboarded" -> on_plant_onboarded(p)
<1>1. garden \in [Plants -> Seq(GardenEvent)] /\ garden[p] # <<>> /\ plant_rows \in [Plants -> PlantRow]
  BY DEF TypeInv, TopicTypes, ReadTypes, GardenProjection
<1>2. Head(garden[p]) = e /\ e \in GardenEvent
  BY <1>1, Delivered
<1>3. plant_rows' = [plant_rows EXCEPT ![p] = new] /\ garden' = [garden EXCEPT ![p] = Tail(@)]
  BY <1>2 DEF GardenProjection
<1>4. /\ e.type \in {"PlantAdded", "PlantMoved", "PlantRemoved", "PlantOnboarded"}
      /\ e.type \in {"PlantAdded", "PlantMoved"} => e.location \in Locations
  BY <1>2 DEF GardenEvent
<1>5. Row(p) \in PlantRow /\ plant_rows[p] \in PlantRow
  BY ReadRowTypes DEF TypeInv
<1> HIDE DEF e
<1>6. /\ e.type = "PlantAdded" => new = on_plant_added(p, e)
      /\ e.type = "PlantMoved" => new = on_plant_moved(p, e)
      /\ e.type = "PlantRemoved" => new = on_plant_removed(p)
      /\ e.type = "PlantOnboarded" => new = on_plant_onboarded(p)
  OBVIOUS
<1> HIDE DEF new
<1>7. /\ e.type = "PlantAdded" => on_plant_added(p, e) \in PlantRow
      /\ e.type = "PlantMoved" => on_plant_moved(p, e) \in PlantRow
      /\ on_plant_removed(p) \in PlantRow /\ on_plant_onboarded(p) \in PlantRow
  BY <1>4, <1>5, ReadRowTypes DEF on_plant_added, on_plant_moved, on_plant_removed, on_plant_onboarded, TypeInv
<1>8. new \in PlantRow
  BY <1>4, <1>6, <1>7
<1> QED
  BY <1>1, <1>2, <1>3, <1>4, <1>6, <1>8 DEF e

\* The care projection writes the schedule's row and the plant's copy.
LEMMA CareProjected ==
  ASSUME TypeInv, NEW p \in Plants, CareProjection(p)
  PROVE  LET e == care[p][1]
         IN  /\ care[p] # <<>> /\ e \in CareEvent /\ e.next \in 0 .. Horizon(MaxBackground)
             /\ care' = [care EXCEPT ![p] = Tail(@)]
             /\ care'[p] = Tail(care[p]) /\ \A q \in Plants \ {p} : care'[q] = care[q]
             /\ plant_rows' \in [Plants -> PlantRow] /\ care_rows' \in [Plants -> CareRow]
             /\ \A q \in Plants \ {p} : plant_rows'[q] = plant_rows[q] /\ care_rows'[q] = care_rows[q]
             /\ plant_rows'[p] = [Row(p) EXCEPT !.next = e.next]
             /\ care_rows'[p] = CareRowAfter(care_rows[p], e)
<1> DEFINE e == care[p][1]
<1>1. /\ care \in [Plants -> Seq(CareEvent)] /\ care[p] # <<>>
      /\ plant_rows \in [Plants -> PlantRow] /\ care_rows \in [Plants -> CareRow]
  BY DEF TypeInv, TopicTypes, ReadTypes, CareProjection
<1>2. Head(care[p]) = e /\ e \in CareEvent /\ Len(care[p]) \in Nat \ {0}
  BY <1>1, Delivered
<1>3. e.next \in Nat /\ (e.type = "WateringCompleted" => e.at \in 1 .. MaxNow)
  BY <1>2 DEF CareEvent
<1>4. e.next <= Horizon(MaxBackground)
  <2>1. 1 \in 1 .. Len(care[p])
    BY <1>2
  <2> QED
    BY <2>1 DEF TypeInv, TopicTypes
<1>5. Horizon(MaxBackground) \in Nat
  BY Horizons, ReadModelAssumption
<1>6. e.next \in 0 .. Horizon(MaxBackground)
  BY <1>3, <1>4, <1>5
<1>7. /\ plant_rows' = [plant_rows EXCEPT ![p] = [Row(p) EXCEPT !.next = e.next]]
      /\ care_rows' = [care_rows EXCEPT ![p] = CareRowAfter(@, e)]
      /\ care' = [care EXCEPT ![p] = Tail(@)]
  BY <1>2 DEF CareProjection, _set_next_watering
<1>8. [Row(p) EXCEPT !.next = e.next] \in PlantRow
  BY <1>6, ReadRowTypes DEF TypeInv
<1>9. CareRowAfter(care_rows[p], e) \in CareRow
  <2>1. CareRow = [next : 0 .. Horizon(MaxBackground), watered : 0 .. MaxNow, version : 0 .. 1]
    BY DEF CareRow, Horizon
  <2>2. care_rows[p] \in CareRow /\ 0 \in 0 .. MaxNow
    BY <1>1, GardenAssumption
  <2>3. e.type = "WateringCompleted" => e.at \in 0 .. MaxNow
    BY <1>3
  <2> DEFINE row == care_rows[p]
             created == [next |-> e.next, watered |-> 0, version |-> 1]
  <2> HIDE DEF e, row
  <2>4. created \in CareRow
    BY <1>6, <2>1, <2>2
  <2>5. row \in CareRow
    BY <2>2 DEF row
  <2>6. e.type = "WateringCompleted" => [row EXCEPT !.next = e.next, !.watered = e.at] \in CareRow
    BY <1>6, <2>1, <2>3, <2>5
  <2>7. [row EXCEPT !.next = e.next] \in CareRow
    BY <1>6, <2>1, <2>5
  <2>8. CareRowAfter(row, e) \in CareRow
    <3> HIDE DEF created
    <3>1. CASE row = NoCareRow /\ e.type = "CareScheduleCreated"
      BY <2>4, <3>1 DEF CareRowAfter, created
    <3>2. CASE row = NoCareRow /\ e.type # "CareScheduleCreated"
      BY <2>5, <3>2 DEF CareRowAfter
    <3>3. CASE row # NoCareRow /\ e.type = "WateringCompleted"
      BY <2>6, <3>3 DEF CareRowAfter
    <3>4. CASE row # NoCareRow /\ e.type # "WateringCompleted"
      BY <2>7, <3>4 DEF CareRowAfter
    <3> QED
      BY <3>1, <3>2, <3>3, <3>4
  <2> QED
    BY <2>8 DEF row
<1> HIDE DEF e
<1> QED
  BY <1>1, <1>2, <1>6, <1>7, <1>8, <1>9 DEF e

\* The journal projection makes sure of the plant's row.
LEMMA JournalProjected ==
  ASSUME TypeInv, NEW p \in Plants, JournalProjection(p)
  PROVE  /\ plant_rows' \in [Plants -> PlantRow] /\ plant_rows'[p] = Row(p)
         /\ \A q \in Plants \ {p} : plant_rows'[q] = plant_rows[q]
<1>1. plant_rows \in [Plants -> PlantRow] /\ Row(p) \in PlantRow
  BY ReadRowTypes DEF TypeInv, ReadTypes
<1> QED
  BY <1>1 DEF JournalProjection

\* The species projection names the plants whose rows are filled.
LEMMA SpeciesProjected ==
  ASSUME TypeInv, SpeciesProjection
  PROVE  /\ CatalogOK' /\ species_row' = species_row + 1 /\ species_row' \in 0 .. MaxBackground
         /\ plant_rows' \in [Plants -> PlantRow]
         /\ \A p \in Plants : plant_rows'[p] =
              IF plant_rows[p].location \in Locations
              THEN [plant_rows[p] EXCEPT !.species_name = species_row'] ELSE plant_rows[p]
<1>1. /\ catalog \in Seq(Nat) /\ catalog # <<>> /\ version \in 0 .. MaxBackground - background
      /\ Len(catalog) <= version /\ species_row = version - Len(catalog)
      /\ \A i \in 1 .. Len(catalog) : catalog[i] = version - Len(catalog) + i
      /\ background \in 0 .. MaxBackground
  BY DEF TypeInv, CatalogOK, TopicTypes, SpeciesProjection
<1>2. /\ Tail(catalog) \in Seq(Nat) /\ Len(Tail(catalog)) = Len(catalog) - 1 /\ Len(catalog) \in Nat \ {0}
      /\ \A i \in 1 .. Len(catalog) - 1 : Tail(catalog)[i] = catalog[i + 1]
      /\ Head(catalog) = catalog[1]
  BY <1>1, Delivered
<1>3. /\ species_row' = Head(catalog) /\ catalog' = Tail(catalog) /\ UNCHANGED <<version, background>>
      /\ plant_rows' = [p \in Plants |->
           IF plant_rows[p].location \in Locations
           THEN [plant_rows[p] EXCEPT !.species_name = Head(catalog)] ELSE plant_rows[p]]
  BY DEF SpeciesProjection, _upsert, OfTheSpecies
<1>4. catalog[1] = version - Len(catalog) + 1
  <2>1. 1 \in 1 .. Len(catalog)
    BY <1>2
  <2> QED
    BY <1>1, <2>1
<1>5. species_row' = species_row + 1 /\ species_row' \in 0 .. MaxBackground
  BY <1>1, <1>2, <1>3, <1>4, ReadModelAssumption
<1>6. CatalogOK'
  <2>1. species_row' = version' - Len(catalog')
    BY <1>1, <1>2, <1>3, <1>4
  <2>2. ASSUME NEW i \in 1 .. Len(catalog') PROVE catalog'[i] = version' - Len(catalog') + i
    <3>1. i \in 1 .. Len(catalog) - 1 /\ i + 1 \in 1 .. Len(catalog)
      BY <1>2, <1>3, <2>2
    <3>2. catalog'[i] = catalog[i + 1]
      BY <1>2, <1>3, <3>1
    <3>3. catalog[i + 1] = version - Len(catalog) + (i + 1)
      BY <1>1, <3>1
    <3> QED
      BY <1>1, <1>2, <1>3, <3>1, <3>2, <3>3
  <2>3. Len(catalog') <= version'
    BY <1>1, <1>2, <1>3
  <2> QED
    BY <1>1, <1>2, <1>3, <2>1, <2>2, <2>3 DEF CatalogOK
<1>7. \A p \in Plants : plant_rows[p] \in PlantRow /\ [plant_rows[p] EXCEPT !.species_name = species_row'] \in PlantRow
  BY <1>5, ReadRowTypes DEF TypeInv
<1> QED
  BY <1>3, <1>5, <1>6, <1>7

\* Time passes within its bound.
LEMMA TickKeeps ==
  ASSUME RequestInv, Tick, UNCHANGED <<readSide, inputs>> PROVE RequestInv'
<1>1. now' \in 1 .. MaxNow
  BY GardenAssumption DEF Tick, RequestInv, TypeInv, WriteTypes
<1>2. UNCHANGED <<households, plants, idempotency, req, waterings, deleted, schedules>>
  BY DEF Tick, tables, history
<1>3. TopicTypes' /\ ReadTypes' /\ CatalogOK'
  BY DEF Tick, tables, topics, readSide, inputs, RequestInv, TypeInv, TopicTypes, ReadTypes, CatalogOK
<1> QED
  BY <1>1, <1>2, <1>3, QuietStepKeeps

\* A step of the read side or of another context keeps what the requests hold.
LEMMA BackgroundKeeps ==
  ASSUME RequestInv,
         \/ SpeciesUpdated \/ SpeciesProjection
         \/ \E p \in Plants : \/ JournalEntryAdded(p) \/ PlantOnboarded(p) \/ SkipWatering(p)
                              \/ GardenProjection(p) \/ CareProjection(p) \/ JournalProjection(p)
  PROVE  RequestInv'
<1>1. now \in 1 .. MaxNow /\ TypeInv /\ garden \in [Plants -> Seq(GardenEvent)]
  BY DEF RequestInv, TypeInv, WriteTypes, TopicTypes
<1>2. CASE SpeciesUpdated
  <2>1. /\ UNCHANGED <<households, plants, idempotency, req, waterings, deleted, schedules, now, care, garden>>
        /\ UNCHANGED <<plant_rows, care_rows, species_row>>
        /\ Publish /\ version' = version + 1 /\ catalog' = Append(catalog, version + 1)
    BY <1>2 DEF SpeciesUpdated, gardenVars, tables, history, topics, readSide
  <2>2. /\ TopicTypes' /\ background' \in 0 .. MaxBackground
        /\ MaxBackground - background' = MaxBackground - background + 1
    BY <1>1, <2>1, Published
  <2>3. /\ catalog \in Seq(Nat) /\ version \in 0 .. MaxBackground - background
        /\ Len(catalog) <= version /\ species_row = version - Len(catalog)
        /\ \A i \in 1 .. Len(catalog) : catalog[i] = version - Len(catalog) + i
    BY <1>1 DEF TypeInv, CatalogOK
  <2>4. version + 1 \in Nat /\ version \in Nat
    BY <2>3
  <2>5. /\ catalog' \in Seq(Nat) /\ Len(catalog') = Len(catalog) + 1
        /\ \A i \in 1 .. Len(catalog) : catalog'[i] = catalog[i]
        /\ catalog'[Len(catalog) + 1] = version + 1 /\ Len(catalog) \in Nat
    BY <2>1, <2>3, <2>4, Appended
  <2>6. version' \in 0 .. MaxBackground - background'
    <3> DEFINE b == MaxBackground - background
               c == MaxBackground - background'
    <3>1. version \in 0 .. b /\ c = b + 1 /\ version' = version + 1 /\ b \in Int
      BY <1>1, <2>1, <2>2, <2>3, ReadModelAssumption DEF TypeInv, TopicTypes
    <3> HIDE DEF b, c
    <3>2. version' \in 0 .. c
      BY <3>1
    <3> QED
      BY <3>2 DEF c
  <2>7. CatalogOK'
    <3>1. \A i \in 1 .. Len(catalog') : catalog'[i] = version' - Len(catalog') + i
      BY <2>1, <2>3, <2>4, <2>5
    <3>2. Len(catalog') <= version' /\ species_row' = version' - Len(catalog')
      BY <2>1, <2>3, <2>4, <2>5
    <3> QED
      BY <2>5, <2>6, <3>1, <3>2 DEF CatalogOK
  <2>8. ReadTypes'
    BY <1>1, <2>1 DEF TypeInv, ReadTypes
  <2> QED
    BY <1>1, <2>1, <2>2, <2>7, <2>8, QuietStepKeeps
<1>3. CASE SpeciesProjection
  <2>1. /\ UNCHANGED <<households, plants, idempotency, req, waterings, deleted, schedules, now, care, garden>>
        /\ UNCHANGED <<background, care_rows>>
    BY <1>3 DEF SpeciesProjection, gardenVars, tables, history, topics
  <2>2. CatalogOK' /\ plant_rows' \in [Plants -> PlantRow]
    BY <1>1, <1>3, SpeciesProjected
  <2>3. TopicTypes' /\ ReadTypes'
    BY <1>1, <2>1, <2>2 DEF TypeInv, TopicTypes, ReadTypes
  <2> QED
    BY <1>1, <2>1, <2>2, <2>3, QuietStepKeeps
<1>4. ASSUME NEW p \in Plants, JournalEntryAdded(p) \/ PlantOnboarded(p) PROVE RequestInv'
  <2>1. /\ UNCHANGED <<households, plants, idempotency, req, waterings, deleted, schedules, now, care>>
        /\ UNCHANGED <<plant_rows, care_rows, species_row, catalog, version>> /\ Publish
    BY <1>4 DEF JournalEntryAdded, PlantOnboarded, gardenVars, tables, history, topics, readSide
  <2>2. garden' \in [Plants -> Seq(GardenEvent)]
    <3>1. [type |-> "PlantOnboarded"] \in GardenEvent
      BY DEF GardenEvent
    <3>2. garden' = garden \/ garden' = [garden EXCEPT ![p] = Append(@, [type |-> "PlantOnboarded"])]
      BY <1>4 DEF JournalEntryAdded, PlantOnboarded, gardenVars, topics
    <3>3. TopicTypes
      BY <1>1 DEF TypeInv
    <3>4. [garden EXCEPT ![p] = Append(@, [type |-> "PlantOnboarded"])] \in [Plants -> Seq(GardenEvent)]
      <4> DEFINE e == [type |-> "PlantOnboarded"]
      <4> HIDE DEF e
      <4>1. [garden EXCEPT ![p] = Append(@, e)] \in [Plants -> Seq(GardenEvent)]
        BY <3>1, <3>3, TopicSteps DEF e
      <4> QED
        BY <4>1 DEF e
    <3> QED
      BY <1>1, <3>2, <3>4
  <2>3. /\ TopicTypes' /\ background' \in 0 .. MaxBackground /\ background' = background - 1
        /\ MaxBackground - background' = MaxBackground - background + 1
    BY <1>1, <2>1, <2>2, Published
  <2>4. CatalogOK'
    BY <1>1, <2>1, <2>3, ReadModelAssumption DEF TypeInv, CatalogOK, TopicTypes
  <2>5. ReadTypes'
    BY <1>1, <2>1 DEF TypeInv, ReadTypes
  <2> QED
    BY <1>1, <2>1, <2>3, <2>4, <2>5, QuietStepKeeps
<1>5. ASSUME NEW p \in Plants, GardenProjection(p) PROVE RequestInv'
  <2>1. /\ UNCHANGED <<households, plants, idempotency, req, waterings, deleted, schedules, now, care>>
        /\ UNCHANGED <<care_rows, species_row, catalog, version, background>>
    BY <1>5 DEF GardenProjection, tables, inputs, history
  <2>2. /\ garden[p] # <<>> /\ garden' = [garden EXCEPT ![p] = Tail(@)]
        /\ plant_rows' \in [Plants -> PlantRow]
    BY <1>1, <1>5, GardenProjected
  <2>3. garden' \in [Plants -> Seq(GardenEvent)]
    BY <1>1, <2>2, TopicSteps DEF TypeInv
  <2>4. TopicTypes' /\ ReadTypes' /\ CatalogOK'
    BY <1>1, <2>1, <2>2, <2>3 DEF TypeInv, TopicTypes, ReadTypes, CatalogOK
  <2> QED
    BY <1>1, <2>1, <2>4, QuietStepKeeps
<1>6. ASSUME NEW p \in Plants, CareProjection(p) PROVE RequestInv'
  <2>1. /\ UNCHANGED <<households, plants, idempotency, req, waterings, deleted, schedules, now, garden>>
        /\ UNCHANGED <<species_row, catalog, version, background>>
    BY <1>6 DEF CareProjection, tables, inputs, history
  <2>2. /\ care[p] # <<>> /\ care' = [care EXCEPT ![p] = Tail(@)]
        /\ care'[p] = Tail(care[p]) /\ \A q \in Plants \ {p} : care'[q] = care[q]
        /\ plant_rows' \in [Plants -> PlantRow] /\ care_rows' \in [Plants -> CareRow]
    BY <1>1, <1>6, CareProjected
  <2>3. care' \in [Plants -> Seq(CareEvent)]
    BY <1>1, <2>2, TopicSteps DEF TypeInv
  <2>4. care[p] \in Seq(CareEvent)
    BY <1>1 DEF TypeInv, TopicTypes
  <2>5. /\ Len(Tail(care[p])) = Len(care[p]) - 1 /\ Len(care[p]) \in Nat \ {0}
        /\ \A i \in 1 .. Len(care[p]) - 1 : Tail(care[p])[i] = care[p][i + 1]
    BY <2>2, <2>4, Delivered
  <2>6. ASSUME NEW q \in Plants, NEW i \in 1 .. Len(care'[q])
        PROVE  care'[q][i].next <= Horizon(MaxBackground)
    <3>1. CASE q # p
      BY <1>1, <2>2, <2>6, <3>1 DEF TypeInv, TopicTypes
    <3>2. CASE q = p
      <4>1. i \in 1 .. Len(care[p]) - 1 /\ i + 1 \in 1 .. Len(care[p])
        <5>1. Len(care'[q]) = Len(care[p]) - 1
          BY <2>2, <2>5, <3>2
        <5>2. i \in 1 .. Len(care[p]) - 1
          BY <2>6, <5>1
        <5> QED
          BY <2>5, <5>2
      <4>2. care'[p][i] = care[p][i + 1]
        BY <2>2, <2>5, <4>1
      <4> QED
        BY <1>1, <3>2, <4>1, <4>2 DEF TypeInv, TopicTypes
    <3> QED
      BY <3>1, <3>2
  <2>7. TopicTypes' /\ ReadTypes' /\ CatalogOK'
    BY <1>1, <2>1, <2>2, <2>3, <2>6 DEF TypeInv, TopicTypes, ReadTypes, CatalogOK
  <2> QED
    BY <1>1, <2>1, <2>7, QuietStepKeeps
<1>7. ASSUME NEW p \in Plants, JournalProjection(p) PROVE RequestInv'
  <2>1. /\ UNCHANGED <<households, plants, idempotency, req, waterings, deleted, schedules, now, care, garden>>
        /\ UNCHANGED <<care_rows, species_row, catalog, version, background>>
    BY <1>7 DEF JournalProjection, gardenVars, tables, history, topics
  <2>2. plant_rows' \in [Plants -> PlantRow]
    BY <1>1, <1>7, JournalProjected
  <2>3. TopicTypes' /\ ReadTypes' /\ CatalogOK'
    BY <1>1, <2>1, <2>2 DEF TypeInv, TopicTypes, ReadTypes, CatalogOK
  <2> QED
    BY <1>1, <2>1, <2>3, QuietStepKeeps
<1> QED
  BY <1>2, <1>3, <1>4, <1>5, <1>6, <1>7, SkipWateringKeeps

\* The steps there are: of a request alone, a commit, the onboarding's schedule,
\* the clock, the other contexts and the projections.
LEMMA Steps ==
  ASSUME RequestInv, [Next]_vars
  PROVE  \/ \E r \in Requests : RequestStep(r) /\ RestSame
         \/ \E r \in Requests : (CommitCreate(r) \/ Commit(r)) /\ UNCHANGED <<readSide, inputs>>
         \/ \E p \in Plants : (CreateCareSchedule(p) \/ DeleteCareSchedule(p)) /\ UNCHANGED <<readSide, inputs>>
         \/ Tick /\ UNCHANGED <<readSide, inputs>>
         \/ SpeciesUpdated \/ SpeciesProjection
         \/ \E p \in Plants : \/ JournalEntryAdded(p) \/ PlantOnboarded(p) \/ SkipWatering(p)
                              \/ GardenProjection(p) \/ CareProjection(p) \/ JournalProjection(p)
         \/ UNCHANGED vars
<1>1. TypeInv
  BY DEF RequestInv
<1>2. ASSUME NEW r \in Requests, NEW k \in Keys \cup {NoKey}, UNCHANGED <<readSide, inputs>>,
             \/ CreateHouseholdCommand(r, k)
             \/ \E h \in households, to \in Locations : AddPlantCommand(r, k, h, to)
      PROVE  RequestStep(r) /\ RestSame
  <2>1. CASE CreateHouseholdCommand(r, k)
    BY <1>1, <1>2, <2>1, commit_createFits DEF CreateHouseholdCommand, commit_create, RestSame
  <2>2. ASSUME NEW h \in households, NEW to \in Locations, AddPlantCommand(r, k, h, to)
        PROVE  RequestStep(r) /\ RestSame
    <3>1. h \in Households
      BY <1>1 DEF TypeInv, WriteTypes
    <3> QED
      BY <1>1, <1>2, <2>2, <3>1, commit_createFits DEF AddPlantCommand, commit_create, RestSame
  <2> QED
    BY <1>2, <2>1, <2>2
<1>3. ASSUME NEW r \in Requests, UNCHANGED <<readSide, inputs>>,
             \/ CreateHousehold(r) \/ AddPlant(r) \/ WaterPlant(r) \/ Save(r) \/ Abort(r)
             \/ \E p \in Plants : \/ \E to \in Locations : MovePlant(r, p, to)
                                  \/ RemovePlant(r, p) \/ WaterPlantCommand(r, p)
      PROVE  RequestStep(r) /\ RestSame
  <2>1. RequestStep(r)
    BY <1>1, <1>3, CreateHouseholdFits, AddPlantFits, WaterPlantFits, SaveFits, AbortFits,
       MovePlantFits, RemovePlantFits, WaterPlantCommandFits
  <2>2. RestSame
    BY <1>3 DEF CreateHousehold, AddPlant, WaterPlant, Save, Abort, MovePlant, RemovePlant,
       WaterPlantCommand, RestSame
  <2> QED
    BY <2>1, <2>2
<1>4. CASE GardenNext /\ UNCHANGED <<readSide, inputs>>
  BY <1>2, <1>3, <1>4 DEF GardenNext
<1> QED
  BY <1>4 DEF Next

\* Every step keeps what the requests hold.
LEMMA RequestInvStep == RequestInv /\ [Next]_vars => RequestInv'
<1> SUFFICES ASSUME RequestInv, [Next]_vars PROVE RequestInv'
  OBVIOUS
<1>1. CASE UNCHANGED vars
  <2>1. /\ UNCHANGED <<households, plants, idempotency, req, waterings, deleted, schedules, now, care, garden>>
        /\ UNCHANGED <<plant_rows, care_rows, species_row, catalog, version, background>>
    BY <1>1 DEF vars, gardenVars, tables, history, topics, readSide, inputs
  <2>2. now' \in 1 .. MaxNow /\ TopicTypes' /\ ReadTypes' /\ CatalogOK'
    BY <2>1 DEF RequestInv, TypeInv, WriteTypes, TopicTypes, ReadTypes, CatalogOK
  <2> QED
    BY <2>1, <2>2, QuietStepKeeps
<1> QED
  BY <1>1, Steps, RequestStepKeeps, CommitCreateKeeps, CommitKeeps, CreateCareScheduleKeeps,
     DeleteCareScheduleKeeps, TickKeeps, BackgroundKeeps

\* One household, perhaps with a plant, and nothing under way.
LEMMA RequestInvInit == ReadInit => RequestInv
<1> SUFFICES ASSUME ReadInit PROVE RequestInv
  OBVIOUS
<1>1. PICK loc \in Locations, first \in SUBSET {FirstPlant} :
        /\ plants = [p \in Plants |-> IF p \in first THEN add(Home, loc) ELSE NoRow]
        /\ garden = [p \in Plants |-> IF p \in first THEN <<PlantAdded(add(Home, loc))>> ELSE <<>>]
  BY DEF ReadInit, Init
<1>2. add(Home, loc) \in PlantModel /\ PlantAdded(add(Home, loc)) \in GardenEvent
  BY GardenAssumption DEF add, PlantModel, PlantAdded, GardenEvent
<1>3. <<PlantAdded(add(Home, loc))>> \in Seq(GardenEvent) /\ <<>> \in Seq(GardenEvent)
  BY <1>2
<1>4. plants \in [Plants -> PlantModel \cup {NoRow}] /\ garden \in [Plants -> Seq(GardenEvent)]
  BY <1>1, <1>2, <1>3
<1>5. req \in [Requests -> Request] /\ \A r \in Requests : req[r] = NewRequest
  BY NewRequestType DEF ReadInit, Init
<1>6. waterings \in [Plants -> [1 .. MaxNow -> Nat]]
  BY DEF ReadInit, Init
<1>7. now \in 1 .. MaxNow
  BY GardenAssumption DEF ReadInit, Init
<1>8. WriteTypes
  BY <1>4, <1>5, <1>6, <1>7, GardenAssumption DEF ReadInit, Init, WriteTypes
<1>9. TopicTypes
  <2>1. /\ care = [p \in Plants |-> <<>>] /\ schedules = [p \in Plants |-> 0] /\ background = MaxBackground
    BY DEF ReadInit, Init
  <2>2. care \in [Plants -> Seq(CareEvent)] /\ \A p \in Plants : Len(care[p]) = 0 /\ schedules[p] = 0
    BY <2>1
  <2>3. background \in 0 .. MaxBackground /\ MaxBackground - background = 0
    BY <2>1, ReadModelAssumption
  <2>4. Horizon(MaxBackground - background) \in Nat
    BY <2>3, Horizons
  <2> QED
    BY <1>4, <2>2, <2>3, <2>4 DEF TopicTypes
<1>10. CatalogOK
  <2>1. /\ catalog = <<>> /\ version = 0 /\ species_row = 0 /\ background = MaxBackground
    BY DEF ReadInit
  <2>2. catalog \in Seq(Nat) /\ Len(catalog) = 0
    BY <2>1
  <2>3. MaxBackground - background = 0
    BY <2>1, ReadModelAssumption
  <2>4. /\ version \in 0 .. MaxBackground - background /\ Len(catalog) <= version
        /\ species_row = version - Len(catalog)
    <3>1. version = 0 /\ species_row = 0
      BY <2>1
    <3>2. 0 \in 0 .. MaxBackground - background
      BY <2>3
    <3>3. 0 <= 0 /\ 0 = 0 - 0
      OBVIOUS
    <3> QED
      BY <2>2, <3>1, <3>2, <3>3
  <2> QED
    BY <2>2, <2>4 DEF CatalogOK
<1>11. ReadTypes
  <2>1. NoPlantRow \in PlantRow
    <3>1. Horizon(MaxBackground) \in Nat /\ MaxBackground \in Nat
      BY Horizons, ReadModelAssumption
    <3> QED
      BY <3>1 DEF PlantRow, NoPlantRow, Horizon
  <2>2. NoCareRow \in CareRow
    <3>1. Horizon(MaxBackground) \in Nat /\ MaxNow \in Nat
      BY Horizons, ReadModelAssumption, GardenAssumption
    <3> QED
      BY <3>1 DEF CareRow, NoCareRow, Horizon
  <2> QED
    BY <2>1, <2>2 DEF ReadInit, ReadTypes
<1>12. PhaseOK /\ HeldOK /\ ApartOK
  <2>1. /\ NewRequest.pc = "idle" /\ NewRequest.op = None /\ ~Adding(NewRequest) /\ ~Holding(NewRequest)
    BY DEF NewRequest, Adding, Holding
  <2>2. PhaseRow(NewRequest, schedules) /\ AddRow(NewRequest, plants) /\ HeldRow(NewRequest, plants)
    BY <2>1 DEF PhaseRow, AddRow, HeldRow, OnPlant, None
  <2> QED
    BY <1>5, <2>1, <2>2 DEF PhaseOK, HeldOK, ApartOK
<1>13. ScheduledOK
  BY DEF ReadInit, Init, ScheduledOK, ScheduledFor
<1> QED
  BY <1>8, <1>9, <1>10, <1>11, <1>12, <1>13 DEF RequestInv, TypeInv

\* Rows, requests and topics always have their types, an addition under way has a
\* plant of its own, and a request that no commit has overtaken holds exactly what
\* its operation makes of the row there is.
THEOREM Inductive == Spec => []RequestInv
  BY RequestInvInit, RequestInvStep, PTL DEF Spec

-----------------------------------------------------------------------------
(* One answer for a key *)

\* A step is a request's own, a commit, or changes nothing on the write side but
\* schedules, topics and the clock.
LEMMA WriteSteps ==
  ASSUME RequestInv, [Next]_vars
  PROVE  \/ \E r \in Requests : RequestStep(r) /\ RestSame
         \/ \E r \in Requests : CommitCreate(r) /\ UNCHANGED <<readSide, inputs>>
         \/ \E r \in Requests : Commit(r) /\ UNCHANGED <<readSide, inputs>>
         \/ UNCHANGED <<households, plants, idempotency, req, overlapped, restored, waterings>>
<1>1. CASE \/ Tick \/ SpeciesUpdated \/ SpeciesProjection \/ UNCHANGED vars
  BY <1>1 DEF Tick, SpeciesUpdated, SpeciesProjection, vars, gardenVars, tables, history
<1>2. ASSUME NEW p \in Plants,
             \/ CreateCareSchedule(p) \/ DeleteCareSchedule(p)
             \/ JournalEntryAdded(p) \/ PlantOnboarded(p) \/ SkipWatering(p)
             \/ GardenProjection(p) \/ CareProjection(p) \/ JournalProjection(p)
      PROVE  UNCHANGED <<households, plants, idempotency, req, overlapped, restored, waterings>>
  BY <1>2 DEF CreateCareSchedule, DeleteCareSchedule, JournalEntryAdded, PlantOnboarded, SkipWatering,
     GardenProjection, CareProjection, JournalProjection, gardenVars, tables, history
<1> QED
  BY <1>1, <1>2, Steps

\* Every step keeps the stored answers those that were given.
LEMMA KeyInvStep == RequestInv /\ KeyInv /\ [Next]_vars => KeyInv'
<1> SUFFICES ASSUME RequestInv, KeyInv, [Next]_vars PROVE KeyInv'
  OBVIOUS
<1>1. req \in [Requests -> Request]
  BY DEF RequestInv, TypeInv, WriteTypes
<1>2. ASSUME NEW r \in Requests, RequestStep(r), RestSame PROVE KeyInv'
  <2>1. PICK x \in Request : req' = [req EXCEPT ![r] = x] /\ Fits(r, x)
    BY <1>2 DEF RequestStep
  <2>2. req'[r] = x /\ \A q \in Requests \ {r} : req'[q] = req[q]
    BY <1>1, <2>1
  <2>3. UNCHANGED idempotency
    BY <1>2 DEF RestSame, tables
  <2> QED
    BY <2>1, <2>2, <2>3 DEF KeyInv, FromRecord, Fits
<1>3. ASSUME NEW r \in Requests, CommitCreate(r), UNCHANGED <<readSide, inputs>> PROVE KeyInv'
  <2>1. CASE RequestStep(r) /\ RestSame
    BY <1>2, <2>1
  <2>2. CASE ~(RequestStep(r) /\ RestSame)
    <3> DEFINE k == req[r].key
               f == req[r].fingerprint
               p == req[r].object
    <3>1. /\ k \notin DOMAIN idempotency /\ idempotency' = remember(r)
          /\ p \in Households \cup Plants
          /\ req' = [req EXCEPT ![r] = Ended(k, f, p)]
      BY <1>3, <2>2, CommitCreateEffect
    <3>2. req'[r] = Ended(k, f, p) /\ \A q \in Requests \ {r} : req'[q] = req[q]
      BY <1>1, <3>1
    <3>3. k \in Keys \cup {NoKey} /\ p \in AnswerWords /\ f \in Fingerprint
      BY <1>1, <3>1 DEF Request, AnswerWords
    <3>4. req'[r].key = k /\ req'[r].answer = p /\ req'[r].fingerprint = f
      BY <3>2, <3>3, EndedRequest
    <3>5. \A i \in DOMAIN idempotency : i \in DOMAIN idempotency' /\ idempotency'[i] = idempotency[i]
      BY <3>1 DEF remember
    <3>6. k # NoKey => k \in DOMAIN idempotency' /\ idempotency'[k] = [hash |-> f, response |-> p]
      BY <3>1 DEF remember
    <3>7. _replayed([hash |-> f, response |-> p], f) = p
      BY DEF _replayed
    <3> HIDE DEF k, f, p
    <3>8. FromRecord(req[r])'
      BY <3>4, <3>6, <3>7 DEF FromRecord
    <3>9. \A q \in Requests \ {r} : FromRecord(req[q])'
      BY <3>2, <3>5 DEF KeyInv, FromRecord
    <3> QED
      BY <3>8, <3>9 DEF KeyInv
  <2> QED
    BY <2>1, <2>2
<1>4. ASSUME NEW r \in Requests, Commit(r) PROVE KeyInv'
  <2>1. UNCHANGED idempotency
    BY <1>4 DEF Commit
  <2>2. /\ req'[r] = Ended(req[r].key, req[r].fingerprint, "ok")
        /\ \A q \in Requests \ {r} : req'[q] = req[q] \/ req'[q] = [req[q] EXCEPT !.stale = TRUE]
    BY <1>4, CommitRequests
  <2>3. req'[r].key = NoKey
    <3>1. req[r].key \in Keys \cup {NoKey} /\ "ok" \in AnswerWords /\ req[r].fingerprint \in Fingerprint
      BY <1>1 DEF Request, AnswerWords
    <3>2. req'[r].key = req[r].key
      BY <2>2, <3>1, EndedRequest
    <3>3. req[r].key = NoKey
      BY <1>4 DEF Commit, RequestInv, TypeInv, PhaseOK, PhaseRow, OnPlant
    <3> QED
      BY <3>2, <3>3
  <2>4. ASSUME NEW q \in Requests \ {r}
        PROVE  /\ req'[q].pc = req[q].pc /\ req'[q].key = req[q].key /\ req'[q].answer = req[q].answer
               /\ req'[q].fingerprint = req[q].fingerprint
    <3>1. req[q] \in Request
      BY <1>1
    <3> QED
      BY <2>2, <3>1, AgedRequest
  <2> QED
    BY <2>1, <2>3, <2>4 DEF KeyInv, FromRecord
<1>5. CASE UNCHANGED <<households, plants, idempotency, req, overlapped, restored, waterings>>
  BY <1>5 DEF KeyInv, FromRecord
<1> QED
  BY <1>2, <1>3, <1>4, <1>5, WriteSteps

\* One key creates one object, for whatever requests carry it at once. Those of the
\* same body are given it, or the conflict, alike, whether they find the record or
\* lose the race for it, unless they fail or find the household full; no other body
\* is given an object as well.
THEOREM OneAnswer == Spec => []SameAnswer
<1>1. ReadInit => KeyInv
  BY DEF ReadInit, Init, KeyInv, FromRecord, NewRequest
<1>2. ASSUME RequestInv, KeyInv PROVE SameAnswer
  <2> SUFFICES ASSUME NEW r \in Requests, NEW q \in Requests, Repeats(r, q)
               PROVE  IF req[r].fingerprint = req[q].fingerprint
                      THEN req[r].answer = req[q].answer \/ Answers(r, q) \cap {"failed", "refused"} # {}
                      ELSE ~(Answers(r, q) \subseteq Households \cup Plants)
    BY DEF SameAnswer
  <2>1. FromRecord(req[r]) /\ FromRecord(req[q])
    BY <1>2 DEF KeyInv
  <2>2. CASE Answers(r, q) \cap {"failed", "refused"} # {}
    <3>1. ~(Answers(r, q) \subseteq Households \cup Plants)
      BY <2>2, Words
    <3> QED
      BY <2>2, <3>1
  <2>3. CASE Answers(r, q) \cap {"failed", "refused"} = {}
    <3> DEFINE k == req[r].key
               stored == idempotency[k]
    <3>1. req[r].answer \notin {"failed", "refused"} /\ req[q].answer \notin {"failed", "refused"}
      BY <2>3 DEF Answers
    <3>2. /\ req[r].answer = _replayed(stored, req[r].fingerprint)
          /\ req[q].answer = _replayed(stored, req[q].fingerprint)
      BY <2>1, <3>1 DEF FromRecord, Repeats
    <3>3. CASE req[r].fingerprint = req[q].fingerprint
      BY <3>2, <3>3
    <3>4. CASE req[r].fingerprint # req[q].fingerprint
      <4>1. req[r].answer = "conflict" \/ req[q].answer = "conflict"
        BY <3>2, <3>4 DEF _replayed
      <4>2. "conflict" \in Answers(r, q)
        BY <4>1 DEF Answers
      <4> QED
        BY <3>4, <4>2, Words
    <3> QED
      BY <3>3, <3>4
  <2> QED
    BY <2>2, <2>3
<1> QED
  BY <1>1, <1>2, KeyInvStep, Inductive, PTL DEF Spec

-----------------------------------------------------------------------------
(* The distance between waterings *)

\* What a commit that nothing overtook makes of the plant.
LEMMA FreshCommit ==
  ASSUME RequestInv, NEW r \in Requests, Commit(r), ~req[r].stale
  PROVE  LET p == req[r].object
         IN  /\ plants'[p] = req[r].row /\ Changed(req[r], plants[p]) /\ ~plants[p].removed
             /\ plants[p] \in PlantModel
             /\ req[r].op \in OnPlant
             /\ garden' = [garden EXCEPT ![p] = @ \o req[r].events]
             /\ UNCHANGED <<overlapped, restored>>
             /\ req[r].op # "water" => UNCHANGED <<schedules, care, waterings>>
<1> DEFINE p == req[r].object
<1>1. /\ Holding(req[r]) /\ req[r].pc = "saved" /\ p \in Plants /\ plants[p] \in PlantModel
      /\ plants' = [plants EXCEPT ![p] = plant_to_model(r)]
      /\ overlapped' = overlapped
  BY CommitEffect DEF Commit
<1>2. plant_to_model(r) = req[r].row
  BY <1>1, MergedRow
<1>3. plants'[p] = req[r].row
  BY <1>1, <1>2 DEF RequestInv, TypeInv, WriteTypes
<1>4. HeldRow(req[r], plants)
  BY DEF RequestInv, HeldOK
<1>5. Changed(req[r], plants[p]) /\ ~plants[p].removed
  BY <1>1, <1>4 DEF HeldRow
<1>6. restored' = restored
  BY <1>5, CommitEffect
<1>7. garden' = [garden EXCEPT ![p] = @ \o req[r].events]
  BY DEF Commit
<1>8. req[r].op # "water" => UNCHANGED <<schedules, care, waterings>>
  BY CommitCare
<1> QED
  BY <1>1, <1>3, <1>5, <1>6, <1>7, <1>8 DEF Holding

\* A fresh watering comes after every other, by the minimal interval.
LEMMA WateringKeepsDistance ==
  ASSUME RequestInv, SpacedInv, NEW r \in Requests, Commit(r), ~req[r].stale, req[r].op = "water",
         req[r].object \notin overlapped
  PROVE  LET p == req[r].object
             at == req[r].at
         IN  /\ at \in 1 .. MaxNow /\ plants'[p].watered = at
             /\ waterings'[p] = [waterings[p] EXCEPT ![at] = 1]
             /\ \A t \in 1 .. MaxNow : waterings[p][t] > 0 => at >= t + MinInterval
<1> DEFINE p == req[r].object
           at == req[r].at
           old == plants[p].watered
<1>1. /\ plants'[p] = req[r].row /\ req[r].row = water(plants[p], at) /\ ~TooSoon(plants[p], at)
      /\ plants[p] \in PlantModel
  BY FreshCommit DEF Changed
<1>2. at \in 1 .. MaxNow /\ p \in Plants
  BY DEF RequestInv, TypeInv, PhaseOK, PhaseRow, OnPlant
<1>3. old \in 0 .. MaxNow /\ plants'[p].watered = at
  BY <1>1 DEF water, PlantModel
<1>4. old # 0 => at >= old + MinInterval
  BY <1>1, <1>2, <1>3, GardenAssumption DEF TooSoon
<1>5. waterings[p] \in [1 .. MaxNow -> Nat] /\ waterings \in [Plants -> [1 .. MaxNow -> Nat]]
  BY <1>2 DEF RequestInv, TypeInv, WriteTypes
<1>6. \A t \in 1 .. MaxNow : waterings[p][t] > 0 => t <= old
  BY <1>2 DEF SpacedInv
<1>7. ASSUME NEW t \in 1 .. MaxNow, waterings[p][t] > 0 PROVE at >= t + MinInterval
  <2>1. t <= old
    BY <1>6, <1>7
  <2> HIDE DEF at, old
  <2> QED
    BY <1>2, <1>3, <1>4, <2>1, GardenAssumption
<1>8. waterings[p][at] = 0
  <2>1. waterings[p][at] \in Nat
    BY <1>2, <1>5
  <2>2. ~(waterings[p][at] > 0)
    BY <1>2, <1>7, GardenAssumption
  <2> QED
    BY <2>1, <2>2
<1>9. waterings' = [waterings EXCEPT ![p][at] = @ + 1]
  BY DEF Commit
<1>10. waterings'[p] = [waterings[p] EXCEPT ![at] = 1]
  <2>1. waterings'[p] = [waterings[p] EXCEPT ![at] = waterings[p][at] + 1]
    BY <1>2, <1>5, <1>9
  <2> QED
    BY <1>8, <2>1
<1> QED
  BY <1>2, <1>3, <1>7, <1>10

\* The waterings of one plant are apart and none is after its last.
SpacedFor(last, times) ==
    /\ \A t \in 1 .. MaxNow : times[t] > 0 => t <= last
    /\ \A t \in 1 .. MaxNow : times[t] > 0 =>
         times[t] = 1 /\ \A u \in t + 1 .. MaxNow : times[u] > 0 => u >= t + MinInterval

\* The invariant is this, plant by plant.
LEMMA SpacedByPlant ==
  SpacedInv <=> \A p \in Plants \ overlapped : SpacedFor(plants[p].watered, waterings[p])
  BY DEF SpacedInv, SpacedFor, WateringsSpaced

\* Every step keeps the waterings apart.
LEMMA SpacedInvStep == RequestInv /\ SpacedInv /\ [Next]_vars => SpacedInv'
<1> SUFFICES ASSUME RequestInv, SpacedInv, [Next]_vars PROVE SpacedInv'
  OBVIOUS
<1>1. \A p \in Plants \ overlapped : SpacedFor(plants[p].watered, waterings[p])
  BY SpacedByPlant
<1>2. plants \in [Plants -> PlantModel \cup {NoRow}]
  BY DEF RequestInv, TypeInv, WriteTypes
<1>3. ASSUME NEW r \in Requests, RequestStep(r), RestSame PROVE SpacedInv'
  BY <1>3 DEF RestSame, tables, history, SpacedInv, WateringsSpaced
<1>4. ASSUME NEW r \in Requests, CommitCreate(r), UNCHANGED <<readSide, inputs>> PROVE SpacedInv'
  <2>1. UNCHANGED <<waterings, overlapped>>
    BY <1>4 DEF CommitCreate, history
  <2>2. \A p \in Plants : plants'[p].watered = plants[p].watered
    <3>1. CASE RequestStep(r) /\ RestSame
      BY <3>1 DEF RestSame, tables
    <3>2. CASE ~(RequestStep(r) /\ RestSame) /\ UNCHANGED plants
      BY <3>2
    <3>3. CASE ~(RequestStep(r) /\ RestSame) /\ ~UNCHANGED plants
      <4>1. Adding(req[r]) /\ plants' = [plants EXCEPT ![req[r].object] = req[r].row]
        BY <1>4, <3>3, CommitCreateEffect
      <4>2. req[r].object \in Plants /\ plants[req[r].object].watered = 0 /\ req[r].row.watered = 0
        BY <4>1, AddedRow DEF NoRow
      <4> QED
        BY <1>2, <4>1, <4>2
    <3> QED
      BY <3>1, <3>2, <3>3
  <2> QED
    BY <2>1, <2>2 DEF SpacedInv, WateringsSpaced
<1>5. ASSUME NEW r \in Requests, Commit(r) PROVE SpacedInv'
  <2> DEFINE p == req[r].object
  <2>1. /\ p \in Plants /\ plants' = [plants EXCEPT ![p] = plant_to_model(r)]
        /\ IF req[r].stale THEN overlapped' = overlapped \cup {p} ELSE overlapped' = overlapped
    BY <1>5, CommitEffect
  <2>2. \A q \in Plants \ {p} : plants'[q] = plants[q] /\ waterings'[q] = waterings[q]
    <3>1. waterings \in [Plants -> [1 .. MaxNow -> Nat]]
      BY DEF RequestInv, TypeInv, WriteTypes
    <3>2. UNCHANGED waterings \/ waterings' = [waterings EXCEPT ![p][req[r].at] = @ + 1]
      BY <1>5, CommitCare
    <3> QED
      BY <1>2, <2>1, <3>1, <3>2
  <2>3. ASSUME p \notin overlapped' PROVE SpacedFor(plants'[p].watered, waterings'[p])
    <3>1. ~req[r].stale /\ p \notin overlapped
      BY <2>1, <2>3
    <3>2. SpacedFor(plants[p].watered, waterings[p])
      BY <1>1, <2>1, <3>1
    <3>3. CASE req[r].op # "water"
      <4>1. /\ plants'[p] = req[r].row /\ Changed(req[r], plants[p]) /\ plants[p] \in PlantModel
            /\ req[r].op \in OnPlant /\ UNCHANGED waterings
        BY <1>5, <3>1, <3>3, FreshCommit
      <4>2. plants'[p].watered = plants[p].watered
        BY <3>3, <4>1 DEF Changed, OnPlant, move, remove, PlantModel
      <4> QED
        BY <3>2, <4>1, <4>2
    <3>4. CASE req[r].op = "water"
      <4> DEFINE at == req[r].at
                 old == waterings[p]
                 new == waterings'[p]
      <4>1. /\ at \in 1 .. MaxNow /\ plants'[p].watered = at /\ new = [old EXCEPT ![at] = 1]
            /\ \A t \in 1 .. MaxNow : old[t] > 0 => at >= t + MinInterval
        BY <1>5, <3>1, <3>4, WateringKeepsDistance
      <4>2. old \in [1 .. MaxNow -> Nat] /\ MinInterval \in Nat \ {0} /\ MaxNow \in Nat
        BY <2>1, GardenAssumption DEF RequestInv, TypeInv, WriteTypes
      <4> HIDE DEF at, old, new
      <4>3. new[at] = 1 /\ \A t \in 1 .. MaxNow : t # at => new[t] = old[t]
        BY <4>1, <4>2
      <4>4. \A t \in 1 .. MaxNow : new[t] > 0 => t <= at
        BY <4>1, <4>2, <4>3
      <4>5. ASSUME NEW t \in 1 .. MaxNow, new[t] > 0
            PROVE  new[t] = 1 /\ \A u \in t + 1 .. MaxNow : new[u] > 0 => u >= t + MinInterval
        <5>1. CASE t = at
          <6>1. ASSUME NEW u \in t + 1 .. MaxNow, new[u] > 0 PROVE FALSE
            <7>1. u \in 1 .. MaxNow /\ u > at
              BY <4>1, <4>2, <5>1, <6>1
            <7> QED
              BY <4>1, <4>2, <4>4, <6>1, <7>1
          <6> QED
            BY <4>3, <5>1, <6>1
        <5>2. CASE t # at
          <6>1. old[t] > 0 /\ old[t] = 1 /\ \A u \in t + 1 .. MaxNow : old[u] > 0 => u >= t + MinInterval
            BY <3>2, <4>3, <4>5, <5>2 DEF SpacedFor, old
          <6>2. ASSUME NEW u \in t + 1 .. MaxNow, new[u] > 0 PROVE u >= t + MinInterval
            <7>1. u \in 1 .. MaxNow
              BY <4>2, <6>2
            <7>2. CASE u = at
              BY <4>1, <6>1, <7>2
            <7>3. CASE u # at
              BY <4>3, <6>1, <6>2, <7>1, <7>3
            <7> QED
              BY <7>2, <7>3
          <6> QED
            BY <4>3, <5>2, <6>1, <6>2
        <5> QED
          BY <5>1, <5>2
      <4>6. SpacedFor(at, new)
        BY <4>4, <4>5 DEF SpacedFor
      <4> QED
        BY <4>1, <4>6 DEF new
    <3> QED
      BY <3>3, <3>4
  <2>4. ASSUME NEW q \in Plants \ overlapped' PROVE SpacedFor(plants'[q].watered, waterings'[q])
    <3>1. CASE q = p
      BY <2>3, <2>4, <3>1
    <3>2. CASE q # p
      <4>1. q \notin overlapped
        BY <2>1, <2>4
      <4>2. SpacedFor(plants[q].watered, waterings[q])
        BY <1>1, <4>1
      <4> QED
        BY <2>2, <3>2, <4>2
    <3> QED
      BY <3>1, <3>2
  <2> QED
    BY <2>4 DEF SpacedInv, SpacedFor, WateringsSpaced
<1>6. CASE UNCHANGED <<households, plants, idempotency, req, overlapped, restored, waterings>>
  BY <1>6 DEF SpacedInv, WateringsSpaced
<1> QED
  BY <1>3, <1>4, <1>5, <1>6, WriteSteps

-----------------------------------------------------------------------------
(* The household's cap *)

\* The plants a household is charged for.
Charged(h) == _plant_ids(h) \ restored

\* There are finitely many, and a smaller set has no more.
LEMMA ChargedFinite ==
  ASSUME CapInv, NEW h \in Households
  PROVE  /\ IsFiniteSet(_plant_ids(h)) /\ IsFiniteSet(Charged(h))
         /\ Cardinality(_plant_ids(h)) \in Nat /\ Cardinality(Charged(h)) \in Nat
         /\ Cardinality(Charged(h)) <= Cardinality(_plant_ids(h))
<1>1. _plant_ids(h) \subseteq {p \in Plants : Exists(p)}
  BY Words DEF _plant_ids, Exists
<1>2. IsFiniteSet(_plant_ids(h))
  BY <1>1, FS_Subset DEF CapInv
<1>3. Charged(h) \subseteq _plant_ids(h)
  BY DEF Charged
<1> QED
  BY <1>2, <1>3, FS_Subset, FS_CardinalityType

\* A request's own step takes the lock of a household that has room, or none.
LEMMA RequestStepCap ==
  ASSUME RequestInv, CapInv, NEW r \in Requests, RequestStep(r), RestSame
  PROVE  CapInv'
<1>1. PICK x \in Request : req' = [req EXCEPT ![r] = x] /\ Fits(r, x)
  BY DEF RequestStep
<1>2. req'[r] = x /\ \A q \in Requests \ {r} : req'[q] = req[q]
  BY <1>1 DEF RequestInv, TypeInv, WriteTypes
<1>3. UNCHANGED <<plants, restored>>
  BY DEF RestSame, tables, history
<1>4. \A h \in Households : Charged(h)' = Charged(h)
  BY <1>3 DEF Charged, _plant_ids
<1>5. \A h \in Households : HouseholdLocked(h) <=>
        \E q \in Requests : Adding(req[q]) /\ req[q].row.household = h
  BY DEF HouseholdLocked, Adding
<1>6. \A h \in Households : HouseholdLocked(h)' <=>
        \E q \in Requests : Adding(req'[q]) /\ req'[q].row.household = h
  BY DEF HouseholdLocked, Adding
<1>7. ASSUME NEW h \in Households, HouseholdLocked(h)' PROVE Cardinality(Charged(h)) < MaxPlants
  <2>1. CASE HouseholdLocked(h)
    BY <2>1 DEF CapInv, Charged
  <2>2. CASE ~HouseholdLocked(h)
    <3>1. Adding(x) /\ x.row.household = h
      BY <1>2, <1>5, <1>6, <1>7, <2>2
    <3>2. ~CapacityExceeded(h)
      BY <1>1, <3>1 DEF Fits
    <3> QED
      BY <3>2, ChargedFinite, GardenAssumption DEF CapacityExceeded, plant_count
  <2> QED
    BY <2>1, <2>2
<1>8. \A q \in Requests \ {r} : ~(Adding(x) /\ Adding(req[q]) /\ x.row.household = req[q].row.household)
  BY <1>1 DEF Fits, HouseholdLocked, Adding
<1>9. \A s, q \in Requests : Adding(req'[s]) /\ Adding(req'[q]) /\ req'[s].row.household = req'[q].row.household
        => s = q
  BY <1>2, <1>8 DEF CapInv
<1>10. IsFiniteSet({p \in Plants : Exists(p)})'
  BY <1>3 DEF CapInv, Exists
<1> QED
  BY <1>4, <1>7, <1>9, <1>10 DEF CapInv, Charged, Adding

\* The committed addition uses the room its lock was for.
LEMMA CommitCreateCap ==
  ASSUME RequestInv, CapInv, NEW r \in Requests, CommitCreate(r), UNCHANGED <<readSide, inputs>>
  PROVE  CapInv'
<1> DEFINE p == req[r].object
           k == req[r].key
           f == req[r].fingerprint
<1>1. CASE RequestStep(r) /\ RestSame
  BY <1>1, RequestStepCap
<1>2. CASE ~(RequestStep(r) /\ RestSame)
  <2>1. /\ req' = [req EXCEPT ![r] = Ended(k, f, p)] /\ p \in Households \cup Plants
        /\ UNCHANGED restored
    BY <1>2, CommitCreateEffect DEF CommitCreate, history
  <2>2. req'[r] = Ended(k, f, p) /\ \A q \in Requests \ {r} : req'[q] = req[q]
    BY <2>1 DEF RequestInv, TypeInv, WriteTypes
  <2>3. ~Adding(req'[r])
    <3>1. k \in Keys \cup {NoKey} /\ p \in AnswerWords /\ f \in Fingerprint
      BY <2>1 DEF RequestInv, TypeInv, WriteTypes, Request, AnswerWords
    <3> QED
      BY <2>2, <3>1, EndedRequest
  <2>4. \A s, q \in Requests : Adding(req'[s]) /\ Adding(req'[q]) /\ req'[s].row.household = req'[q].row.household
          => s = q
    BY <2>2, <2>3 DEF CapInv
  <2>5. \A h \in Households : HouseholdLocked(h)' => HouseholdLocked(h)
    BY <2>2, <2>3 DEF HouseholdLocked, Adding
  <2>6. CASE UNCHANGED plants
    <3>1. \A h \in Households : Charged(h)' = Charged(h)
      BY <2>1, <2>6 DEF Charged, _plant_ids
    <3>2. IsFiniteSet({q \in Plants : Exists(q)})'
      BY <2>6 DEF CapInv, Exists
    <3> QED
      BY <2>4, <2>5, <3>1, <3>2 DEF CapInv, Charged, Adding
  <2>7. CASE ~UNCHANGED plants
    <3>1. Adding(req[r]) /\ plants' = [plants EXCEPT ![p] = req[r].row]
      BY <1>2, <2>7, CommitCreateEffect
    <3>2. p \in Plants /\ req[r].row.household \in Households /\ req[r].row # NoRow /\ req[r].row \in PlantModel
      BY <3>1, AddedRow
    <3> PICK g \in Households, pl \in Plants, row \in PlantModel : g = row.household /\ pl = p /\ row = req[r].row /\ row # NoRow
      BY <3>2
    <3>3. plants'[pl] = row /\ \A q \in Plants \ {pl} : plants'[q] = plants[q]
      BY <3>1, <3>2 DEF RequestInv, TypeInv, WriteTypes
    <3>4. \A h \in Households : h # g => Charged(h)' \subseteq Charged(h)
      BY <2>1, <3>3 DEF Charged, _plant_ids
    <3>5. Charged(g)' \subseteq Charged(g) \cup {pl}
      BY <2>1, <3>3 DEF Charged, _plant_ids
    <3>6. HouseholdLocked(g) /\ ~HouseholdLocked(g)'
      <4>1. HouseholdLocked(g)
        BY <3>1 DEF HouseholdLocked, Adding
      <4>2. ASSUME NEW q \in Requests, Adding(req'[q]), req'[q].row.household = g PROVE FALSE
        BY <2>2, <2>3, <3>1, <4>2 DEF CapInv
      <4> QED
        BY <4>1, <4>2 DEF HouseholdLocked, Adding
    <3>7. Cardinality(Charged(g)') <= MaxPlants
      <4>1. Cardinality(Charged(g)) < MaxPlants
        BY <3>6 DEF CapInv, Charged
      <4>2. /\ IsFiniteSet(Charged(g)) /\ Cardinality(Charged(g)) \in Nat
        BY ChargedFinite
      <4> PICK set : set = Charged(g)
        OBVIOUS
      <4>3. /\ IsFiniteSet(set \cup {pl})
            /\ \/ Cardinality(set \cup {pl}) = Cardinality(set)
               \/ Cardinality(set \cup {pl}) = Cardinality(set) + 1
        BY <4>2, FS_AddElement
      <4>4. /\ Cardinality(Charged(g)') \in Nat /\ Cardinality(set \cup {pl}) \in Nat
            /\ Cardinality(Charged(g)') <= Cardinality(set \cup {pl})
        BY <3>5, <4>3, FS_Subset, FS_CardinalityType
      <4> QED
        BY <4>1, <4>2, <4>3, <4>4, GardenAssumption
    <3>8. ASSUME NEW h \in Households, h # g
          PROVE  /\ Cardinality(Charged(h)') <= MaxPlants
                 /\ HouseholdLocked(h) => Cardinality(Charged(h)') < MaxPlants
      <4>1. /\ Cardinality(Charged(h)) <= MaxPlants
            /\ HouseholdLocked(h) => Cardinality(Charged(h)) < MaxPlants
        BY DEF CapInv, Charged
      <4>2. IsFiniteSet(Charged(h)) /\ Cardinality(Charged(h)) \in Nat
        BY ChargedFinite
      <4>3. /\ Cardinality(Charged(h)') \in Nat
            /\ Cardinality(Charged(h)') <= Cardinality(Charged(h))
        BY <3>4, <3>8, <4>2, FS_Subset, FS_CardinalityType
      <4> QED
        BY <4>1, <4>2, <4>3, GardenAssumption
    <3>9. IsFiniteSet({q \in Plants : Exists(q)})'
      <4>1. {q \in Plants : plants'[q] # NoRow} = {q \in Plants : plants[q] # NoRow} \cup {pl}
        BY <3>3
      <4>2. IsFiniteSet({q \in Plants : plants[q] # NoRow} \cup {pl})
        BY FS_AddElement DEF CapInv, Exists
      <4> QED
        BY <4>1, <4>2 DEF Exists
    <3> QED
      BY <2>4, <2>5, <3>6, <3>7, <3>8, <3>9 DEF CapInv, Charged, Adding
  <2> QED
    BY <2>6, <2>7
<1> QED
  BY <1>1, <1>2

\* A commit on a plant charges a household for no plant it was not charged for:
\* what it brings back counts as restored.
LEMMA CommitCap ==
  ASSUME RequestInv, CapInv, NEW r \in Requests, Commit(r)
  PROVE  CapInv'
<1> DEFINE p == req[r].object
           new == plant_to_model(r)
<1>1. /\ p \in Plants /\ plants[p] # NoRow /\ plants' = [plants EXCEPT ![p] = new]
      /\ new # NoRow /\ new.household = plants[p].household
      /\ IF plants[p].removed /\ ~new.removed THEN restored' = restored \cup {p}
         ELSE restored' = restored
  BY CommitEffect
<1> HIDE DEF new
<1>2. plants'[p] = new /\ \A q \in Plants \ {p} : plants'[q] = plants[q]
  BY <1>1 DEF RequestInv, TypeInv, WriteTypes
<1>3. \A h \in Households : Charged(h)' \subseteq Charged(h)
  BY <1>1, <1>2 DEF Charged, _plant_ids
<1>4. {q \in Plants : plants'[q] # NoRow} = {q \in Plants : plants[q] # NoRow}
  BY <1>1, <1>2
<1>5. IsFiniteSet({q \in Plants : Exists(q)})'
  BY <1>4 DEF CapInv, Exists
<1>6. /\ req'[r] = Ended(req[r].key, req[r].fingerprint, "ok")
      /\ \A q \in Requests \ {r} : req'[q] = req[q] \/ req'[q] = [req[q] EXCEPT !.stale = TRUE]
  BY CommitRequests
<1>7. ~Adding(req'[r])
  <2>1. req[r].key \in Keys \cup {NoKey} /\ "ok" \in AnswerWords /\ req[r].fingerprint \in Fingerprint
    BY DEF RequestInv, TypeInv, WriteTypes, Request, AnswerWords
  <2> QED
    BY <1>6, <2>1, EndedRequest
<1>8. ASSUME NEW q \in Requests, Adding(req'[q])
      PROVE  q # r /\ Adding(req[q]) /\ req'[q].row = req[q].row
  <2>1. q # r /\ req[q] \in Request
    BY <1>7, <1>8 DEF RequestInv, TypeInv, WriteTypes
  <2> QED
    BY <1>6, <1>8, <2>1, AgedRequest
<1>9. \A s, q \in Requests : Adding(req'[s]) /\ Adding(req'[q]) /\ req'[s].row.household = req'[q].row.household
        => s = q
  BY <1>8 DEF CapInv
<1>10. \A h \in Households : HouseholdLocked(h)' => HouseholdLocked(h)
  <2>1. ASSUME NEW h \in Households, NEW q \in Requests, Adding(req'[q]), req'[q].row.household = h
        PROVE  HouseholdLocked(h)
    BY <1>8, <2>1 DEF HouseholdLocked, Adding
  <2> QED
    BY <2>1 DEF HouseholdLocked, Adding
<1>11. ASSUME NEW h \in Households
       PROVE  /\ Cardinality(Charged(h)') <= MaxPlants
              /\ HouseholdLocked(h) => Cardinality(Charged(h)') < MaxPlants
  <2>1. /\ Cardinality(Charged(h)) <= MaxPlants
        /\ HouseholdLocked(h) => Cardinality(Charged(h)) < MaxPlants
    BY DEF CapInv, Charged
  <2>2. IsFiniteSet(Charged(h)) /\ Cardinality(Charged(h)) \in Nat
    BY ChargedFinite
  <2>3. Cardinality(Charged(h)') \in Nat /\ Cardinality(Charged(h)') <= Cardinality(Charged(h))
    BY <1>3, <2>2, FS_Subset, FS_CardinalityType
  <2> QED
    BY <2>1, <2>2, <2>3, GardenAssumption
<1> QED
  BY <1>5, <1>9, <1>10, <1>11 DEF CapInv, Charged, Adding

\* Every step keeps the cap, and room for the addition that holds the lock.
LEMMA CapInvStep == RequestInv /\ CapInv /\ [Next]_vars => CapInv'
<1> SUFFICES ASSUME RequestInv, CapInv, [Next]_vars PROVE CapInv'
  OBVIOUS
<1>1. CASE UNCHANGED <<households, plants, idempotency, req, overlapped, restored, waterings>>
  <2>1. UNCHANGED <<plants, req, restored>>
    BY <1>1
  <2>2. IsFiniteSet({p \in Plants : Exists(p)})'
    BY <2>1 DEF CapInv, Exists
  <2>3. \A h \in Households : Charged(h)' = Charged(h) /\ (HouseholdLocked(h)' <=> HouseholdLocked(h))
    BY <2>1 DEF Charged, _plant_ids, HouseholdLocked
  <2>4. \A s, q \in Requests : Adding(req'[s]) /\ Adding(req'[q]) /\ req'[s].row.household = req'[q].row.household
          => s = q
    BY <2>1 DEF CapInv
  <2> QED
    BY <2>2, <2>3, <2>4 DEF CapInv, Charged, Adding
<1> QED
  BY <1>1, WriteSteps, RequestStepCap, CommitCreateCap, CommitCap

\* At first a household has one plant at most, and no plant has been watered.
LEMMA RulesInit == ReadInit => CapInv /\ SpacedInv
<1> SUFFICES ASSUME ReadInit PROVE CapInv /\ SpacedInv
  OBVIOUS
<1>1. PICK loc \in Locations, first \in SUBSET {FirstPlant} :
        plants = [p \in Plants |-> IF p \in first THEN add(Home, loc) ELSE NoRow]
  BY DEF ReadInit, Init
<1>2. {p \in Plants : Exists(p)} \subseteq {FirstPlant}
  BY <1>1 DEF Exists
<1>3. IsFiniteSet({FirstPlant}) /\ Cardinality({FirstPlant}) = 1
  BY FS_Singleton
<1>4. IsFiniteSet({p \in Plants : Exists(p)})
  BY <1>2, <1>3, FS_Subset
<1>5. ~\E r \in Requests : Adding(req[r])
  BY DEF ReadInit, Init, NewRequest, Adding
<1>6. ASSUME NEW h \in Households PROVE Cardinality(_plant_ids(h) \ restored) <= MaxPlants
  <2>1. _plant_ids(h) \ restored \subseteq {FirstPlant}
    BY <1>2, Words DEF _plant_ids, Exists
  <2>2. Cardinality(_plant_ids(h) \ restored) \in Nat /\ Cardinality(_plant_ids(h) \ restored) <= 1
    BY <1>3, <2>1, FS_Subset, FS_CardinalityType
  <2> QED
    BY <2>2, GardenAssumption
<1>7. CapInv
  BY <1>4, <1>5, <1>6 DEF CapInv, HouseholdLocked, Adding
<1>8. \A p \in Plants : \A t \in 1 .. MaxNow : waterings[p][t] = 0
  BY DEF ReadInit, Init
<1>9. SpacedInv
  BY <1>8 DEF SpacedInv, WateringsSpaced
<1> QED
  BY <1>7, <1>9

\* Leaving out what a command wrote from an old row, the rules of the garden hold: no
\* household is charged for more than MAX_PLANTS plants, but for removed plants that
\* were brought back, because AddPlant counts under the household's lock, and the
\* waterings of a plant that is not overlapped are MIN_WATERING_INTERVAL apart
\* because WaterPlant looks under the schedule's lock.
THEOREM RulesSafe == Spec => []RulesHold
<1>1. CapInv /\ SpacedInv => RulesHold
  BY DEF CapInv, CapHolds, SpacedInv, RulesHold
<1> QED
  BY <1>1, RulesInit, CapInvStep, SpacedInvStep, Inductive, PTL DEF Spec

-----------------------------------------------------------------------------
(* What is still in a topic *)

\* Appending an event, and delivering the first one.
LEMMA HasAfter ==
  ASSUME NEW S, NEW s \in Seq(S), NEW e \in S, NEW types
  PROVE  /\ Has(Append(s, e), types) <=> Has(s, types) \/ e.type \in types
         /\ s # <<>> => (Has(s, types) <=> s[1].type \in types \/ Has(Tail(s), types))
<1>1. Len(s) \in Nat
  OBVIOUS
<1>2. Has(Append(s, e), types) <=> Has(s, types) \/ e.type \in types
  <2>1. ASSUME Has(Append(s, e), types) PROVE Has(s, types) \/ e.type \in types
    <3>1. PICK i \in 1 .. Len(s) + 1 : Append(s, e)[i].type \in types
      BY <2>1, Appended DEF Has
    <3>2. CASE i = Len(s) + 1
      BY <3>1, <3>2, Appended
    <3>3. CASE i # Len(s) + 1
      <4>1. i \in 1 .. Len(s) /\ Append(s, e)[i] = s[i]
        BY <1>1, <3>3, Appended
      <4> QED
        BY <3>1, <4>1 DEF Has
    <3> QED
      BY <3>2, <3>3
  <2>2. ASSUME Has(s, types) PROVE Has(Append(s, e), types)
    <3>1. PICK i \in 1 .. Len(s) : s[i].type \in types
      BY <2>2 DEF Has
    <3>2. i \in 1 .. Len(Append(s, e)) /\ Append(s, e)[i] = s[i]
      BY <1>1, Appended
    <3> QED
      BY <3>1, <3>2 DEF Has
  <2>3. ASSUME e.type \in types PROVE Has(Append(s, e), types)
    <3>1. Len(s) + 1 \in 1 .. Len(Append(s, e)) /\ Append(s, e)[Len(s) + 1] = e
      BY <1>1, Appended
    <3> QED
      BY <2>3, <3>1 DEF Has
  <2> QED
    BY <2>1, <2>2, <2>3
<1>3. ASSUME s # <<>> PROVE Has(s, types) <=> s[1].type \in types \/ Has(Tail(s), types)
  <2>1. /\ Len(Tail(s)) = Len(s) - 1 /\ Len(s) \in Nat \ {0}
        /\ \A i \in 1 .. Len(s) - 1 : Tail(s)[i] = s[i + 1]
    BY <1>3, Delivered
  <2>2. ASSUME Has(s, types) PROVE s[1].type \in types \/ Has(Tail(s), types)
    <3>1. PICK i \in 1 .. Len(s) : s[i].type \in types
      BY <2>2 DEF Has
    <3>2. CASE i # 1
      <4>1. i - 1 \in 1 .. Len(Tail(s)) /\ Tail(s)[i - 1] = s[(i - 1) + 1] /\ (i - 1) + 1 = i
        BY <2>1, <3>2
      <4> QED
        BY <3>1, <4>1 DEF Has
    <3> QED
      BY <3>1, <3>2
  <2>3. ASSUME Has(Tail(s), types) PROVE Has(s, types)
    <3>1. PICK i \in 1 .. Len(s) - 1 : Tail(s)[i].type \in types
      BY <2>1, <2>3 DEF Has
    <3>2. i + 1 \in 1 .. Len(s) /\ s[i + 1].type \in types
      BY <2>1, <3>1
    <3> QED
      BY <3>2 DEF Has
  <2>4. ASSUME s[1].type \in types PROVE Has(s, types)
    BY <2>1, <2>4 DEF Has
  <2> QED
    BY <2>2, <2>3, <2>4
<1> QED
  BY <1>2, <1>3

\* The last event of some types is the appended one or stays; a delivery leaves it
\* or takes it.
LEMMA LastAfter ==
  ASSUME NEW S, NEW s \in Seq(S), NEW e \in S, NEW types
  PROVE  /\ \A i \in 1 .. Len(Append(s, e)) : IsLast(Append(s, e), i, types) =>
              \/ e.type \in types /\ Append(s, e)[i] = e
              \/ e.type \notin types /\ i \in 1 .. Len(s) /\ IsLast(s, i, types) /\ Append(s, e)[i] = s[i]
         /\ s # <<>> => \A i \in 1 .. Len(Tail(s)) : IsLast(Tail(s), i, types) =>
              i + 1 \in 1 .. Len(s) /\ IsLast(s, i + 1, types) /\ Tail(s)[i] = s[i + 1]
         /\ s # <<>> /\ s[1].type \in types /\ ~Has(Tail(s), types) => 1 \in 1 .. Len(s) /\ IsLast(s, 1, types)
<1>1. Len(s) \in Nat
  OBVIOUS
<1>2. ASSUME NEW i \in 1 .. Len(Append(s, e)), IsLast(Append(s, e), i, types)
      PROVE  \/ e.type \in types /\ Append(s, e)[i] = e
             \/ e.type \notin types /\ i \in 1 .. Len(s) /\ IsLast(s, i, types) /\ Append(s, e)[i] = s[i]
  <2>1. CASE i = Len(s) + 1
    BY <1>2, <2>1, Appended DEF IsLast
  <2>2. CASE i # Len(s) + 1
    <3>1. i \in 1 .. Len(s) /\ Append(s, e)[i] = s[i]
      BY <1>1, <2>2, Appended
    <3>2. Len(s) + 1 \in i + 1 .. Len(Append(s, e))
      BY <1>1, <3>1, Appended
    <3>3. e.type \notin types
      BY <1>2, <3>2, Appended DEF IsLast
    <3>4. ASSUME NEW j \in i + 1 .. Len(s) PROVE s[j].type \notin types
      <4>1. j \in i + 1 .. Len(Append(s, e)) /\ Append(s, e)[j] = s[j]
        BY <1>1, <3>1, Appended
      <4> QED
        BY <1>2, <4>1 DEF IsLast
    <3> QED
      BY <1>2, <3>1, <3>3, <3>4 DEF IsLast
  <2> QED
    BY <2>1, <2>2
<1>3. ASSUME s # <<>>, NEW i \in 1 .. Len(Tail(s)), IsLast(Tail(s), i, types)
      PROVE  i + 1 \in 1 .. Len(s) /\ IsLast(s, i + 1, types) /\ Tail(s)[i] = s[i + 1]
  <2>1. /\ Len(Tail(s)) = Len(s) - 1 /\ Len(s) \in Nat \ {0}
        /\ \A j \in 1 .. Len(s) - 1 : Tail(s)[j] = s[j + 1]
    BY <1>3, Delivered
  <2>2. i + 1 \in 1 .. Len(s) /\ Tail(s)[i] = s[i + 1]
    BY <2>1
  <2>3. ASSUME NEW j \in (i + 1) + 1 .. Len(s) PROVE s[j].type \notin types
    <3>1. j - 1 \in i + 1 .. Len(Tail(s)) /\ Tail(s)[j - 1] = s[(j - 1) + 1] /\ (j - 1) + 1 = j
      BY <2>1
    <3> QED
      BY <1>3, <3>1 DEF IsLast
  <2> QED
    BY <1>3, <2>2, <2>3 DEF IsLast
<1>4. ASSUME s # <<>>, s[1].type \in types, ~Has(Tail(s), types) PROVE 1 \in 1 .. Len(s) /\ IsLast(s, 1, types)
  <2>1. /\ Len(Tail(s)) = Len(s) - 1 /\ Len(s) \in Nat \ {0}
        /\ \A j \in 1 .. Len(s) - 1 : Tail(s)[j] = s[j + 1]
    BY <1>4, Delivered
  <2>2. ASSUME NEW j \in 1 + 1 .. Len(s) PROVE s[j].type \notin types
    <3>1. j - 1 \in 1 .. Len(Tail(s)) /\ Tail(s)[j - 1] = s[(j - 1) + 1] /\ (j - 1) + 1 = j
      BY <2>1
    <3> QED
      BY <1>4, <3>1 DEF Has
  <2> QED
    BY <1>4, <2>1, <2>2 DEF IsLast
<1> QED
  BY <1>2, <1>3, <1>4

\* Nothing is in an empty topic.
LEMMA NothingLeft ==
  \A types : ~Has(<<>>, types) /\ \A i \in 1 .. Len(<<>>) : ~IsLast(<<>>, i, types)
  BY DEF Has

-----------------------------------------------------------------------------
(* A plant's garden columns *)

\* A row a projection of another topic wrote: the garden's columns are as they were,
\* or still empty.
SameColumns(read, new) ==
    /\ new.removed = read.removed /\ new.onboarded = read.onboarded
    /\ new.location = read.location \/ {new.location, read.location} \cap Locations = {}

\* The committed addition is all there is of the plant.
LEMMA PlantIsAdded ==
  ASSUME NEW row \in PlantModel, ~row.removed, NEW e \in GardenEvent, e = PlantAdded(row)
  PROVE  LET topic == Append(<<>>, e)
         IN  /\ NamedFor(row, topic, NoPlantRow) /\ WrittenFor(row, topic, NoPlantRow)
             /\ ~OnboardedFor(topic, NoPlantRow)
<1> DEFINE topic == Append(<<>>, e)
<1>1. topic = <<e>> /\ Len(topic) = 1 /\ topic[1] = e /\ topic # <<>>
  OBVIOUS
<1>2. e.type = "PlantAdded" /\ e.location = row.location
  BY DEF PlantAdded
<1>3. /\ NoPlantRow.location = None /\ ~NoPlantRow.removed /\ ~NoPlantRow.onboarded /\ row # NoRow
      /\ None \notin Locations
  BY Words DEF NoPlantRow
<1> HIDE DEF topic
<1>4. \A i \in 1 .. Len(topic) : i = 1
  BY <1>1
<1>5. NamedFor(row, topic, NoPlantRow)
  BY <1>1, <1>2, <1>3 DEF NamedFor
<1>6. Has(topic, Located) /\ ~Has(topic, {"PlantRemoved"}) /\ ~Has(topic, {"PlantOnboarded"})
  BY <1>1, <1>2, <1>4 DEF Has, Located
<1>7. WrittenFor(row, topic, NoPlantRow)
  BY <1>1, <1>2, <1>3, <1>4, <1>6 DEF WrittenFor
<1> QED
  BY <1>3, <1>5, <1>6, <1>7 DEF topic, OnboardedFor

\* Any other event leaves the naming one the first.
LEMMA NamedAppend ==
  ASSUME NEW row \in PlantModel, NEW new \in PlantModel, NEW topic \in Seq(GardenEvent), NEW read \in PlantRow,
         NEW e \in GardenEvent, e.type # "PlantAdded", NamedFor(row, topic, read)
  PROVE  /\ NamedFor(new, Append(topic, e), read) /\ NamedFor(new, topic, read)
         /\ OnboardedFor(Append(topic, e), read) <=> OnboardedFor(topic, read) \/ e.type = "PlantOnboarded"
<1>1. row # NoRow /\ new # NoRow /\ Len(topic) \in Nat
  BY Words
<1>2. NamedFor(new, topic, read)
  BY <1>1 DEF NamedFor
<1>3. ASSUME read.location \notin Locations
      PROVE  /\ Append(topic, e) # <<>> /\ Append(topic, e)[1].type = "PlantAdded"
             /\ \A i \in 2 .. Len(Append(topic, e)) : Append(topic, e)[i].type # "PlantAdded"
             /\ ~read.removed /\ ~read.onboarded
  <2>1. /\ topic # <<>> /\ topic[1].type = "PlantAdded" /\ ~read.removed /\ ~read.onboarded
        /\ \A i \in 2 .. Len(topic) : topic[i].type # "PlantAdded"
    BY <1>1, <1>3 DEF NamedFor
  <2>2. 1 \in 1 .. Len(topic) /\ Append(topic, e)[1] = topic[1] /\ Append(topic, e) # <<>>
    BY <1>1, <2>1, Appended
  <2>3. ASSUME NEW i \in 2 .. Len(Append(topic, e)) PROVE Append(topic, e)[i].type # "PlantAdded"
    <3>1. CASE i = Len(topic) + 1
      BY <3>1, Appended
    <3>2. CASE i # Len(topic) + 1
      <4>1. i \in 1 .. Len(topic) /\ i \in 2 .. Len(topic) /\ Append(topic, e)[i] = topic[i]
        BY <1>1, <3>2, Appended
      <4> QED
        BY <2>1, <4>1
    <3> QED
      BY <3>1, <3>2
  <2> QED
    BY <2>1, <2>2, <2>3
<1>4. ASSUME read.location \in Locations PROVE ~Has(Append(topic, e), {"PlantAdded"})
  BY <1>4, HasAfter DEF NamedFor
<1>5. Has(Append(topic, e), {"PlantOnboarded"}) <=> Has(topic, {"PlantOnboarded"}) \/ e.type = "PlantOnboarded"
  BY HasAfter
<1> QED
  BY <1>1, <1>2, <1>3, <1>4, <1>5 DEF NamedFor, OnboardedFor

\* An event that says how the row changed keeps topic and row together.
LEMMA WrittenAppend ==
  ASSUME NEW row \in PlantModel, NEW new \in PlantModel, NEW topic \in Seq(GardenEvent), NEW read \in PlantRow,
         NEW e \in GardenEvent, WrittenFor(row, topic, read),
         \/ e.type = "PlantMoved" /\ e.location = new.location /\ new.removed = row.removed
         \/ e.type = "PlantRemoved" /\ new.location = row.location /\ new.removed
         \/ e.type = "PlantOnboarded" /\ new.location = row.location /\ new.removed = row.removed
  PROVE  WrittenFor(new, Append(topic, e), read)
<1> DEFINE after == Append(topic, e)
<1>1. /\ Has(after, Located) <=> Has(topic, Located) \/ e.type \in Located
      /\ Has(after, {"PlantRemoved"}) <=> Has(topic, {"PlantRemoved"}) \/ e.type \in {"PlantRemoved"}
  BY HasAfter
<1>2. \A i \in 1 .. Len(after) : IsLast(after, i, Located) =>
        \/ e.type \in Located /\ after[i] = e
        \/ e.type \notin Located /\ i \in 1 .. Len(topic) /\ IsLast(topic, i, Located) /\ after[i] = topic[i]
  BY LastAfter
<1> HIDE DEF after
<1>3. \A i \in 1 .. Len(after) : IsLast(after, i, Located) => after[i].location = new.location
  BY <1>2 DEF WrittenFor, Located
<1>4. ~Has(after, Located) => read.location = new.location
  BY <1>1 DEF WrittenFor, Located
<1>5. new.removed <=> read.removed \/ Has(after, {"PlantRemoved"})
  BY <1>1 DEF WrittenFor
<1> QED
  BY <1>3, <1>4, <1>5 DEF WrittenFor, after

\* So does a change the garden's columns do not show.
LEMMA WrittenSame ==
  ASSUME NEW row \in PlantModel, NEW new \in PlantModel, NEW topic \in Seq(GardenEvent), NEW read \in PlantRow,
         WrittenFor(row, topic, read), new.location = row.location, new.removed = row.removed
  PROVE  WrittenFor(new, topic, read)
  BY DEF WrittenFor

\* The other projections leave the garden's columns alone, or empty.
LEMMA ColumnsKept ==
  ASSUME NEW row, row # NoRow, NEW topic \in Seq(GardenEvent), NEW read \in PlantRow, NEW new \in PlantRow,
         NamedFor(row, topic, read), SameColumns(read, new)
  PROVE  /\ NamedFor(row, topic, new)
         /\ OnboardedFor(topic, new) <=> OnboardedFor(topic, read)
         /\ WrittenFor(row, topic, read) => WrittenFor(row, topic, new)
<1>1. NamedFor(row, topic, new)
  BY DEF NamedFor, SameColumns
<1>2. OnboardedFor(topic, new) <=> OnboardedFor(topic, read)
  BY DEF OnboardedFor, SameColumns
<1>3. ASSUME WrittenFor(row, topic, read) PROVE WrittenFor(row, topic, new)
  <2>1. CASE new.location = read.location
    BY <1>3, <2>1 DEF WrittenFor, SameColumns
  <2>2. CASE read.location \notin Locations
    <3>1. topic # <<>> /\ topic[1].type = "PlantAdded"
      BY <2>2 DEF NamedFor
    <3>2. Len(topic) \in Nat \ {0}
      BY <3>1, Delivered
    <3>3. Has(topic, Located)
      BY <3>1, <3>2 DEF Has, Located
    <3> QED
      BY <1>3, <3>3 DEF WrittenFor, SameColumns
  <2> QED
    BY <2>1, <2>2 DEF SameColumns
<1> QED
  BY <1>1, <1>2, <1>3

\* A delivery moves what the topic held into the read row.
LEMMA GardenDelivered ==
  ASSUME NEW row, NEW topic \in Seq(GardenEvent), topic # <<>>, NEW read \in PlantRow, NEW new \in PlantRow,
         NEW e, e = topic[1], NamedFor(row, topic, read),
         /\ e.type = "PlantAdded" => /\ new.location = e.location /\ e.location \in Locations
                                     /\ ~new.removed /\ new.onboarded = read.onboarded
         /\ e.type = "PlantMoved" => /\ new.location = e.location /\ e.location \in Locations
                                     /\ new.removed = read.removed /\ new.onboarded = read.onboarded
         /\ e.type = "PlantRemoved" => /\ new.location = read.location /\ new.removed
                                       /\ new.onboarded = read.onboarded
         /\ e.type = "PlantOnboarded" => /\ new.location = read.location /\ new.removed = read.removed
                                         /\ new.onboarded
  PROVE  /\ row # NoRow /\ NamedFor(row, Tail(topic), new) /\ new.location \in Locations
         /\ OnboardedFor(Tail(topic), new) <=> OnboardedFor(topic, read)
         /\ WrittenFor(row, topic, read) => WrittenFor(row, Tail(topic), new)
<1> DEFINE rest == Tail(topic)
<1>1. /\ Len(rest) = Len(topic) - 1 /\ Len(topic) \in Nat \ {0} /\ e \in GardenEvent
      /\ \A i \in 1 .. Len(topic) - 1 : rest[i] = topic[i + 1]
  BY Delivered
<1>2. \A types : Has(topic, types) <=> e.type \in types \/ Has(rest, types)
  BY <1>1, HasAfter
<1>3. \A i \in 1 .. Len(rest) : IsLast(rest, i, Located) =>
        i + 1 \in 1 .. Len(topic) /\ IsLast(topic, i + 1, Located) /\ rest[i] = topic[i + 1]
  BY <1>1, LastAfter
<1>4. e.type \in Located /\ ~Has(rest, Located) => 1 \in 1 .. Len(topic) /\ IsLast(topic, 1, Located)
  BY <1>1, LastAfter
<1> HIDE DEF rest
<1>5. e.type \in {"PlantAdded", "PlantMoved", "PlantRemoved", "PlantOnboarded"}
  BY <1>1 DEF GardenEvent
<1>6. row # NoRow
  BY DEF NamedFor
<1>7. e.type # "PlantAdded" => read.location \in Locations
  BY <1>6 DEF NamedFor
<1>8. e.type = "PlantAdded" => read.location \notin Locations /\ ~read.removed
  BY <1>2, <1>6 DEF NamedFor
<1>9. new.location \in Locations
  BY <1>5, <1>7
<1>10. ~Has(rest, {"PlantAdded"})
  <2>1. CASE e.type = "PlantAdded"
    <3>1. \A i \in 2 .. Len(topic) : topic[i].type # "PlantAdded"
      BY <1>6, <1>8, <2>1 DEF NamedFor
    <3>2. ASSUME NEW i \in 1 .. Len(rest) PROVE rest[i].type # "PlantAdded"
      <4>1. i + 1 \in 2 .. Len(topic) /\ rest[i] = topic[i + 1]
        BY <1>1
      <4> QED
        BY <3>1, <4>1
    <3> QED
      BY <3>2 DEF Has
  <2>2. CASE e.type # "PlantAdded"
    BY <1>2, <1>7, <2>2 DEF NamedFor
  <2> QED
    BY <2>1, <2>2
<1>11. NamedFor(row, rest, new)
  BY <1>6, <1>9, <1>10 DEF NamedFor
<1>12. OnboardedFor(rest, new) <=> OnboardedFor(topic, read)
  BY <1>2, <1>5 DEF OnboardedFor
<1>13. ASSUME WrittenFor(row, topic, read) PROVE WrittenFor(row, rest, new)
  <2>1. \A i \in 1 .. Len(rest) : IsLast(rest, i, Located) => rest[i].location = row.location
    BY <1>3, <1>13 DEF WrittenFor
  <2>2. ~Has(rest, Located) => new.location = row.location
    <3>1. CASE e.type \in Located
      BY <1>4, <1>13, <3>1 DEF WrittenFor, Located
    <3>2. CASE e.type \notin Located
      BY <1>2, <1>5, <1>13, <3>2 DEF WrittenFor, Located
    <3> QED
      BY <3>1, <3>2
  <2>3. row.removed <=> new.removed \/ Has(rest, {"PlantRemoved"})
    <3>1. row.removed <=> read.removed \/ Has(topic, {"PlantRemoved"})
      BY <1>13 DEF WrittenFor
    <3>2. Has(topic, {"PlantRemoved"}) <=> e.type = "PlantRemoved" \/ Has(rest, {"PlantRemoved"})
      BY <1>2
    <3> QED
      BY <1>5, <1>8, <3>1, <3>2
  <2> QED
    BY <2>1, <2>2, <2>3 DEF WrittenFor
<1> QED
  BY <1>6, <1>9, <1>11, <1>12, <1>13 DEF rest

\* A plant the step does not touch stays as it is.
LEMMA GardenUntouched ==
  ASSUME GardenInv, NEW q \in Plants, plants'[q] = plants[q], garden'[q] = garden[q],
         plant_rows'[q] = plant_rows[q], q \in onboarded' <=> q \in onboarded,
         overlapped \subseteq overlapped'
  PROVE  GardenFor(q)'
<1>1. GardenFor(q)
  BY DEF GardenInv, GardenFor
<1> QED
  BY <1>1 DEF GardenFor

\* Creating a household or a plant.
LEMMA CommitCreateGarden ==
  ASSUME RequestInv, GardenInv, NEW r \in Requests, CommitCreate(r), UNCHANGED <<readSide, inputs>>
  PROVE  GardenInv'
<1>1. UNCHANGED <<plant_rows, onboarded, overlapped>>
  BY DEF CommitCreate, history, readSide, inputs
<1>2. CASE UNCHANGED <<plants, garden>>
  BY <1>1, <1>2, GardenUntouched DEF GardenInv
<1>3. CASE ~UNCHANGED <<plants, garden>>
  <2>1. ~(RequestStep(r) /\ RestSame)
    BY <1>3 DEF RestSame, tables, topics
  <2>2. /\ Adding(req[r]) /\ plants' = [plants EXCEPT ![req[r].object] = req[r].row]
        /\ garden' = [garden EXCEPT ![req[r].object] = Append(@, PlantAdded(req[r].row))]
    BY <1>3, <2>1, CommitCreateEffect
  <2> PICK p \in Plants, row \in PlantModel : p = req[r].object /\ row = req[r].row
    BY <2>2, AddedRow
  <2>3. plants[p] = NoRow /\ ~row.removed /\ PlantAdded(row) \in GardenEvent
    BY <2>2, AddedRow
  <2>4. /\ plants'[p] = row /\ garden'[p] = Append(garden[p], PlantAdded(row))
        /\ \A q \in Plants \ {p} : plants'[q] = plants[q] /\ garden'[q] = garden[q]
    BY <2>2 DEF RequestInv, TypeInv, WriteTypes, TopicTypes
  <2>5. garden[p] = <<>> /\ plant_rows[p] = NoPlantRow /\ p \notin onboarded
    <3>1. garden[p] = <<>> /\ plant_rows[p] = NoPlantRow
      BY <2>3 DEF GardenInv, GardenFor, NamedFor
    <3>2. ~NoPlantRow.onboarded
      BY DEF NoPlantRow
    <3> QED
      BY <3>1, <3>2, NothingLeft DEF GardenInv, GardenFor, OnboardedFor
  <2>6. GardenFor(p)'
    BY <1>1, <2>3, <2>4, <2>5, PlantIsAdded DEF GardenFor
  <2>7. ASSUME NEW q \in Plants PROVE GardenFor(q)'
    BY <1>1, <2>4, <2>6, GardenUntouched
  <2> QED
    BY <2>7 DEF GardenInv
<1> QED
  BY <1>2, <1>3

\* A commit on a plant: an up-to-date one says in its events what it changed.
LEMMA CommitGarden ==
  ASSUME RequestInv, GardenInv, NEW r \in Requests, Commit(r), UNCHANGED <<readSide, inputs>>
  PROVE  GardenInv'
<1>1. UNCHANGED <<plant_rows, onboarded>>
  BY DEF readSide, inputs
<1>2. LET p == req[r].object
          new == plant_to_model(r)
      IN  /\ p \in Plants /\ plants[p] \in PlantModel /\ new \in PlantModel
          /\ plants' = [plants EXCEPT ![p] = new]
          /\ \/ garden' = garden
             \/ \E e \in GardenEvent : /\ e.type \in {"PlantMoved", "PlantRemoved"}
                                       /\ garden' = [garden EXCEPT ![p] = Append(@, e)]
          /\ IF req[r].stale THEN overlapped' = overlapped \cup {p} ELSE overlapped' = overlapped
  BY CommitEffect
<1> PICK p \in Plants, new \in PlantModel : p = req[r].object /\ new = plant_to_model(r)
  BY <1>2
<1>3. /\ plants' = [plants EXCEPT ![p] = new] /\ plants[p] \in PlantModel
      /\ IF req[r].stale THEN overlapped' = overlapped \cup {p} ELSE overlapped' = overlapped
      /\ \/ garden' = garden
         \/ \E e \in GardenEvent : /\ e.type \in {"PlantMoved", "PlantRemoved"}
                                   /\ garden' = [garden EXCEPT ![p] = Append(@, e)]
  BY <1>2
<1>4. /\ plants \in [Plants -> PlantModel \cup {NoRow}] /\ garden \in [Plants -> Seq(GardenEvent)]
      /\ plant_rows \in [Plants -> PlantRow]
  BY DEF RequestInv, TypeInv, WriteTypes, TopicTypes, ReadTypes
<1>5. plants'[p] = new /\ \A q \in Plants \ {p} : plants'[q] = plants[q] /\ garden'[q] = garden[q]
  BY <1>3, <1>4
<1> DEFINE topic == garden[p]
           read == plant_rows[p]
<1>6. topic \in Seq(GardenEvent) /\ read \in PlantRow /\ GardenFor(p)
  BY <1>4 DEF GardenInv
<1>7. NamedFor(new, garden'[p], read) /\ (p \in onboarded <=> OnboardedFor(garden'[p], read))
  <2>1. NamedFor(plants[p], topic, read) /\ (p \in onboarded <=> OnboardedFor(topic, read))
    BY <1>6 DEF GardenFor
  <2>2. CASE garden' = garden
    <3>1. [type |-> "PlantRemoved"] \in GardenEvent
      BY DEF GardenEvent
    <3> QED
      BY <1>3, <1>6, <2>1, <2>2, <3>1, NamedAppend
  <2>3. ASSUME NEW e \in GardenEvent, e.type \in {"PlantMoved", "PlantRemoved"},
               garden' = [garden EXCEPT ![p] = Append(@, e)]
        PROVE  NamedFor(new, garden'[p], read) /\ (p \in onboarded <=> OnboardedFor(garden'[p], read))
    <3>1. garden'[p] = Append(topic, e)
      BY <1>4, <2>3
    <3>2. e.type # "PlantAdded" /\ e.type # "PlantOnboarded"
      BY <2>3
    <3> QED
      BY <1>3, <1>6, <2>1, <3>1, <3>2, NamedAppend
  <2> QED
    BY <1>3, <2>2, <2>3
<1>8. ASSUME p \notin overlapped' PROVE WrittenFor(new, garden'[p], read)
  <2>1. ~req[r].stale /\ p \notin overlapped
    BY <1>3, <1>8
  <2>2. WrittenFor(plants[p], topic, read)
    BY <1>6, <2>1 DEF GardenFor
  <2>3. /\ new = req[r].row /\ Changed(req[r], plants[p]) /\ req[r].op \in OnPlant
        /\ garden' = [garden EXCEPT ![p] = @ \o req[r].events]
    BY <1>5, <2>1, FreshCommit
  <2>4. garden'[p] = topic \o req[r].events
    BY <1>4, <2>3
  <2>5. [type |-> "PlantRemoved"] \in GardenEvent
    BY DEF GardenEvent
  <2>6. topic \o <<>> = topic
    BY <1>6, <2>5, Appended
  <2>7. CASE req[r].op = "move"
    <3>1. PICK to \in Locations : /\ new = move(plants[p], to)
                                  /\ req[r].events = IF to = plants[p].location THEN <<>> ELSE <<PlantMoved(to)>>
      BY <2>3, <2>7 DEF Changed
    <3>2. new.location = to /\ new.removed = plants[p].removed
      BY <1>3, <3>1 DEF move, PlantModel
    <3>3. CASE to = plants[p].location
      BY <1>3, <1>6, <2>2, <2>4, <2>6, <3>1, <3>2, <3>3, WrittenSame
    <3>4. CASE to # plants[p].location
      <4>1. /\ PlantMoved(to) \in GardenEvent /\ PlantMoved(to).type = "PlantMoved"
            /\ PlantMoved(to).location = to
        BY DEF PlantMoved, GardenEvent
      <4>2. garden'[p] = Append(topic, PlantMoved(to))
        BY <1>6, <2>4, <3>1, <3>4, <4>1, Appended
      <4> QED
        BY <1>3, <1>6, <2>2, <3>2, <4>1, <4>2, WrittenAppend
    <3> QED
      BY <3>3, <3>4
  <2>8. CASE req[r].op = "remove"
    <3>1. new = remove(plants[p]) /\ req[r].events = <<PlantRemoved>>
      BY <2>3, <2>8 DEF Changed
    <3>2. new.location = plants[p].location /\ new.removed
      BY <1>3, <3>1 DEF remove, PlantModel
    <3>3. PlantRemoved \in GardenEvent /\ PlantRemoved.type = "PlantRemoved"
      BY DEF PlantRemoved, GardenEvent
    <3>4. garden'[p] = Append(topic, PlantRemoved)
      BY <1>6, <2>4, <3>1, <3>3, Appended
    <3> QED
      BY <1>3, <1>6, <2>2, <3>2, <3>3, <3>4, WrittenAppend
  <2>9. CASE req[r].op = "water"
    <3>1. new = water(plants[p], req[r].at) /\ req[r].events = <<>>
      BY <2>3, <2>9 DEF Changed
    <3>2. new.location = plants[p].location /\ new.removed = plants[p].removed
      BY <1>3, <3>1 DEF water, PlantModel
    <3> QED
      BY <1>3, <1>6, <2>2, <2>4, <2>6, <3>1, <3>2, WrittenSame
  <2> QED
    BY <2>3, <2>7, <2>8, <2>9 DEF OnPlant
<1>9. GardenFor(p)'
  BY <1>1, <1>5, <1>7, <1>8 DEF GardenFor
<1>10. ASSUME NEW q \in Plants, q # p PROVE GardenFor(q)'
  <2>1. overlapped \subseteq overlapped'
    BY <1>3
  <2> QED
    BY <1>1, <1>5, <1>10, <2>1, GardenUntouched
<1> QED
  BY <1>9, <1>10 DEF GardenInv

\* The end of an onboarding joins the plant's topic.
LEMMA PlantOnboardedGarden ==
  ASSUME RequestInv, GardenInv, NEW p \in Plants, PlantOnboarded(p)
  PROVE  GardenInv'
<1>1. /\ UNCHANGED <<plants, overlapped, plant_rows>> /\ onboarded' = onboarded \cup {p}
      /\ garden' = [garden EXCEPT ![p] = Append(@, [type |-> "PlantOnboarded"])]
      /\ schedules[p] # 0
  BY DEF PlantOnboarded, tables, history, readSide
<1>2. /\ plants \in [Plants -> PlantModel \cup {NoRow}] /\ garden \in [Plants -> Seq(GardenEvent)]
      /\ plant_rows \in [Plants -> PlantRow] /\ plants[p] # NoRow
  BY <1>1 DEF RequestInv, TypeInv, WriteTypes, TopicTypes, ReadTypes, ScheduledOK, ScheduledFor
<1> PICK e \in GardenEvent : e = [type |-> "PlantOnboarded"]
  BY DEF GardenEvent
<1>3. e.type = "PlantOnboarded"
  OBVIOUS
<1>4. garden'[p] = Append(garden[p], e) /\ \A q \in Plants \ {p} : garden'[q] = garden[q]
  BY <1>1, <1>2
<1>5. GardenFor(p) /\ plants[p] \in PlantModel /\ garden[p] \in Seq(GardenEvent) /\ plant_rows[p] \in PlantRow
  BY <1>2 DEF GardenInv
<1>6. NamedFor(plants[p], garden'[p], plant_rows[p]) /\ OnboardedFor(garden'[p], plant_rows[p])
  BY <1>3, <1>4, <1>5, NamedAppend DEF GardenFor
<1>7. p \notin overlapped => WrittenFor(plants[p], garden'[p], plant_rows[p])
  BY <1>3, <1>4, <1>5, WrittenAppend DEF GardenFor
<1>8. GardenFor(p)'
  BY <1>1, <1>6, <1>7 DEF GardenFor
<1>9. ASSUME NEW q \in Plants, q # p PROVE GardenFor(q)'
  BY <1>1, <1>4, <1>9, GardenUntouched
<1> QED
  BY <1>8, <1>9 DEF GardenInv

\* What the garden's projection writes.
LEMMA GardenProjectedRow ==
  ASSUME RequestInv, GardenInv, NEW p \in Plants, GardenProjection(p)
  PROVE  LET e == garden[p][1]
             read == plant_rows[p]
             new == plant_rows'[p]
         IN  /\ e.type = "PlantAdded" => /\ new.location = e.location /\ e.location \in Locations
                                         /\ ~new.removed /\ new.onboarded = read.onboarded
             /\ e.type = "PlantMoved" => /\ new.location = e.location /\ e.location \in Locations
                                         /\ new.removed = read.removed /\ new.onboarded = read.onboarded
             /\ e.type = "PlantRemoved" => /\ new.location = read.location /\ new.removed
                                           /\ new.onboarded = read.onboarded
             /\ e.type = "PlantOnboarded" => /\ new.location = read.location /\ new.removed = read.removed
                                             /\ new.onboarded
             /\ new.species_name = read.species_name /\ new.next = read.next
<1> DEFINE e == garden[p][1]
           read == plant_rows[p]
           new == plant_rows'[p]
<1>1. /\ garden[p] # <<>> /\ e \in GardenEvent
      /\ e.type = "PlantAdded" => e.location \in Locations /\ new = on_plant_added(p, e)
      /\ e.type = "PlantMoved" => e.location \in Locations /\ new = on_plant_moved(p, e)
      /\ e.type = "PlantRemoved" => new = on_plant_removed(p)
      /\ e.type = "PlantOnboarded" => new = on_plant_onboarded(p)
  BY GardenProjected DEF RequestInv
<1>2. read \in PlantRow /\ NamedFor(plants[p], garden[p], read)
  BY DEF RequestInv, TypeInv, ReadTypes, GardenInv, GardenFor
<1>3. e.type # "PlantAdded" => HasRow(p)
  <2>1. e.type # "PlantAdded" => read.location \in Locations
    BY <1>1, <1>2 DEF NamedFor
  <2>2. NoPlantRow.location \notin Locations
    BY Words DEF NoPlantRow
  <2> QED
    BY <2>1, <2>2 DEF HasRow
<1>4. CASE e.type = "PlantAdded"
  <2>1. new = [Row(p) EXCEPT !.location = e.location, !.removed = FALSE] /\ e.location \in Locations
    BY <1>1, <1>4 DEF on_plant_added
  <2>2. /\ Row(p).onboarded = read.onboarded /\ Row(p).species_name = read.species_name
        /\ Row(p).next = read.next /\ Row(p) \in PlantRow
    <3>1. CASE HasRow(p)
      BY <1>2, <3>1 DEF Row
    <3>2. CASE ~HasRow(p)
      <4>1. read = NoPlantRow /\ Row(p) = Placeholder
        BY <3>2 DEF HasRow, Row
      <4>2. Row(p) \in PlantRow
        BY ReadRowTypes DEF RequestInv, TypeInv
      <4> QED
        BY <4>1, <4>2 DEF NoPlantRow, Placeholder
    <3> QED
      BY <3>1, <3>2
  <2> QED
    BY <1>4, <2>1, <2>2 DEF PlantRow
<1>5. CASE e.type = "PlantMoved"
  BY <1>1, <1>2, <1>3, <1>5 DEF on_plant_moved, PlantRow
<1>6. CASE e.type = "PlantRemoved"
  BY <1>1, <1>2, <1>3, <1>6 DEF on_plant_removed, PlantRow
<1>7. CASE e.type = "PlantOnboarded"
  BY <1>1, <1>2, <1>3, <1>7 DEF on_plant_onboarded, PlantRow
<1>8. e.type \in {"PlantAdded", "PlantMoved", "PlantRemoved", "PlantOnboarded"}
  BY <1>1 DEF GardenEvent
<1> QED
  BY <1>4, <1>5, <1>6, <1>7, <1>8

\* The garden's projection takes an event out of the topic and into the row.
LEMMA GardenProjectionGarden ==
  ASSUME RequestInv, GardenInv, NEW p \in Plants, GardenProjection(p)
  PROVE  GardenInv' /\ plant_rows'[p].location \in Locations
<1>1. /\ UNCHANGED <<plants, overlapped, onboarded>> /\ garden[p] # <<>>
      /\ garden'[p] = Tail(garden[p]) /\ \A q \in Plants \ {p} : garden'[q] = garden[q]
      /\ plant_rows' \in [Plants -> PlantRow] /\ \A q \in Plants \ {p} : plant_rows'[q] = plant_rows[q]
  BY GardenProjected DEF GardenProjection, tables, history, inputs, RequestInv
<1> DEFINE topic == garden[p]
           read == plant_rows[p]
           new == plant_rows'[p]
           e == topic[1]
<1>2. topic \in Seq(GardenEvent) /\ read \in PlantRow /\ new \in PlantRow /\ GardenFor(p)
  BY <1>1 DEF RequestInv, TypeInv, TopicTypes, ReadTypes, GardenInv
<1>3. NamedFor(plants[p], topic, read)
  BY <1>2 DEF GardenFor
<1>4. /\ e.type = "PlantAdded" => /\ new.location = e.location /\ e.location \in Locations
                                  /\ ~new.removed /\ new.onboarded = read.onboarded
      /\ e.type = "PlantMoved" => /\ new.location = e.location /\ e.location \in Locations
                                  /\ new.removed = read.removed /\ new.onboarded = read.onboarded
      /\ e.type = "PlantRemoved" => /\ new.location = read.location /\ new.removed
                                    /\ new.onboarded = read.onboarded
      /\ e.type = "PlantOnboarded" => /\ new.location = read.location /\ new.removed = read.removed
                                      /\ new.onboarded
  BY GardenProjectedRow
<1>5. /\ NamedFor(plants[p], Tail(topic), new) /\ new.location \in Locations
      /\ OnboardedFor(Tail(topic), new) <=> OnboardedFor(topic, read)
      /\ WrittenFor(plants[p], topic, read) => WrittenFor(plants[p], Tail(topic), new)
  <2> HIDE DEF topic, read, new, e
  <2>1. topic # <<>> /\ e = topic[1]
    BY <1>1 DEF topic, e
  <2> QED
    BY <1>2, <1>3, <1>4, <2>1, GardenDelivered
<1>6. GardenFor(p)'
  BY <1>1, <1>2, <1>5 DEF GardenFor
<1>7. ASSUME NEW q \in Plants, q # p PROVE GardenFor(q)'
  BY <1>1, <1>7, GardenUntouched
<1> QED
  BY <1>5, <1>6, <1>7 DEF GardenInv

\* What the other projections write to the plant's row leaves the garden's columns.
LEMMA RowColumns ==
  ASSUME RequestInv, NEW p \in Plants
  PROVE  /\ SameColumns(plant_rows[p], Row(p)) /\ Row(p).species_name = plant_rows[p].species_name
         /\ Row(p).next = plant_rows[p].next /\ Row(p) \in PlantRow
         /\ Row(p).location \in Locations <=> plant_rows[p].location \in Locations
<1>1. Row(p) \in PlantRow
  BY ReadRowTypes DEF RequestInv, TypeInv
<1>2. CASE HasRow(p)
  BY <1>1, <1>2 DEF Row, SameColumns
<1>3. CASE ~HasRow(p)
  <2>1. plant_rows[p] = NoPlantRow /\ Row(p) = Placeholder
    BY <1>3 DEF HasRow, Row
  <2> QED
    BY <1>1, <2>1, Words DEF SameColumns, NoPlantRow, Placeholder
<1> QED
  BY <1>2, <1>3

\* A projection of another topic.
LEMMA OtherProjectionGarden ==
  ASSUME RequestInv, GardenInv, NEW p \in Plants, plants[p] # NoRow,
         UNCHANGED <<plants, garden, onboarded, overlapped>>,
         plant_rows' \in [Plants -> PlantRow], SameColumns(plant_rows[p], plant_rows'[p])
  PROVE  GardenFor(p)'
<1>1. garden[p] \in Seq(GardenEvent) /\ plant_rows[p] \in PlantRow /\ plant_rows'[p] \in PlantRow /\ GardenFor(p)
  BY DEF RequestInv, TypeInv, TopicTypes, ReadTypes, GardenInv
<1>2. /\ NamedFor(plants[p], garden[p], plant_rows'[p])
      /\ OnboardedFor(garden[p], plant_rows'[p]) <=> OnboardedFor(garden[p], plant_rows[p])
      /\ WrittenFor(plants[p], garden[p], plant_rows[p]) => WrittenFor(plants[p], garden[p], plant_rows'[p])
  BY <1>1, ColumnsKept DEF GardenFor
<1> QED
  BY <1>1, <1>2 DEF GardenFor

\* A row a projection of care or journal events writes belongs to a plant there is.
LEMMA ProjectedExists ==
  ASSUME RequestInv, CareInv, JournalInv, NEW p \in Plants, care[p] # <<>> \/ journal[p] # <<>>
  PROVE  plants[p] # NoRow
<1>1. CASE care[p] # <<>>
  BY <1>1 DEF CareInv, CaredFor, CareFor, LastPlanned, RequestInv, TypeInv, ScheduledOK, ScheduledFor
<1>2. CASE journal[p] # <<>>
  <2>1. journal[p] \in Seq(Nat) /\ recorded[p] \in Nat /\ Len(journal[p]) <= recorded[p]
    BY DEF JournalInv, JournalFor
  <2>2. Len(journal[p]) \in Nat \ {0}
    BY <1>2, <2>1, Delivered
  <2> QED
    BY <2>1, <2>2 DEF JournalInv
<1> QED
  BY <1>1, <1>2

\* Every step keeps rows, topics and written rows of the garden together.
LEMMA GardenInvStep == RequestInv /\ ReadInv /\ [Next]_vars => GardenInv'
<1> SUFFICES ASSUME RequestInv, ReadInv, [Next]_vars PROVE GardenInv'
  OBVIOUS
<1>1. GardenInv /\ CareInv /\ JournalInv /\ TypeInv
  BY DEF ReadInv, RequestInv
<1>2. CASE UNCHANGED <<plants, garden, onboarded, overlapped, plant_rows>>
  BY <1>1, <1>2, GardenUntouched DEF GardenInv
<1>3. ASSUME NEW p \in Plants, CareProjection(p) PROVE GardenInv'
  <2>1. /\ UNCHANGED <<plants, garden, onboarded, overlapped>> /\ care[p] # <<>>
        /\ plant_rows' \in [Plants -> PlantRow]
        /\ \A q \in Plants \ {p} : plant_rows'[q] = plant_rows[q]
        /\ \E n : plant_rows'[p] = [Row(p) EXCEPT !.next = n]
    BY <1>1, <1>3, CareProjected DEF CareProjection, tables, inputs, history
  <2>2. SameColumns(plant_rows[p], plant_rows'[p])
    BY <2>1, RowColumns DEF SameColumns, PlantRow
  <2>3. GardenFor(p)'
    BY <1>1, <2>1, <2>2, ProjectedExists, OtherProjectionGarden
  <2>4. ASSUME NEW q \in Plants, q # p PROVE GardenFor(q)'
    BY <1>1, <2>1, <2>4, GardenUntouched
  <2> QED
    BY <2>3, <2>4 DEF GardenInv
<1>4. ASSUME NEW p \in Plants, JournalProjection(p) PROVE GardenInv'
  <2>1. /\ UNCHANGED <<plants, garden, onboarded, overlapped>> /\ journal[p] # <<>>
        /\ plant_rows' \in [Plants -> PlantRow] /\ plant_rows'[p] = Row(p)
        /\ \A q \in Plants \ {p} : plant_rows'[q] = plant_rows[q]
    BY <1>1, <1>4, JournalProjected DEF JournalProjection, gardenVars, tables, history, topics
  <2>2. GardenFor(p)'
    BY <1>1, <2>1, ProjectedExists, OtherProjectionGarden, RowColumns
  <2>3. ASSUME NEW q \in Plants, q # p PROVE GardenFor(q)'
    BY <1>1, <2>1, <2>3, GardenUntouched
  <2> QED
    BY <2>2, <2>3 DEF GardenInv
<1>5. ASSUME SpeciesProjection PROVE GardenInv'
  <2>1. /\ UNCHANGED <<plants, garden, onboarded, overlapped>> /\ plant_rows' \in [Plants -> PlantRow]
        /\ \A p \in Plants : plant_rows'[p] =
             IF plant_rows[p].location \in Locations
             THEN [plant_rows[p] EXCEPT !.species_name = species_row'] ELSE plant_rows[p]
    BY <1>1, <1>5, SpeciesProjected DEF SpeciesProjection, gardenVars, tables, history, topics
  <2>2. ASSUME NEW q \in Plants PROVE GardenFor(q)'
    <3>1. CASE plant_rows[q].location \in Locations
      <4>1. plant_rows[q] \in PlantRow
        BY <1>1 DEF TypeInv, ReadTypes
      <4>2. SameColumns(plant_rows[q], plant_rows'[q])
        BY <2>1, <3>1, <4>1 DEF SameColumns, PlantRow
      <4>3. plants[q] # NoRow
        <5>1. NoPlantRow.location \notin Locations
          BY Words DEF NoPlantRow
        <5> QED
          BY <1>1, <3>1, <5>1 DEF GardenInv, GardenFor, NamedFor
      <4> QED
        BY <1>1, <2>1, <4>2, <4>3, OtherProjectionGarden
    <3>2. CASE plant_rows[q].location \notin Locations
      BY <1>1, <2>1, <3>2, GardenUntouched
    <3> QED
      BY <3>1, <3>2
  <2> QED
    BY <2>2 DEF GardenInv
<1>6. ASSUME NEW r \in Requests, RequestStep(r), RestSame PROVE GardenInv'
  BY <1>2, <1>6 DEF RestSame, tables, topics, history, readSide, inputs
<1>7. ASSUME (Tick /\ UNCHANGED <<readSide, inputs>>) \/ SpeciesUpdated \/ UNCHANGED vars PROVE GardenInv'
  BY <1>2, <1>7 DEF Tick, SpeciesUpdated, vars, gardenVars, tables, history, topics, readSide, inputs
<1>8. ASSUME NEW p \in Plants, \/ (CreateCareSchedule(p) \/ DeleteCareSchedule(p)) /\ UNCHANGED <<readSide, inputs>>
                               \/ JournalEntryAdded(p) \/ SkipWatering(p)
      PROVE  GardenInv'
  BY <1>2, <1>8 DEF CreateCareSchedule, DeleteCareSchedule, JournalEntryAdded, SkipWatering, gardenVars,
     tables, history, topics, readSide, inputs
<1> QED
  BY <1>1, <1>3, <1>4, <1>5, <1>6, <1>7, <1>8, Steps, CommitCreateGarden, CommitGarden, PlantOnboardedGarden,
     GardenProjectionGarden

-----------------------------------------------------------------------------
(* The species' name *)

\* Every step leaves each filled row the catalogue's name, or none if no change of
\* the species has come since.
LEMMA NamesInvStep == RequestInv /\ ReadInv /\ [Next]_vars => NamesInv'
<1> SUFFICES ASSUME RequestInv, ReadInv, [Next]_vars PROVE NamesInv'
  OBVIOUS
<1>1. GardenInv /\ NamesInv /\ TypeInv
  BY DEF ReadInv, RequestInv
<1>2. ASSUME UNCHANGED <<species_row, filled>>,
             \A p \in Plants : plant_rows'[p].species_name = plant_rows[p].species_name,
             \A p \in Plants : plant_rows[p].location \in Locations <=> plant_rows'[p].location \in Locations
      PROVE  NamesInv'
  BY <1>1, <1>2 DEF NamesInv, NamedRow
<1>3. CASE UNCHANGED <<plant_rows, species_row, filled>>
  BY <1>2, <1>3
<1>4. ASSUME NEW p \in Plants, CareProjection(p) PROVE NamesInv'
  <2>1. /\ UNCHANGED <<species_row, filled>> /\ plant_rows' \in [Plants -> PlantRow]
        /\ \A q \in Plants \ {p} : plant_rows'[q] = plant_rows[q]
        /\ \E n : plant_rows'[p] = [Row(p) EXCEPT !.next = n]
    BY <1>1, <1>4, CareProjected DEF CareProjection
  <2>2. /\ plant_rows'[p].species_name = plant_rows[p].species_name
        /\ plant_rows[p].location \in Locations <=> plant_rows'[p].location \in Locations
    BY <2>1, RowColumns DEF PlantRow
  <2> QED
    BY <1>2, <2>1, <2>2
<1>5. ASSUME NEW p \in Plants, JournalProjection(p) PROVE NamesInv'
  <2>1. /\ UNCHANGED <<species_row, filled>> /\ plant_rows'[p] = Row(p)
        /\ \A q \in Plants \ {p} : plant_rows'[q] = plant_rows[q]
    BY <1>1, <1>5, JournalProjected DEF JournalProjection
  <2> QED
    BY <1>2, <2>1, RowColumns
<1>6. ASSUME NEW p \in Plants, GardenProjection(p) PROVE NamesInv'
  <2> DEFINE e == garden[p][1]
  <2>1. /\ UNCHANGED species_row /\ \A q \in Plants \ {p} : plant_rows'[q] = plant_rows[q]
        /\ garden[p] \in Seq(GardenEvent) /\ garden[p] # <<>> /\ Head(garden[p]) = e
        /\ 1 \in 1 .. Len(garden[p])
        /\ filled' = [filled EXCEPT ![p] = IF e.type = "PlantAdded" THEN species_row ELSE @]
    <3>1. garden[p] \in Seq(GardenEvent) /\ garden[p] # <<>>
      BY <1>1, <1>6 DEF TypeInv, TopicTypes, GardenProjection
    <3>2. Head(garden[p]) = e /\ 1 \in 1 .. Len(garden[p])
      BY <3>1, Delivered
    <3> QED
      BY <1>1, <1>6, <3>1, <3>2, GardenProjected DEF GardenProjection
  <2>2. plant_rows'[p].location \in Locations
    BY <1>1, <1>6, GardenProjectionGarden
  <2>3. plant_rows'[p].species_name = plant_rows[p].species_name
    BY <1>1, <1>6, GardenProjectedRow
  <2>4. e.type = "PlantAdded" <=> plant_rows[p].location \notin Locations
    <3>1. NamedFor(plants[p], garden[p], plant_rows[p])
      BY <1>1 DEF GardenInv, GardenFor
    <3> QED
      BY <2>1, <3>1 DEF NamedFor, Has
  <2>5. species_row \in Nat
    BY <1>1 DEF TypeInv, CatalogOK
  <2>6. /\ filled' \in [Plants -> Nat] /\ \A q \in Plants \ {p} : filled'[q] = filled[q]
        /\ filled'[p] = IF e.type = "PlantAdded" THEN species_row ELSE filled[p]
    BY <1>1, <2>1, <2>5 DEF NamesInv
  <2>7. filled'[p] <= species_row' /\ NamedRow(plant_rows'[p], species_row', filled'[p])
    <3>1. filled[p] <= species_row /\ NamedRow(plant_rows[p], species_row, filled[p])
      BY <1>1 DEF NamesInv
    <3>2. CASE e.type = "PlantAdded"
      <4>1. plant_rows[p].species_name = 0 /\ filled'[p] = species_row
        BY <2>4, <2>6, <3>1, <3>2 DEF NamedRow
      <4> QED
        BY <2>1, <2>3, <2>5, <4>1 DEF NamedRow
    <3>3. CASE e.type # "PlantAdded"
      BY <2>1, <2>2, <2>3, <2>4, <2>6, <3>1, <3>3 DEF NamedRow
    <3> QED
      BY <3>2, <3>3
  <2>8. ASSUME NEW q \in Plants, q # p
        PROVE  filled'[q] <= species_row' /\ NamedRow(plant_rows'[q], species_row', filled'[q])
    BY <1>1, <2>1, <2>6, <2>8 DEF NamesInv
  <2> QED
    BY <2>6, <2>7, <2>8 DEF NamesInv
<1>7. ASSUME SpeciesProjection PROVE NamesInv'
  <2>1. /\ UNCHANGED filled /\ species_row \in Nat /\ species_row' = species_row + 1
        /\ \A p \in Plants : plant_rows'[p] =
             IF plant_rows[p].location \in Locations
             THEN [plant_rows[p] EXCEPT !.species_name = species_row'] ELSE plant_rows[p]
    BY <1>1, <1>7, SpeciesProjected DEF SpeciesProjection, TypeInv, CatalogOK
  <2>2. ASSUME NEW p \in Plants
        PROVE  filled'[p] <= species_row' /\ NamedRow(plant_rows'[p], species_row', filled'[p])
    <3>1. /\ plant_rows[p] \in PlantRow /\ filled[p] \in Nat /\ filled[p] <= species_row
          /\ NamedRow(plant_rows[p], species_row, filled[p])
      BY <1>1 DEF TypeInv, ReadTypes, NamesInv
    <3>2. filled'[p] <= species_row' /\ species_row' > filled'[p]
      BY <2>1, <3>1
    <3>3. CASE plant_rows[p].location \in Locations
      <4>1. plant_rows'[p].species_name = species_row'
        BY <2>1, <3>1, <3>3 DEF PlantRow
      <4>2. plant_rows'[p].location \in Locations
        BY <2>1, <3>1, <3>3 DEF PlantRow
      <4> QED
        BY <3>2, <4>1, <4>2 DEF NamedRow
    <3>4. CASE plant_rows[p].location \notin Locations
      BY <2>1, <3>1, <3>2, <3>4 DEF NamedRow
    <3> QED
      BY <3>3, <3>4
  <2> QED
    BY <1>1, <2>1, <2>2 DEF NamesInv
<1>8. ASSUME \/ \E r \in Requests : \/ RequestStep(r) /\ RestSame
                                    \/ (CommitCreate(r) \/ Commit(r)) /\ UNCHANGED <<readSide, inputs>>
             \/ (Tick /\ UNCHANGED <<readSide, inputs>>) \/ SpeciesUpdated \/ UNCHANGED vars
             \/ \E p \in Plants :
                  \/ (CreateCareSchedule(p) \/ DeleteCareSchedule(p)) /\ UNCHANGED <<readSide, inputs>>
                  \/ JournalEntryAdded(p) \/ SkipWatering(p) \/ PlantOnboarded(p)
      PROVE  UNCHANGED readSide
  BY <1>8 DEF RestSame, SpeciesUpdated, vars, JournalEntryAdded, SkipWatering, PlantOnboarded
<1> QED
  BY <1>3, <1>4, <1>5, <1>6, <1>7, <1>8, Steps DEF readSide

-----------------------------------------------------------------------------
(* The timeline *)

\* An entry is recorded with the next number; the first of the topic is delivered.
LEMMA JournalAfter ==
  ASSUME NEW n, NEW topic, NEW entries, JournalFor(n, topic, entries)
  PROVE  /\ JournalFor(n + 1, Append(topic, n + 1), entries)
         /\ topic # <<>> => JournalFor(n, Tail(topic), entries \cup {Head(topic)})
<1>1. /\ topic \in Seq(Nat) /\ n \in Nat /\ Len(topic) \in Nat /\ Len(topic) <= n
      /\ \A i \in 1 .. Len(topic) : topic[i] = n - Len(topic) + i
      /\ entries = 1 .. (n - Len(topic))
  BY DEF JournalFor
<1>2. JournalFor(n + 1, Append(topic, n + 1), entries)
  <2> DEFINE after == Append(topic, n + 1)
  <2>1. /\ after \in Seq(Nat) /\ Len(after) = Len(topic) + 1 /\ after[Len(topic) + 1] = n + 1
        /\ \A i \in 1 .. Len(topic) : after[i] = topic[i]
    BY <1>1, Appended
  <2> HIDE DEF after
  <2>2. (n + 1) - Len(after) = n - Len(topic) /\ n + 1 \in Nat /\ Len(after) <= n + 1
    BY <1>1, <2>1
  <2>3. ASSUME NEW i \in 1 .. Len(after) PROVE after[i] = (n + 1) - Len(after) + i
    <3>1. CASE i = Len(topic) + 1
      BY <1>1, <2>1, <3>1
    <3>2. CASE i # Len(topic) + 1
      <4>1. i \in 1 .. Len(topic)
        BY <1>1, <2>1, <3>2
      <4> QED
        BY <1>1, <2>1, <2>2, <4>1
    <3> QED
      BY <3>1, <3>2
  <2> QED
    BY <1>1, <2>1, <2>2, <2>3 DEF JournalFor, after
<1>3. ASSUME topic # <<>> PROVE JournalFor(n, Tail(topic), entries \cup {Head(topic)})
  <2> DEFINE rest == Tail(topic)
  <2>1. /\ rest \in Seq(Nat) /\ Len(rest) = Len(topic) - 1 /\ Len(topic) \in Nat \ {0}
        /\ \A i \in 1 .. Len(topic) - 1 : rest[i] = topic[i + 1]
        /\ Head(topic) = topic[1]
    BY <1>1, <1>3, Delivered
  <2> HIDE DEF rest
  <2>2. Head(topic) = n - Len(topic) + 1 /\ n - Len(rest) = n - Len(topic) + 1 /\ Len(rest) <= n
    BY <1>1, <2>1
  <2>3. entries \cup {Head(topic)} = 1 .. (n - Len(rest))
    BY <1>1, <2>2
  <2>4. ASSUME NEW i \in 1 .. Len(rest) PROVE rest[i] = n - Len(rest) + i
    <3>1. i + 1 \in 1 .. Len(topic) /\ rest[i] = topic[i + 1]
      BY <1>1, <2>1
    <3> QED
      BY <1>1, <2>1, <3>1
  <2> QED
    BY <1>1, <2>1, <2>2, <2>3, <2>4 DEF JournalFor, rest
<1> QED
  BY <1>2, <1>3

\* Every step keeps topic and timeline the entries there are.
LEMMA JournalInvStep == RequestInv /\ ReadInv /\ [Next]_vars => JournalInv'
<1> SUFFICES ASSUME RequestInv, ReadInv, [Next]_vars PROVE JournalInv'
  OBVIOUS
<1>1. JournalInv /\ TypeInv
  BY DEF ReadInv, RequestInv
<1>2. ASSUME UNCHANGED <<journal, recorded, entry_rows>>,
             \A p \in Plants : plants'[p] = NoRow => plants[p] = NoRow
      PROVE  JournalInv'
  BY <1>1, <1>2 DEF JournalInv
<1>3. ASSUME NEW p \in Plants, JournalEntryAdded(p) PROVE JournalInv'
  <2>1. /\ UNCHANGED <<plants, entry_rows>> /\ plants[p] # NoRow
        /\ recorded' = [recorded EXCEPT ![p] = @ + 1]
        /\ journal' = [journal EXCEPT ![p] = Append(@, recorded[p] + 1)]
    BY <1>3 DEF JournalEntryAdded, gardenVars, tables, history, readSide, Exists
  <2>2. JournalFor(recorded[p], journal[p], entry_rows[p]) /\ recorded[p] \in Nat
    BY <1>1 DEF JournalInv
  <2>3. JournalFor(recorded[p] + 1, Append(journal[p], recorded[p] + 1), entry_rows[p])
    BY <2>2, JournalAfter
  <2>4. journal' \in [Plants -> Seq(Nat)] /\ recorded' \in [Plants -> Nat]
    BY <1>1, <2>1, <2>2, <2>3 DEF JournalInv, JournalFor
  <2>5. /\ recorded'[p] = recorded[p] + 1 /\ journal'[p] = Append(journal[p], recorded[p] + 1)
        /\ \A q \in Plants \ {p} : recorded'[q] = recorded[q] /\ journal'[q] = journal[q]
    BY <1>1, <2>1 DEF JournalInv
  <2>6. \A q \in Plants : JournalFor(recorded'[q], journal'[q], entry_rows'[q])
    BY <1>1, <2>1, <2>3, <2>5 DEF JournalInv
  <2>7. \A q \in Plants : plants'[q] = NoRow => recorded'[q] = 0
    BY <1>1, <2>1, <2>5 DEF JournalInv
  <2>8. entry_rows' \in [Plants -> SUBSET Nat]
    BY <1>1, <2>1 DEF JournalInv
  <2> QED
    BY <2>4, <2>6, <2>7, <2>8 DEF JournalInv
<1>4. ASSUME NEW p \in Plants, JournalProjection(p) PROVE JournalInv'
  <2>1. /\ UNCHANGED <<plants, recorded>> /\ journal[p] # <<>>
        /\ entry_rows' = [entry_rows EXCEPT ![p] = @ \cup {Head(journal[p])}]
        /\ journal' = [journal EXCEPT ![p] = Tail(@)]
    BY <1>4 DEF JournalProjection, gardenVars, tables, history
  <2>2. JournalFor(recorded[p], journal[p], entry_rows[p])
    BY <1>1 DEF JournalInv
  <2>3. JournalFor(recorded[p], Tail(journal[p]), entry_rows[p] \cup {Head(journal[p])})
    BY <2>1, <2>2, JournalAfter
  <2>4. journal[p] \in Seq(Nat) /\ Head(journal[p]) \in Nat
    BY <2>1, <2>2, Delivered DEF JournalFor
  <2>5. journal' \in [Plants -> Seq(Nat)] /\ entry_rows' \in [Plants -> SUBSET Nat]
    BY <1>1, <2>1, <2>3, <2>4 DEF JournalInv, JournalFor
  <2>6. /\ journal'[p] = Tail(journal[p]) /\ entry_rows'[p] = entry_rows[p] \cup {Head(journal[p])}
        /\ \A q \in Plants \ {p} : entry_rows'[q] = entry_rows[q] /\ journal'[q] = journal[q]
    BY <1>1, <2>1 DEF JournalInv
  <2>7. \A q \in Plants : JournalFor(recorded'[q], journal'[q], entry_rows'[q])
    BY <1>1, <2>1, <2>3, <2>6 DEF JournalInv
  <2> QED
    BY <1>1, <2>1, <2>5, <2>7 DEF JournalInv
<1>5. ASSUME NEW r \in Requests, (CommitCreate(r) \/ Commit(r)) /\ UNCHANGED <<readSide, inputs>>
      PROVE  JournalInv'
  <2>1. UNCHANGED <<journal, recorded, entry_rows>>
    BY <1>5 DEF readSide, inputs
  <2>2. plants \in [Plants -> PlantModel \cup {NoRow}]
    BY <1>1 DEF TypeInv, WriteTypes
  <2>3. CASE Commit(r)
    <3>1. req[r].object \in Plants /\ plants' = [plants EXCEPT ![req[r].object] = plant_to_model(r)]
          /\ plant_to_model(r) # NoRow
      BY <2>3, CommitEffect
    <3> QED
      BY <1>2, <2>1, <2>2, <3>1
  <2>4. CASE CommitCreate(r)
    <3>1. CASE UNCHANGED plants
      BY <1>2, <2>1, <3>1
    <3>2. CASE ~UNCHANGED plants
      <4>1. ~(RequestStep(r) /\ RestSame)
        BY <3>2 DEF RestSame, tables
      <4>2. Adding(req[r]) /\ plants' = [plants EXCEPT ![req[r].object] = req[r].row]
        BY <1>5, <2>4, <3>2, <4>1, CommitCreateEffect
      <4>3. req[r].row # NoRow /\ req[r].object \in Plants
        BY <4>2, AddedRow
      <4> QED
        BY <1>2, <2>1, <2>2, <4>2, <4>3
    <3> QED
      BY <3>1, <3>2
  <2> QED
    BY <1>5, <2>3, <2>4
<1>6. ASSUME \/ \E r \in Requests : RequestStep(r) /\ RestSame
             \/ (Tick /\ UNCHANGED <<readSide, inputs>>) \/ SpeciesUpdated \/ SpeciesProjection \/ UNCHANGED vars
             \/ \E p \in Plants :
                  \/ (CreateCareSchedule(p) \/ DeleteCareSchedule(p)) /\ UNCHANGED <<readSide, inputs>>
                  \/ SkipWatering(p) \/ PlantOnboarded(p) \/ GardenProjection(p) \/ CareProjection(p)
      PROVE  UNCHANGED <<journal, recorded, entry_rows, plants>>
  BY <1>6 DEF RestSame, Tick, SpeciesUpdated, SpeciesProjection, vars, CreateCareSchedule, DeleteCareSchedule, SkipWatering,
     PlantOnboarded, GardenProjection, CareProjection, gardenVars, tables, history, readSide, inputs
<1> QED
  BY <1>2, <1>3, <1>4, <1>5, <1>6, Steps

-----------------------------------------------------------------------------
(* A plant's care *)

\* A schedule's creation comes first, anything else after it, with the next watering.
LEMMA CareAppended ==
  ASSUME NEW planned, NEW topic \in Seq(CareEvent), NEW next, NEW read \in CareRow, NEW e \in CareEvent,
         NEW n \in Nat \ {0}, e.next = n, CareFor(planned, topic, next, read),
         planned = 0 <=> e.type = "CareScheduleCreated"
  PROVE  CareFor(n, Append(topic, e), next, read)
<1> DEFINE after == Append(topic, e)
<1>1. /\ Len(topic) \in Nat /\ Len(after) = Len(topic) + 1 /\ after[Len(topic) + 1] = e
      /\ \A i \in 1 .. Len(topic) : after[i] = topic[i]
  BY Appended
<1>2. after # <<>>
  BY <1>1
<1> HIDE DEF after
<1>3. after[Len(after)].next = n
  BY <1>1
<1>4. CASE planned = 0
  <2>1. topic = <<>> /\ read = NoCareRow /\ Len(topic) = 0
    BY <1>4 DEF CareFor
  <2>2. Len(after) = 1 /\ after[1] = e
    BY <1>1, <2>1
  <2>3. \A i \in 1 .. Len(after) : i = 1
    BY <2>2
  <2> QED
    BY <1>2, <1>3, <1>4, <2>1, <2>2, <2>3 DEF CareFor, after
<1>5. CASE planned # 0
  <2>1. read = NoCareRow => after[1].type = "CareScheduleCreated"
    <3>1. ASSUME read = NoCareRow PROVE after[1].type = "CareScheduleCreated"
      <4>1. topic # <<>> /\ topic[1].type = "CareScheduleCreated"
        BY <1>5, <3>1 DEF CareFor
      <4>2. 1 \in 1 .. Len(topic)
        BY <1>1, <4>1, Delivered
      <4> QED
        BY <1>1, <4>1, <4>2
    <3> QED
      BY <3>1
  <2>2. ASSUME NEW i \in 1 .. Len(after), after[i].type = "CareScheduleCreated" PROVE i = 1 /\ read = NoCareRow
    <3>1. i # Len(topic) + 1
      BY <1>1, <1>5, <2>2
    <3>2. i \in 1 .. Len(topic) /\ topic[i].type = "CareScheduleCreated"
      BY <1>1, <2>2, <3>1
    <3> QED
      BY <3>2 DEF CareFor
  <2>3. read # NoCareRow => read.version = 1
    BY DEF CareFor
  <2> QED
    BY <1>2, <1>3, <2>1, <2>2, <2>3 DEF CareFor, after
<1> QED
  BY <1>4, <1>5

\* A watering joins the topic with its time, and nothing else changes it.
LEMMA WateredAppended ==
  ASSUME NEW row, NEW new, NEW topic \in Seq(CareEvent), NEW read, NEW e \in CareEvent,
         WateredFor(row, topic, read),
         \/ e.type = "WateringCompleted" /\ e.at = new.watered
         \/ e.type # "WateringCompleted" /\ new.watered = row.watered
  PROVE  WateredFor(new, Append(topic, e), read)
<1> DEFINE after == Append(topic, e)
           types == {"WateringCompleted"}
<1>1. Has(after, types) <=> Has(topic, types) \/ e.type \in types
  BY HasAfter
<1>2. \A i \in 1 .. Len(after) : IsLast(after, i, types) =>
        \/ e.type \in types /\ after[i] = e
        \/ e.type \notin types /\ i \in 1 .. Len(topic) /\ IsLast(topic, i, types) /\ after[i] = topic[i]
  BY LastAfter
<1> HIDE DEF after
<1>3. \A i \in 1 .. Len(after) : IsLast(after, i, types) => after[i].at = new.watered
  BY <1>2 DEF WateredFor
<1>4. ~Has(after, types) => read.watered = new.watered
  BY <1>1 DEF WateredFor
<1> QED
  BY <1>3, <1>4 DEF WateredFor, after

\* A delivery moves the next and the last watering into the care row.
LEMMA CareDelivered ==
  ASSUME NEW planned, NEW topic \in Seq(CareEvent), topic # <<>>, NEW next, NEW read \in CareRow,
         NEW new \in CareRow, NEW e, e = topic[1], new = CareRowAfter(read, e), e.next \in Nat,
         CareFor(planned, topic, next, read)
  PROVE  /\ CareFor(planned, Tail(topic), e.next, new)
         /\ \A row : WateredFor(row, topic, read) => WateredFor(row, Tail(topic), new)
<1> DEFINE rest == Tail(topic)
           types == {"WateringCompleted"}
<1>1. /\ rest \in Seq(CareEvent) /\ Len(rest) = Len(topic) - 1 /\ Len(topic) \in Nat \ {0} /\ e \in CareEvent
      /\ \A i \in 1 .. Len(topic) - 1 : rest[i] = topic[i + 1]
  BY Delivered
<1>2. Has(topic, types) <=> e.type \in types \/ Has(rest, types)
  BY <1>1, HasAfter
<1>3. \A i \in 1 .. Len(rest) : IsLast(rest, i, types) =>
        i + 1 \in 1 .. Len(topic) /\ IsLast(topic, i + 1, types) /\ rest[i] = topic[i + 1]
  BY <1>1, LastAfter
<1>4. e.type \in types /\ ~Has(rest, types) => 1 \in 1 .. Len(topic) /\ IsLast(topic, 1, types)
  BY <1>1, LastAfter
<1>5. rest = <<>> <=> Len(rest) = 0
  BY <1>1
<1> HIDE DEF rest
<1>6. planned # 0 /\ (read = NoCareRow <=> e.type = "CareScheduleCreated")
  <2>1. planned # 0 /\ (read = NoCareRow => e.type = "CareScheduleCreated")
    BY DEF CareFor
  <2>2. e.type = "CareScheduleCreated" => read = NoCareRow
    BY <1>1 DEF CareFor
  <2> QED
    BY <2>1, <2>2
<1>7. /\ new.next = e.next /\ new.version = 1 /\ new # NoCareRow
      /\ new.watered = IF e.type = "WateringCompleted" THEN e.at ELSE read.watered
  <2>1. CASE read = NoCareRow
    <3>1. e.type = "CareScheduleCreated" /\ read.watered = 0
      BY <1>6, <2>1 DEF NoCareRow
    <3>2. new = [next |-> e.next, watered |-> 0, version |-> 1]
      BY <2>1, <3>1 DEF CareRowAfter
    <3> QED
      BY <3>1, <3>2 DEF NoCareRow
  <2>2. CASE read # NoCareRow
    <3>1. read.version = 1
      BY <2>2 DEF CareFor
    <3>2. new = IF e.type = "WateringCompleted" THEN [read EXCEPT !.next = e.next, !.watered = e.at]
                ELSE [read EXCEPT !.next = e.next]
      BY <2>2 DEF CareRowAfter
    <3>3. /\ new.next = e.next /\ new.version = 1
          /\ new.watered = IF e.type = "WateringCompleted" THEN e.at ELSE read.watered
      BY <3>1, <3>2 DEF CareRow
    <3> QED
      BY <3>3 DEF NoCareRow
  <2> QED
    BY <2>1, <2>2
<1>8. ASSUME NEW i \in 1 .. Len(rest) PROVE rest[i].type # "CareScheduleCreated"
  <2>1. i + 1 \in 1 .. Len(topic) /\ i + 1 # 1 /\ rest[i] = topic[i + 1]
    BY <1>1
  <2> QED
    BY <2>1 DEF CareFor
<1>9. rest = <<>> => e.next = planned
  <2>1. ASSUME rest = <<>> PROVE e.next = planned
    <3>1. Len(topic) = 1
      BY <1>1, <1>5, <2>1
    <3> QED
      BY <3>1 DEF CareFor
  <2> QED
    BY <2>1
<1>10. rest # <<>> => rest[Len(rest)].next = planned
  <2>1. ASSUME rest # <<>> PROVE rest[Len(rest)] = topic[Len(topic)]
    <3>1. Len(rest) \in 1 .. Len(topic) - 1 /\ Len(rest) + 1 = Len(topic)
      BY <1>1, <1>5, <2>1
    <3> QED
      BY <1>1, <3>1
  <2> QED
    BY <2>1 DEF CareFor
<1>11. CareFor(planned, rest, e.next, new)
  BY <1>6, <1>7, <1>8, <1>9, <1>10 DEF CareFor
<1>12. ASSUME NEW row, WateredFor(row, topic, read) PROVE WateredFor(row, rest, new)
  <2>1. \A i \in 1 .. Len(rest) : IsLast(rest, i, types) => rest[i].at = row.watered
    BY <1>3, <1>12 DEF WateredFor
  <2>2. ~Has(rest, types) => new.watered = row.watered
    BY <1>2, <1>4, <1>7, <1>12 DEF WateredFor
  <2> QED
    BY <2>1, <2>2 DEF WateredFor
<1> QED
  BY <1>11, <1>12 DEF rest

\* A plant whose care the step does not touch.
LEMMA CareUntouched ==
  ASSUME CareInv, NEW q \in Plants, LastPlanned(q)' = LastPlanned(q), care'[q] = care[q],
         care_rows'[q] = care_rows[q], plant_rows'[q].next = plant_rows[q].next,
         overlapped \subseteq overlapped', q \notin overlapped' => plants'[q].watered = plants[q].watered
  PROVE  CaredFor(q)'
<1>1. CaredFor(q)
  BY DEF CareInv
<1>2. CareFor(LastPlanned(q)', care'[q], plant_rows'[q].next, care_rows'[q])
  BY <1>1 DEF CaredFor
<1>3. q \notin overlapped' => WateredFor(plants'[q], care'[q], care_rows'[q])
  BY <1>1 DEF CaredFor, WateredFor
<1> QED
  BY <1>2, <1>3 DEF CaredFor

\* A watering is planned or done: its event joins the plant's topic.
LEMMA CarePlanned ==
  ASSUME RequestInv, CareInv, NEW p \in Plants, NEW e \in CareEvent, NEW n \in Nat \ {0}, e.next = n,
         schedules' = [schedules EXCEPT ![p] = n], care' = [care EXCEPT ![p] = Append(@, e)],
         UNCHANGED <<plant_rows, care_rows, deleted>>, overlapped \subseteq overlapped',
         \A q \in Plants \ {p} : plants'[q] = plants[q],
         LastPlanned(p) = 0 <=> e.type = "CareScheduleCreated",
         p \notin overlapped' => \/ e.type = "WateringCompleted" /\ e.at = plants'[p].watered
                                 \/ e.type # "WateringCompleted" /\ plants'[p].watered = plants[p].watered
  PROVE  CareInv'
<1>1. /\ schedules \in [Plants -> Nat] /\ care \in [Plants -> Seq(CareEvent)] /\ care_rows[p] \in CareRow
  BY DEF RequestInv, TypeInv, WriteTypes, TopicTypes, ReadTypes
<1>2. /\ LastPlanned(p)' = n /\ care'[p] = Append(care[p], e)
      /\ \A q \in Plants \ {p} : LastPlanned(q)' = LastPlanned(q) /\ care'[q] = care[q]
  BY <1>1 DEF LastPlanned
<1>3. care[p] \in Seq(CareEvent) /\ CaredFor(p)
  BY <1>1 DEF CareInv
<1>4. CareFor(n, Append(care[p], e), plant_rows[p].next, care_rows[p])
  BY <1>1, <1>3, CareAppended DEF CaredFor
<1>5. ASSUME p \notin overlapped' PROVE WateredFor(plants'[p], Append(care[p], e), care_rows[p])
  <2>1. WateredFor(plants[p], care[p], care_rows[p])
    BY <1>3, <1>5 DEF CaredFor
  <2> QED
    BY <1>3, <1>5, <2>1, WateredAppended
<1>6. CaredFor(p)'
  BY <1>2, <1>4, <1>5 DEF CaredFor
<1>7. ASSUME NEW q \in Plants, q # p PROVE CaredFor(q)'
  BY <1>2, <1>7, CareUntouched
<1> QED
  BY <1>6, <1>7 DEF CareInv

\* A commit on a plant: only a watering changes when it was watered.
LEMMA CommitCareInv ==
  ASSUME RequestInv, CareInv, NEW r \in Requests, Commit(r), UNCHANGED <<readSide, inputs>>
  PROVE  CareInv'
<1>1. UNCHANGED <<plant_rows, care_rows, deleted>>
  BY DEF readSide, Commit
<1>2. /\ req[r].object \in Plants /\ plants' = [plants EXCEPT ![req[r].object] = plant_to_model(r)]
      /\ plants[req[r].object] \in PlantModel
      /\ IF req[r].stale THEN overlapped' = overlapped \cup {req[r].object} ELSE overlapped' = overlapped
  BY CommitEffect
<1> PICK p \in Plants : p = req[r].object
  BY <1>2
<1> PICK at : at = req[r].at
  OBVIOUS
<1>3. overlapped \subseteq overlapped' /\ (p \notin overlapped' => ~req[r].stale)
  BY <1>2
<1>4. \A q \in Plants \ {p} : plants'[q] = plants[q]
  BY <1>2 DEF RequestInv, TypeInv, WriteTypes
<1>5. ASSUME p \notin overlapped'
      PROVE  plants'[p] = req[r].row /\ Changed(req[r], plants[p]) /\ req[r].op \in OnPlant /\ plants[p] \in PlantModel
  BY <1>3, <1>5, FreshCommit
<1>6. CASE req[r].op # "water"
  <2>1. UNCHANGED <<schedules, care>>
    BY <1>6, CommitCare
  <2>2. p \notin overlapped' => plants'[p].watered = plants[p].watered
    BY <1>5, <1>6 DEF Changed, OnPlant, move, remove, PlantModel
  <2>3. ASSUME NEW q \in Plants PROVE CaredFor(q)'
    BY <1>1, <1>3, <1>4, <2>1, <2>2, CareUntouched DEF LastPlanned
  <2> QED
    BY <2>3 DEF CareInv
<1>7. CASE req[r].op = "water"
  <2>1. /\ at \in 1 .. MaxNow /\ schedules[p] # 0
        /\ schedules' = [schedules EXCEPT ![p] = at + Interval]
        /\ care' = [care EXCEPT ![p] = Append(@, WateringCompleted(at, at + Interval))]
    <3>1. req[r].at \in 1 .. MaxNow /\ schedules[req[r].object] # 0
      BY <1>7 DEF RequestInv, TypeInv, PhaseOK, PhaseRow, Commit
    <3> QED
      BY <1>7, <3>1 DEF Commit
  <2>2. at + Interval \in Nat \ {0}
    BY <2>1, GardenAssumption
  <2>3. PICK e \in CareEvent : /\ e = WateringCompleted(at, at + Interval) /\ e.type = "WateringCompleted"
                               /\ e.at = at /\ e.next = at + Interval
    BY <2>1, <2>2 DEF WateringCompleted, CareEvent
  <2>4. p \notin overlapped' => plants'[p].watered = at
    BY <1>5, <1>7, <2>1 DEF Changed, water, PlantModel
  <2>5. LastPlanned(p) # 0
    BY <2>1 DEF LastPlanned
  <2> QED
    BY <1>1, <1>3, <1>4, <2>1, <2>2, <2>3, <2>4, <2>5, CarePlanned
<1> QED
  BY <1>6, <1>7

\* A committed addition has never been watered.
LEMMA CommitCreateCare ==
  ASSUME RequestInv, CareInv, NEW r \in Requests, CommitCreate(r), UNCHANGED <<readSide, inputs>>
  PROVE  CareInv'
<1>1. UNCHANGED <<schedules, deleted, care, care_rows, plant_rows, overlapped>>
  BY DEF CommitCreate, history, readSide, tables
<1>2. \A q \in Plants : plants'[q].watered = plants[q].watered
  <2>1. CASE UNCHANGED plants
    BY <2>1
  <2>2. CASE ~UNCHANGED plants
    <3>1. ~(RequestStep(r) /\ RestSame)
      BY <2>2 DEF RestSame, tables
    <3>2. Adding(req[r]) /\ plants' = [plants EXCEPT ![req[r].object] = req[r].row]
      BY <2>2, <3>1, CommitCreateEffect
    <3>3. req[r].object \in Plants /\ plants[req[r].object].watered = 0 /\ req[r].row.watered = 0
      BY <3>2, AddedRow DEF NoRow
    <3> QED
      BY <3>2, <3>3 DEF RequestInv, TypeInv, WriteTypes
  <2> QED
    BY <2>1, <2>2
<1>3. ASSUME NEW q \in Plants PROVE CaredFor(q)'
  BY <1>1, <1>2, CareUntouched DEF LastPlanned
<1> QED
  BY <1>3 DEF CareInv

\* Creating a schedule, and moving its next watering.
LEMMA ScheduleCare ==
  ASSUME RequestInv, CareInv, NEW p \in Plants,
         \/ CreateCareSchedule(p) /\ UNCHANGED <<readSide, inputs>>
         \/ SkipWatering(p)
  PROVE  CareInv'
<1>1. schedules[p] \in Nat /\ now \in 1 .. MaxNow /\ Interval \in Nat
  BY GardenAssumption DEF RequestInv, TypeInv, WriteTypes
<1>2. CASE CreateCareSchedule(p) /\ UNCHANGED <<readSide, inputs>>
  <2>1. /\ UNCHANGED <<plants, overlapped, plant_rows, care_rows, deleted>> /\ LastPlanned(p) = 0
        /\ schedules' = [schedules EXCEPT ![p] = now + Interval]
        /\ care' = [care EXCEPT ![p] = Append(@, CareScheduleCreated(now + Interval))]
    BY <1>2 DEF CreateCareSchedule, LastPlanned, history, readSide
  <2>2. now + Interval \in Nat \ {0}
    BY <1>1
  <2> PICK n \in Nat \ {0} : n = now + Interval
    BY <2>2
  <2> DEFINE e == CareScheduleCreated(n)
  <2>3. e \in CareEvent /\ e.type = "CareScheduleCreated" /\ e.next = n
    <3>1. n \in Nat
      OBVIOUS
    <3>2. [type |-> "CareScheduleCreated", next |-> n] \in [type : {"CareScheduleCreated", "CareSkipped"}, next : Nat]
      BY <3>1
    <3> QED
      BY <3>2 DEF CareScheduleCreated, CareEvent
  <2> QED
    BY <2>1, <2>3, CarePlanned
<1>3. CASE SkipWatering(p)
  <2>1. /\ UNCHANGED <<plants, overlapped, plant_rows, care_rows, deleted>>
        /\ schedules[p] # 0 /\ LastPlanned(p) # 0
        /\ schedules' = [schedules EXCEPT ![p] = schedules[p] + Interval]
        /\ care' = [care EXCEPT ![p] = Append(@, [type |-> "CareSkipped", next |-> schedules[p] + Interval])]
    BY <1>3 DEF SkipWatering, LastPlanned, history, readSide
  <2>2. schedules[p] + Interval \in Nat \ {0}
    BY <1>1, <2>1
  <2> PICK n \in Nat \ {0} : n = schedules[p] + Interval
    BY <2>2
  <2> DEFINE e == [type |-> "CareSkipped", next |-> n]
  <2>3. e \in CareEvent /\ e.type = "CareSkipped" /\ e.next = n
    <3>1. n \in Nat
      OBVIOUS
    <3>2. [type |-> "CareSkipped", next |-> n] \in [type : {"CareScheduleCreated", "CareSkipped"}, next : Nat]
      BY <3>1
    <3> QED
      BY <3>2 DEF CareEvent
  <2> QED
    BY <2>1, <2>3, CarePlanned
<1> QED
  BY <1>2, <1>3

\* A deleted schedule leaves its events, and what they told last, behind.
LEMMA DeletedCare ==
  ASSUME RequestInv, CareInv, NEW p \in Plants, DeleteCareSchedule(p), UNCHANGED <<readSide, inputs>>
  PROVE  CareInv'
<1>1. /\ UNCHANGED <<plants, overlapped, plant_rows, care_rows, care>> /\ schedules[p] # 0
      /\ schedules' = [schedules EXCEPT ![p] = 0] /\ deleted' = [deleted EXCEPT ![p] = schedules[p]]
  BY DEF DeleteCareSchedule, topics, readSide
<1>2. schedules \in [Plants -> Nat] /\ deleted \in [Plants -> Nat]
  BY DEF RequestInv, TypeInv, WriteTypes, ScheduledOK
<1>3. \A q \in Plants : LastPlanned(q)' = LastPlanned(q)
  BY <1>1, <1>2 DEF LastPlanned
<1>4. ASSUME NEW q \in Plants PROVE CaredFor(q)'
  BY <1>1, <1>3, CareUntouched
<1> QED
  BY <1>4 DEF CareInv

\* The projection of care events.
LEMMA CareProjectionCare ==
  ASSUME RequestInv, CareInv, NEW p \in Plants, CareProjection(p)
  PROVE  CareInv'
<1>1. /\ UNCHANGED <<plants, overlapped, schedules, deleted>>
      /\ care[p] # <<>> /\ care[p][1] \in CareEvent /\ care[p][1].next \in 0 .. Horizon(MaxBackground)
      /\ care'[p] = Tail(care[p]) /\ \A q \in Plants \ {p} : care'[q] = care[q]
      /\ plant_rows' \in [Plants -> PlantRow] /\ care_rows' \in [Plants -> CareRow]
      /\ \A q \in Plants \ {p} : plant_rows'[q] = plant_rows[q] /\ care_rows'[q] = care_rows[q]
      /\ plant_rows'[p] = [Row(p) EXCEPT !.next = care[p][1].next]
      /\ care_rows'[p] = CareRowAfter(care_rows[p], care[p][1])
  BY CareProjected DEF CareProjection, tables, history, RequestInv
<1>2. care[p] \in Seq(CareEvent) /\ care_rows[p] \in CareRow /\ care_rows'[p] \in CareRow /\ CaredFor(p)
  BY <1>1 DEF RequestInv, TypeInv, TopicTypes, ReadTypes, CareInv
<1>3. plant_rows'[p].next = care[p][1].next
  BY <1>1, RowColumns DEF PlantRow
<1>4. care[p][1].next \in Nat
  BY <1>1
<1>5. /\ CareFor(LastPlanned(p), Tail(care[p]), care[p][1].next, care_rows'[p])
      /\ \A row : WateredFor(row, care[p], care_rows[p]) => WateredFor(row, Tail(care[p]), care_rows'[p])
  BY <1>1, <1>2, <1>4, CareDelivered DEF CaredFor
<1>6. CaredFor(p)'
  BY <1>1, <1>2, <1>3, <1>5 DEF CaredFor, LastPlanned
<1>7. ASSUME NEW q \in Plants, q # p PROVE CaredFor(q)'
  BY <1>1, <1>7, CareUntouched DEF LastPlanned
<1> QED
  BY <1>6, <1>7 DEF CareInv

\* Every step keeps schedules, topics and care rows together.
LEMMA CareInvStep == RequestInv /\ ReadInv /\ [Next]_vars => CareInv'
<1> SUFFICES ASSUME RequestInv, ReadInv, [Next]_vars PROVE CareInv'
  OBVIOUS
<1>1. GardenInv /\ CareInv /\ TypeInv
  BY DEF ReadInv, RequestInv
<1>2. ASSUME UNCHANGED <<plants, schedules, deleted, care, care_rows, overlapped>>,
             \A q \in Plants : plant_rows'[q].next = plant_rows[q].next
      PROVE  CareInv'
  BY <1>1, <1>2, CareUntouched DEF CareInv, LastPlanned
<1>3. ASSUME NEW p \in Plants, GardenProjection(p) PROVE CareInv'
  <2>1. UNCHANGED <<plants, schedules, deleted, care, care_rows, overlapped>>
    BY <1>3 DEF GardenProjection, tables, history
  <2>2. \A q \in Plants \ {p} : plant_rows'[q] = plant_rows[q]
    BY <1>1, <1>3, GardenProjected
  <2>3. plant_rows'[p].next = plant_rows[p].next
    BY <1>1, <1>3, GardenProjectedRow
  <2> QED
    BY <1>2, <2>1, <2>2, <2>3
<1>4. ASSUME NEW p \in Plants, JournalProjection(p) PROVE CareInv'
  <2>1. UNCHANGED <<plants, schedules, deleted, care, care_rows, overlapped>>
    BY <1>4 DEF JournalProjection, gardenVars, tables, history, topics
  <2>2. plant_rows'[p] = Row(p) /\ \A q \in Plants \ {p} : plant_rows'[q] = plant_rows[q]
    BY <1>1, <1>4, JournalProjected
  <2> QED
    BY <1>2, <2>1, <2>2, RowColumns
<1>5. ASSUME SpeciesProjection PROVE CareInv'
  <2>1. UNCHANGED <<plants, schedules, deleted, care, care_rows, overlapped>>
    BY <1>5 DEF SpeciesProjection, gardenVars, tables, history, topics
  <2>2. \A q \in Plants : plant_rows'[q] =
          IF plant_rows[q].location \in Locations
          THEN [plant_rows[q] EXCEPT !.species_name = species_row'] ELSE plant_rows[q]
    BY <1>1, <1>5, SpeciesProjected
  <2>3. \A q \in Plants : plant_rows[q] \in PlantRow
    BY <1>1 DEF TypeInv, ReadTypes
  <2>4. \A q \in Plants : plant_rows'[q].next = plant_rows[q].next
    BY <2>2, <2>3 DEF PlantRow
  <2> QED
    BY <1>2, <2>1, <2>4
<1>6. ASSUME \/ \E r \in Requests : RequestStep(r) /\ RestSame
             \/ (Tick /\ UNCHANGED <<readSide, inputs>>) \/ SpeciesUpdated \/ UNCHANGED vars
             \/ \E p \in Plants : JournalEntryAdded(p) \/ PlantOnboarded(p)
      PROVE  UNCHANGED <<plants, schedules, deleted, care, care_rows, overlapped, plant_rows>>
  BY <1>6 DEF RestSame, Tick, SpeciesUpdated, vars, JournalEntryAdded, PlantOnboarded, gardenVars, tables, history, topics,
     readSide
<1> QED
  BY <1>1, <1>2, <1>3, <1>4, <1>5, <1>6, Steps, CommitCareInv, CommitCreateCare, ScheduleCare,
     DeletedCare, CareProjectionCare

-----------------------------------------------------------------------------
(* The read side *)

\* At first there is at most one plant, announced and not yet projected.
LEMMA ReadInvInit == ReadInit => ReadInv
<1> SUFFICES ASSUME ReadInit PROVE ReadInv
  OBVIOUS
<1>1. PICK loc \in Locations, first \in SUBSET {FirstPlant} :
        /\ plants = [p \in Plants |-> IF p \in first THEN add(Home, loc) ELSE NoRow]
        /\ garden = [p \in Plants |-> IF p \in first THEN <<PlantAdded(add(Home, loc))>> ELSE <<>>]
  BY DEF ReadInit, Init
<1>2. /\ \A p \in Plants : plant_rows[p] = NoPlantRow /\ care_rows[p] = NoCareRow
      /\ \A p \in Plants : LastPlanned(p) = 0 /\ care[p] = <<>>
      /\ onboarded = {} /\ species_row = 0 /\ filled = [p \in Plants |-> 0]
  BY DEF ReadInit, Init, LastPlanned
<1>3. /\ NoPlantRow.location = None /\ ~NoPlantRow.removed /\ ~NoPlantRow.onboarded
      /\ NoPlantRow.species_name = 0 /\ NoPlantRow.next = 0
      /\ NoCareRow.next = 0 /\ NoCareRow.watered = 0
      /\ NoRow.location = None /\ NoRow.watered = 0 /\ ~NoRow.removed /\ None \notin Locations
  BY Words DEF NoPlantRow, NoCareRow, NoRow
<1>4. ASSUME NEW p \in Plants PROVE GardenFor(p)
  <2>1. CASE p \in first
    <3> DEFINE row == add(Home, loc)
               e == PlantAdded(row)
    <3>1. row \in PlantModel /\ ~row.removed /\ e \in GardenEvent
      BY GardenAssumption DEF add, PlantModel, PlantAdded, GardenEvent
    <3>2. plants[p] = row /\ garden[p] = <<e>>
      BY <1>1, <2>1
    <3> HIDE DEF row, e
    <3>3. <<e>> = Append(<<>>, e) /\ e = PlantAdded(row)
      BY DEF e
    <3> QED
      BY <1>2, <3>1, <3>2, <3>3, PlantIsAdded DEF GardenFor
  <2>2. CASE p \notin first
    <3>1. plants[p] = NoRow /\ garden[p] = <<>>
      BY <1>1, <2>2
    <3> QED
      BY <1>2, <1>3, <3>1, NothingLeft DEF GardenFor, NamedFor, OnboardedFor, WrittenFor
  <2> QED
    BY <2>1, <2>2
<1>5. ASSUME NEW p \in Plants PROVE CaredFor(p)
  <2>1. plants[p].watered = 0
    BY <1>1, <1>3 DEF add
  <2>2. CareFor(0, <<>>, 0, NoCareRow)
    BY <1>3 DEF CareFor
  <2>3. WateredFor(plants[p], <<>>, NoCareRow)
    BY <1>3, <2>1, NothingLeft DEF WateredFor
  <2> QED
    BY <1>2, <1>3, <2>2, <2>3 DEF CaredFor
<1>6. JournalInv
  <2>1. /\ journal = [p \in Plants |-> <<>>] /\ recorded = [p \in Plants |-> 0]
        /\ entry_rows = [p \in Plants |-> {}]
    BY DEF ReadInit
  <2>2. <<>> \in Seq(Nat) /\ Len(<<>>) = 0 /\ 0 \in Nat /\ {} = 1 .. (0 - 0) /\ {} \in SUBSET Nat
    OBVIOUS
  <2>3. JournalFor(0, <<>>, {})
    BY <2>2 DEF JournalFor
  <2> QED
    BY <2>1, <2>2, <2>3 DEF JournalInv
<1>7. NamesInv
  BY <1>2, <1>3 DEF NamesInv, NamedRow
<1> QED
  BY <1>4, <1>5, <1>6, <1>7 DEF ReadInv, GardenInv, CareInv

\* A plant that is projected reads as it was written.
LEMMA ProjectedReads ==
  ASSUME RequestInv, ReadInv, NEW p \in Plants, Projected(p)
  PROVE  /\ plant_rows[p].next = LastPlanned(p) /\ care_rows[p].next = LastPlanned(p)
         /\ care_rows[p] # NoCareRow <=> LastPlanned(p) # 0
         /\ entry_rows[p] = 1 .. recorded[p]
         /\ plant_rows[p].onboarded <=> p \in onboarded
         /\ ~Exists(p) => plant_rows[p].location \notin Locations
         /\ Exists(p) => plant_rows[p].location \in Locations /\ HasRow(p)
         /\ p \notin overlapped => /\ plant_rows[p].location = plants[p].location
                                   /\ plant_rows[p].removed <=> plants[p].removed
                                   /\ care_rows[p].watered = plants[p].watered
<1>1. garden[p] = <<>> /\ care[p] = <<>> /\ journal[p] = <<>>
  BY DEF Projected
<1>2. GardenFor(p) /\ CaredFor(p) /\ JournalFor(recorded[p], <<>>, entry_rows[p])
  BY <1>1 DEF ReadInv, GardenInv, CareInv, JournalInv
<1>3. /\ plant_rows[p].next = LastPlanned(p) /\ care_rows[p].next = LastPlanned(p)
      /\ care_rows[p] # NoCareRow <=> LastPlanned(p) # 0
  BY <1>1, <1>2 DEF CaredFor, CareFor
<1>4. entry_rows[p] = 1 .. recorded[p]
  <2>1. entry_rows[p] = 1 .. (recorded[p] - 0) /\ recorded[p] \in Nat
    BY <1>2 DEF JournalFor
  <2> QED
    BY <2>1
<1>5. plant_rows[p].onboarded <=> p \in onboarded
  BY <1>1, <1>2, NothingLeft DEF GardenFor, OnboardedFor
<1>6. NoPlantRow.location \notin Locations
  BY Words DEF NoPlantRow
<1>7. ~Exists(p) => plant_rows[p].location \notin Locations
  BY <1>2, <1>6 DEF GardenFor, NamedFor, Exists
<1>8. Exists(p) => plant_rows[p].location \in Locations /\ HasRow(p)
  BY <1>1, <1>2, <1>6 DEF GardenFor, NamedFor, Exists, HasRow
<1>9. ASSUME p \notin overlapped
      PROVE  /\ plant_rows[p].location = plants[p].location
             /\ plant_rows[p].removed <=> plants[p].removed
             /\ care_rows[p].watered = plants[p].watered
  <2>1. WrittenFor(plants[p], <<>>, plant_rows[p]) /\ WateredFor(plants[p], <<>>, care_rows[p])
    BY <1>1, <1>2, <1>9 DEF GardenFor, CaredFor
  <2>2. /\ ~Has(<<>>, Located) /\ ~Has(<<>>, {"PlantRemoved"}) /\ ~Has(<<>>, {"WateringCompleted"})
    BY NothingLeft
  <2> QED
    BY <2>1, <2>2 DEF WrittenFor, WateredFor
<1> QED
  BY <1>3, <1>4, <1>5, <1>7, <1>8, <1>9

\* Columns that hold truth values are equal when they agree.
LEMMA FlagsEqual ==
  ASSUME RequestInv, NEW p \in Plants
  PROVE  /\ plant_rows[p].removed \in BOOLEAN /\ plant_rows[p].onboarded \in BOOLEAN
         /\ plants[p].removed \in BOOLEAN
<1>1. plant_rows[p] \in PlantRow /\ plants[p] \in PlantModel \cup {NoRow}
  BY DEF RequestInv, TypeInv, ReadTypes, WriteTypes
<1>2. plant_rows[p].removed \in BOOLEAN /\ plant_rows[p].onboarded \in BOOLEAN
  BY <1>1 DEF PlantRow
<1>3. CASE plants[p] = NoRow
  <2>1. NoRow.removed = FALSE
    BY DEF NoRow
  <2> QED
    BY <1>2, <1>3, <2>1
<1>4. CASE plants[p] \in PlantModel
  BY <1>2, <1>4 DEF PlantModel
<1> QED
  BY <1>1, <1>3, <1>4

\* What the invariant says of one plant is what its row reads.
LEMMA PlantsAgree == RequestInv /\ ReadInv => ReadSideAgrees
<1> SUFFICES ASSUME RequestInv, ReadInv, NEW p \in Plants \ overlapped, Exists(p), Projected(p)
             PROVE  /\ plant_rows[p].location = plants[p].location
                    /\ plant_rows[p].removed = plants[p].removed
                    /\ plant_rows[p].onboarded = (p \in onboarded)
                    /\ plant_rows[p].next = LastPlanned(p) /\ care_rows[p].next = LastPlanned(p)
                    /\ care_rows[p].watered = plants[p].watered
                    /\ GetJournalTimeline(p) = 1 .. recorded[p]
  BY DEF ReadSideAgrees
<1>1. /\ plant_rows[p].location = plants[p].location
      /\ plant_rows[p].next = LastPlanned(p) /\ care_rows[p].next = LastPlanned(p)
      /\ care_rows[p].watered = plants[p].watered
      /\ entry_rows[p] = 1 .. recorded[p] /\ HasRow(p)
  BY ProjectedReads
<1>2. plant_rows[p].removed <=> plants[p].removed
  BY ProjectedReads
<1>3. plant_rows[p].onboarded <=> p \in onboarded
  BY ProjectedReads
<1>4. plant_rows[p].removed = plants[p].removed
  BY <1>2, FlagsEqual
<1>5. plant_rows[p].onboarded = (p \in onboarded)
  BY <1>3, FlagsEqual
<1>6. GetJournalTimeline(p) = 1 .. recorded[p]
  BY <1>1 DEF GetJournalTimeline, plant_exists, list_journal_entries
<1> QED
  BY <1>1, <1>4, <1>5, <1>6

\* A moment is within its day.
LEMMA WithinItsDay == \A t \in Nat : EndOfDay(t) \in Nat /\ t <= EndOfDay(t)
  BY DEF EndOfDay

\* The lists are those of the write side for every plant that is projected.
LEMMA ListsAreWritten == RequestInv /\ ReadInv => ListsAgree
<1> SUFFICES ASSUME RequestInv, ReadInv, NEW p \in Plants \ overlapped, Projected(p)
             PROVE  /\ \A removed \in BOOLEAN :
                         /\ p \in DOMAIN ListPlants(removed) <=> p \in list_by_household(removed)
                         /\ p \in DOMAIN ListPlants(removed) => ListPlants(removed)[p] = GetPlant(p)
                    /\ deleted[p] = 0 =>
                         \A until \in 1 .. MaxNow + Interval : p \in list_due_care(until) <=> p \in list_due(until)
                    /\ p \in list_due(now) => p \in GetTodayCare
                    /\ GetJournalTimeline(p) \in {NotFound, 1 .. recorded[p]}
  BY DEF ListsAgree
<1>1. /\ plant_rows[p].location \in Locations <=> Exists(p)
      /\ plant_rows[p].removed <=> plants[p].removed
      /\ plant_rows[p].location = plants[p].location /\ care_rows[p].watered = plants[p].watered
      /\ care_rows[p].next = LastPlanned(p) /\ (care_rows[p] # NoCareRow <=> LastPlanned(p) # 0)
      /\ entry_rows[p] = 1 .. recorded[p]
  BY ProjectedReads
<1>2. plant_rows[p].removed = plants[p].removed
  BY <1>1, FlagsEqual
<1>3. _plant_row(p) = GetPlant(p)
  BY <1>1, <1>2 DEF _plant_row, GetPlant
<1>4. ASSUME NEW removed \in BOOLEAN
      PROVE  p \in list_plants(removed) <=> p \in list_by_household(removed)
  BY <1>1 DEF list_plants, list_by_household
<1>5. ASSUME NEW removed \in BOOLEAN
      PROVE  /\ p \in DOMAIN ListPlants(removed) <=> p \in list_by_household(removed)
             /\ p \in DOMAIN ListPlants(removed) => ListPlants(removed)[p] = GetPlant(p)
  BY <1>3, <1>4 DEF ListPlants
<1>6. p \in list_plants(FALSE) <=> p \in list_by_household(FALSE)
  BY <1>4
<1>7. ASSUME NEW until, deleted[p] = 0 PROVE p \in list_due_care(until) <=> p \in list_due(until)
  <2>1. LastPlanned(p) = schedules[p]
    BY <1>7 DEF LastPlanned
  <2> QED
    BY <1>1, <1>6, <2>1 DEF list_due_care, list_due, list_by_household
<1>8. ASSUME p \in list_due(now) PROVE p \in GetTodayCare
  <2>1. now \in Nat /\ schedules[p] \in Nat
    BY GardenAssumption DEF RequestInv, TypeInv, WriteTypes
  <2>2. EndOfDay(now) \in Nat /\ now <= EndOfDay(now)
    BY <2>1, WithinItsDay
  <2>3. p \in list_by_household(FALSE) /\ schedules[p] # 0 /\ schedules[p] <= now
    BY <1>8 DEF list_due
  <2>4. care_rows[p] # NoCareRow /\ care_rows[p].next = schedules[p]
    BY <1>1, <2>3 DEF LastPlanned
  <2>5. schedules[p] <= EndOfDay(now)
    BY <2>1, <2>2, <2>3
  <2> QED
    BY <1>6, <2>3, <2>4, <2>5 DEF GetTodayCare, list_due_care
<1>9. GetJournalTimeline(p) \in {NotFound, 1 .. recorded[p]}
  BY <1>1 DEF GetJournalTimeline, list_journal_entries
<1> QED
  BY <1>5, <1>7, <1>8, <1>9

\* The names in the rows are the catalogue's, and the catalogue's list is its own.
LEMMA NamesAreWritten == RequestInv /\ ReadInv => NamesAgree
<1> SUFFICES ASSUME RequestInv, ReadInv PROVE NamesAgree
  OBVIOUS
<1>1. \A p \in Plants : plant_rows[p].species_name =
        IF OfTheSpecies(p) /\ species_row > filled[p] THEN species_row ELSE 0
  BY DEF ReadInv, NamesInv, NamedRow, OfTheSpecies
<1>2. catalog = <<>> => list_species = version
  <2>1. species_row = version - Len(catalog) /\ version \in Nat
    BY DEF RequestInv, TypeInv, CatalogOK
  <2> QED
    BY <2>1 DEF list_species
<1> QED
  BY <1>1, <1>2 DEF NamesAgree

\* In whatever order its topics are consumed, a plant whose events have all been
\* projected reads as it was written and is listed as the write side's queries would
\* list it, but for a plant that some command wrote from an old row and for the due
\* list of a plant whose schedule was deleted; and a row has its species' name
\* exactly when a change of the species was projected after the row was filled. The
\* projections of read_analytics upsert, and what is left in a topic makes up the
\* difference.
THEOREM ReadsWhatWasWritten == Spec => []ReadsAsWritten
<1>1. RequestInv /\ ReadInv /\ [Next]_vars => ReadInv'
  BY GardenInvStep, CareInvStep, JournalInvStep, NamesInvStep DEF ReadInv
<1>2. RequestInv => TypeOK
  BY DEF RequestInv, TypeInv, WriteTypes, ReadTypes, TypeOK, Exists, Request
<1>3. RequestInv /\ ReadInv => ReadsAsWritten
  BY <1>2, PlantsAgree, ListsAreWritten, NamesAreWritten DEF ReadsAsWritten
<1> QED
  BY <1>1, <1>3, ReadInvInit, Inductive, PTL DEF Spec
=============================================================================
