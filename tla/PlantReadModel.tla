--------------------------- MODULE PlantReadModel ---------------------------
(***************************************************************************)
(* read_analytics, the tables the lists and the admin read: the Garden     *)
(* write side composed with the projections that follow it.  A plant's row *)
(* is assembled from four topics that are consumed independently, each in  *)
(* its own order; a delivery is atomic with its claim (ConsumerDelivery    *)
(* models the ledger).  The Catalog's and the Journal's own writes are     *)
(* modelled in Species and Journal, and here only produce their events;    *)
(* every plant is of the one species.                                      *)
(***************************************************************************)
EXTENDS Garden

CONSTANT MaxBackground  \* bound: what the other contexts publish

ASSUME ReadModelAssumption == MaxBackground \in Nat

VARIABLES
    catalog,        \* catalog.events not yet projected: species versions
    journal,        \* per plant: journal.events not yet projected: entry numbers
    version,        \* the species' version in the write store
    recorded,       \* per plant: the entries in the write store
    onboarded,      \* the plants whose onboarding saga has finished
    background,     \* what is left of MaxBackground
    plant_rows, care_rows, species_row, entry_rows,
    filled          \* history: per plant, species_row when PlantAdded was projected

readSide == <<plant_rows, care_rows, species_row, entry_rows, filled>>
inputs == <<catalog, journal, version, recorded, onboarded, background>>
vars == <<gardenVars, readSide, inputs>>

Null == "null"

\* A row that was created for another projection's column has no garden columns.
Placeholder == [location |-> Null, removed |-> FALSE, onboarded |-> FALSE, species_name |-> 0, next |-> 0]
NoPlantRow == [location |-> None, removed |-> FALSE, onboarded |-> FALSE, species_name |-> 0, next |-> 0]
PlantRow == [location : Locations \cup {Null, None}, removed : BOOLEAN, onboarded : BOOLEAN,
             species_name : 0 .. MaxBackground,
             next : 0 .. MaxNow + (1 + MaxBackground) * Interval]

NoCareRow == [next |-> 0, watered |-> 0, version |-> 0]
CareRow == [next : 0 .. MaxNow + (1 + MaxBackground) * Interval, watered : 0 .. MaxNow, version : 0 .. 1]

ReadInit ==
    /\ Init
    /\ catalog = <<>> /\ version = 0
    /\ journal = [p \in Plants |-> <<>>] /\ recorded = [p \in Plants |-> 0]
    /\ onboarded = {} /\ background = MaxBackground
    /\ plant_rows = [p \in Plants |-> NoPlantRow]
    /\ care_rows = [p \in Plants |-> NoCareRow]
    /\ species_row = 0
    /\ entry_rows = [p \in Plants |-> {}]
    /\ filled = [p \in Plants |-> 0]

-----------------------------------------------------------------------------
(* What the other contexts publish *)

Publish == background > 0 /\ background' = background - 1

SpeciesUpdated ==
    /\ Publish
    /\ version' = version + 1
    /\ catalog' = Append(catalog, version + 1)
    /\ UNCHANGED <<gardenVars, readSide, journal, recorded, onboarded>>

JournalEntryAdded(p) ==
    /\ Publish /\ Exists(p)
    /\ recorded' = [recorded EXCEPT ![p] = @ + 1]
    /\ journal' = [journal EXCEPT ![p] = Append(@, recorded[p] + 1)]
    /\ UNCHANGED <<gardenVars, readSide, catalog, version, onboarded>>

\* The end of the onboarding, after the schedule was created.
PlantOnboarded(p) ==
    /\ Publish /\ schedules[p] # 0 /\ p \notin onboarded
    /\ onboarded' = onboarded \cup {p}
    /\ garden' = [garden EXCEPT ![p] = Append(@, [type |-> "PlantOnboarded"])]
    /\ UNCHANGED <<tables, req, now, care, history, readSide, catalog, journal, version, recorded>>

\* Under the schedule's lock, and so is a watering that is rescheduled. The missed
\* care tick moves the schedule without it, which MissedCare models.
SkipWatering(p) ==
    /\ Publish /\ schedules[p] # 0 /\ ~ScheduleLocked(p)
    /\ schedules' = [schedules EXCEPT ![p] = @ + Interval]
    /\ care' = [care EXCEPT ![p] = Append(@, [type |-> "CareSkipped", next |-> schedules[p] + Interval])]
    /\ UNCHANGED <<households, plants, idempotency, req, now, garden, history, readSide,
                   catalog, journal, version, recorded, onboarded>>

-----------------------------------------------------------------------------
(* The projections *)

HasRow(p) == plant_rows[p] # NoPlantRow
Row(p) == IF HasRow(p) THEN plant_rows[p] ELSE Placeholder

on_plant_added(p, e) == [Row(p) EXCEPT !.location = e.location, !.removed = FALSE]
on_plant_moved(p, e) == IF HasRow(p) THEN [plant_rows[p] EXCEPT !.location = e.location] ELSE plant_rows[p]
on_plant_removed(p) == IF HasRow(p) THEN [plant_rows[p] EXCEPT !.removed = TRUE] ELSE plant_rows[p]
on_plant_onboarded(p) == IF HasRow(p) THEN [plant_rows[p] EXCEPT !.onboarded = TRUE] ELSE plant_rows[p]

GardenProjection(p) ==
    /\ garden[p] # <<>>
    /\ LET e == Head(garden[p])
       IN plant_rows' = [plant_rows EXCEPT ![p] =
            CASE e.type = "PlantAdded" -> on_plant_added(p, e)
              [] e.type = "PlantMoved" -> on_plant_moved(p, e)
              [] e.type = "PlantRemoved" -> on_plant_removed(p)
              [] e.type = "PlantOnboarded" -> on_plant_onboarded(p)]
    /\ garden' = [garden EXCEPT ![p] = Tail(@)]
    /\ filled' = [filled EXCEPT ![p] = IF Head(garden[p]).type = "PlantAdded" THEN species_row ELSE @]
    /\ UNCHANGED <<tables, req, now, care, history, care_rows, species_row, entry_rows, inputs>>

\* Mutant: the plant's copy is written only to a row that is there.
_set_next_watering_update(p, next) ==
    plant_rows' = IF HasRow(p) THEN [plant_rows EXCEPT ![p].next = next] ELSE plant_rows

\* The plant's copy is written even to a row the garden has not named yet.
_set_next_watering(p, next) ==
    plant_rows' = [plant_rows EXCEPT ![p] = [Row(p) EXCEPT !.next = next]]

\* Everything but the schedule's creation only updates a row that is there.
CareRowAfter(row, e) ==
    IF row = NoCareRow
    THEN IF e.type = "CareScheduleCreated" THEN [next |-> e.next, watered |-> 0, version |-> 1] ELSE row
    ELSE IF e.type = "WateringCompleted" THEN [row EXCEPT !.next = e.next, !.watered = e.at]
    ELSE [row EXCEPT !.next = e.next]

CareProjection(p) ==
    /\ care[p] # <<>>
    /\ _set_next_watering(p, Head(care[p]).next)
    /\ care_rows' = [care_rows EXCEPT ![p] = CareRowAfter(@, Head(care[p]))]
    /\ care' = [care EXCEPT ![p] = Tail(@)]
    /\ UNCHANGED <<tables, req, now, garden, history, species_row, entry_rows, filled, inputs>>

\* The foreign key of an entry needs the plant's row.
JournalProjection(p) ==
    /\ journal[p] # <<>>
    /\ plant_rows' = [plant_rows EXCEPT ![p] = Row(p)]
    /\ entry_rows' = [entry_rows EXCEPT ![p] = @ \cup {Head(journal[p])}]
    /\ journal' = [journal EXCEPT ![p] = Tail(@)]
    /\ UNCHANGED <<gardenVars, care_rows, species_row, filled, catalog, version, recorded, onboarded, background>>

\* A placeholder has no species_id.
OfTheSpecies(p) == plant_rows[p].location \in Locations

_upsert(v) ==
    plant_rows' = [p \in Plants |->
        IF OfTheSpecies(p) THEN [plant_rows[p] EXCEPT !.species_name = v] ELSE plant_rows[p]]

SpeciesProjection ==
    /\ catalog # <<>>
    /\ _upsert(Head(catalog))
    /\ species_row' = Head(catalog)
    /\ catalog' = Tail(catalog)
    /\ UNCHANGED <<gardenVars, care_rows, entry_rows, filled, journal, version, recorded, onboarded, background>>

-----------------------------------------------------------------------------
Next ==
    \/ GardenNext /\ UNCHANGED <<readSide, inputs>>
    \/ SpeciesUpdated \/ SpeciesProjection
    \/ \E p \in Plants :
        \/ JournalEntryAdded(p) \/ PlantOnboarded(p) \/ SkipWatering(p)
        \/ GardenProjection(p) \/ CareProjection(p) \/ JournalProjection(p)

Spec == ReadInit /\ [][Next]_vars

\* The projections' consumers keep polling their topics.
FairSpec ==
    /\ Spec /\ WF_vars(SpeciesProjection)
    /\ \A p \in Plants : WF_vars(GardenProjection(p)) /\ WF_vars(CareProjection(p)) /\ WF_vars(JournalProjection(p))

-----------------------------------------------------------------------------
(* Queries *)

list_plants(include_removed) ==
    {p \in Plants : plant_rows[p].location \in Locations /\ (include_removed \/ ~plant_rows[p].removed)}

list_due_care(until) ==
    {p \in Plants : care_rows[p] # NoCareRow /\ p \in list_plants(FALSE) /\ care_rows[p].next <= until}

list_species == species_row

\* A listed plant's columns, the last watering joined in from the care table.
_plant_row(p) == [location |-> plant_rows[p].location, removed |-> plant_rows[p].removed,
                  watered |-> care_rows[p].watered]

ListPlants(include_removed) == [p \in list_plants(include_removed) |-> _plant_row(p)]

\* "Today" ends with the UTC day, here of two ticks.
EndOfDay(t) == 2 * (t \div 2) + 1
GetTodayCare == list_due_care(EndOfDay(now))

\* The timeline of a plant the read side knows.
plant_exists(p) == HasRow(p)
list_journal_entries(p) == entry_rows[p]
NotFound == {0}
GetJournalTimeline(p) == IF plant_exists(p) THEN list_journal_entries(p) ELSE NotFound

\* The write side's own answers.
GetPlant(p) == [location |-> plants[p].location, removed |-> plants[p].removed, watered |-> plants[p].watered]
list_by_household(include_removed) == {p \in Plants : Exists(p) /\ (include_removed \/ ~plants[p].removed)}
list_due(until) == {p \in list_by_household(FALSE) : schedules[p] # 0 /\ schedules[p] <= until}

-----------------------------------------------------------------------------
(* Properties *)

\* Tables, requests and read rows keep their types.
TypeOK ==
    /\ \A p \in Plants : Exists(p) => plants[p] \in PlantModel
    /\ plant_rows \in [Plants -> PlantRow] /\ care_rows \in [Plants -> CareRow]
    /\ \A r \in Requests : req[r].dirty \subseteq Columns

Projected(p) == garden[p] = <<>> /\ care[p] = <<>> /\ journal[p] = <<>>

\* The next watering the care topic told of last.
LastPlanned(p) == IF schedules[p] # 0 THEN schedules[p] ELSE deleted[p]

\* A plant whose events have all been projected reads as it was written, in
\* whatever order its topics were consumed: location, removal, onboarding, last
\* watering, entries, and the next watering, which outlives a deleted schedule. The
\* exception is a plant some writer of which wrote from an old row.
ReadSideAgrees ==
    \A p \in Plants \ overlapped : (Exists(p) /\ Projected(p)) =>
        /\ plant_rows[p].location = plants[p].location
        /\ plant_rows[p].removed = plants[p].removed
        /\ plant_rows[p].onboarded = (p \in onboarded)
        /\ plant_rows[p].next = LastPlanned(p) /\ care_rows[p].next = LastPlanned(p)
        /\ care_rows[p].watered = plants[p].watered
        /\ GetJournalTimeline(p) = 1 .. recorded[p]

\* The lists answer about such a plant as the write side's queries would: it is
\* listed once the garden has named it, "removed plants are excluded, exactly as the
\* write-side query excludes them", it reads as GetPlant answers, it is due when its
\* schedule says so, but for a deleted one, and what is due is on today's list.
ListsAgree ==
    \A p \in Plants \ overlapped : Projected(p) =>
        /\ \A removed \in BOOLEAN :
             /\ p \in DOMAIN ListPlants(removed) <=> p \in list_by_household(removed)
             /\ p \in DOMAIN ListPlants(removed) => ListPlants(removed)[p] = GetPlant(p)
        /\ deleted[p] = 0 =>
             \A until \in 1 .. MaxNow + Interval : p \in list_due_care(until) <=> p \in list_due(until)
        /\ p \in list_due(now) => p \in GetTodayCare
        /\ GetJournalTimeline(p) \in {NotFound, 1 .. recorded[p]}

\* A plant carries the catalogue's name of its species, unless the garden filled the
\* row after the species' last change was projected: then it carries none, and
\* neither does a row the garden has not filled.
NamesAgree ==
    /\ \A p \in Plants : plant_rows[p].species_name =
         IF OfTheSpecies(p) /\ species_row > filled[p] THEN species_row ELSE 0
    /\ catalog = <<>> => list_species = version

\* The read side answers as the write side would once it has consumed its topics,
\* plant by plant, in its lists and in the names it copies.
ReadsAsWritten == TypeOK /\ ReadSideAgrees /\ ListsAgree /\ NamesAgree

\* "The window is bounded by the relay's poll interval plus the projection's
\* consumer lag": once its events are consumed, a plant's next watering is the
\* schedule's. The schedule that a compensation deletes leaves its rows behind for
\* ever, since no event tells of it and a rebuild consumes the same events.
StaleOnlyInTheWindow ==
    \A p \in Plants \ overlapped : Projected(p) =>
        plant_rows[p].next = schedules[p] /\ care_rows[p].next = schedules[p]

\* "The write side still guarantees every value is eventually filled in": a plant of
\* a known species gets its species' name. Only an event of the species writes it,
\* and a species that is in sync has none.
NamesFilledIn ==
    \A p \in Plants : (OfTheSpecies(p) /\ species_row # 0) ~> plant_rows[p].species_name # 0
=============================================================================
