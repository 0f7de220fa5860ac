------------------------------- MODULE Journal -------------------------------
(***************************************************************************)
(* The care journal: one event stream per plant, its checkpoints, the      *)
(* tabular mirror, and the plant references its consumer group keeps.      *)
(*                                                                         *)
(* Consumers turn WateringCompleted into entries, commands add entries of  *)
(* any kind and queries replay a stream.  All of them load the newest      *)
(* checkpoint and then the events after it, in two statements, while       *)
(* others append.  The only lock is the unique (stream_id, version) key:   *)
(* an append flushes at once, waits for another open transaction that has  *)
(* inserted the same key and fails when that one committed.                *)
(*                                                                         *)
(* The group reads garden.events and care.events, both keyed by plant, so  *)
(* a plant has one ordered partition of each, and they are not ordered     *)
(* against each other.  Members may crash, two members may work on one     *)
(* delivery (a rebalance), and the group may be rebuilt: its offsets are   *)
(* reset and its ledger is lost.                                           *)
(***************************************************************************)
EXTENDS Integers, Sequences, FiniteSets, FiniteSetsExt

CONSTANTS
    Members,         \* processes of the journal-entries consumer group
    Clients,         \* processes that run commands and queries
    Plants,
    Established,     \* those added, and known to this context, at the start
    ClientIds,       \* entry ids callers of AddJournalEntryCommand supply
    CareMoments,     \* ... and the care moments they give
    SNAPSHOT_EVERY,
    MaxAttempts,     \* settings.consumer_max_attempts
    MaxWaterings,    \* bound: waterings
    MaxChanges,      \* bound: plants moved or removed
    MaxCommands,     \* bound: journal commands
    MaxFaults        \* bound: members that die and groups that are rebuilt

ASSUME ConstantsAssumption ==
    /\ SNAPSHOT_EVERY \in Nat
    /\ MaxAttempts \in Nat \ {0}
    /\ MaxWaterings \in Nat /\ MaxChanges \in Nat /\ MaxCommands \in Nat
    /\ MaxFaults \in Nat
    /\ CareMoments \subseteq 1 .. (MaxWaterings + 1)
    /\ Members \cap Clients = {} /\ Established \subseteq Plants /\ Plants # {}

VARIABLES
    garden,       \* the garden events of each plant, in the order of its partition
    waterings,    \* how many WateringCompleted of each plant there are
    gardenOffset, careOffset,  \* the group's committed offsets
    ledger,       \* the group's processed_events rows, for care.events
    refs,         \* write_journal.plant_refs: the garden event a row was taken from
    event_store, journal_snapshots, journal_entries,  \* the three tables
    outbox,       \* the entries announced as JournalEntryAdded
    dropped, aside,  \* history: waterings of unknown plants; moved to the DLQ
    pc, task, aggregate, attempt,   \* each process
    changes, waters, commands, faults  \* what is left of the bounds

topics == <<garden, waterings>>
offsets == <<gardenOffset, careOffset>>
tables == <<event_store, journal_snapshots, journal_entries, outbox>>
decided == <<dropped, aside>>
process == <<pc, task, aggregate, attempt>>
inputs == <<changes, waters>>
bounds == <<inputs, commands, faults>>
vars == <<topics, offsets, ledger, refs, tables, decided, process, bounds>>

Processes == Members \cup Clients
Moments == 1 .. (MaxWaterings + 1)
NoRef == 0

\* The entry id of one watering is derived from the plant and the moment.
watering_entry_id(p, t) == <<p, t>>

EntryIds == ClientIds \cup {watering_entry_id(p, t) : p \in Plants, t \in Moments}

JournalEntry == [id : EntryIds, at : Moments]
EventStoreModel == [stream : Plants, version : Nat, id : EntryIds, at : Moments]
JournalSnapshotModel == [stream : Plants, version : Nat, entries : SUBSET JournalEntry]
JournalEntryModel == [id : EntryIds, plant : Plants, at : Moments]
JournalState == [version : Nat, entries : SUBSET JournalEntry]
Task == [kind : {"none", "watering", "command", "query"},
         plant : Plants, id : EntryIds, at : Moments]

Empty == [version |-> 0, entries |-> {}]
Nothing == [kind |-> "none", plant |-> CHOOSE p \in Plants : TRUE,
            id |-> CHOOSE e \in EntryIds : TRUE, at |-> 1]

Init ==
    /\ garden = [p \in Plants |-> IF p \in Established THEN <<"added">> ELSE << >>]
    /\ waterings = [p \in Plants |-> 0]
    /\ gardenOffset = [p \in Plants |-> Len(garden[p])]
    /\ careOffset = [p \in Plants |-> 0]
    /\ ledger = {}
    /\ refs = [p \in Plants |-> Len(garden[p])]
    /\ event_store = {} /\ journal_snapshots = {} /\ journal_entries = {} /\ outbox = {}
    /\ dropped = {} /\ aside = {}
    /\ pc = [x \in Processes |-> "idle"]
    /\ task = [x \in Processes |-> Nothing]
    /\ aggregate = [x \in Processes |-> Empty]
    /\ attempt = [x \in Processes |-> 0]
    /\ changes = MaxChanges /\ waters = MaxWaterings
    /\ commands = MaxCommands /\ faults = MaxFaults

Goto(x, l) == pc' = [pc EXCEPT ![x] = l]

\* The process is done with its task; nothing of it outlives the request scope.
Done(x) ==
    /\ Goto(x, "idle")
    /\ task' = [task EXCEPT ![x] = Nothing]
    /\ aggregate' = [aggregate EXCEPT ![x] = Empty]
    /\ attempt' = [attempt EXCEPT ![x] = 0]

-----------------------------------------------------------------------------
(* The contexts that publish what this one consumes. *)

InGarden(p) == garden[p] # << >> /\ garden[p][Len(garden[p])] # "removed"

\* A removed plant keeps its row, marked removed.
HasRow(p) == garden[p] # << >>

AddPlant(p) ==
    /\ garden[p] = << >>
    /\ garden' = [garden EXCEPT ![p] = <<"added">>]
    /\ UNCHANGED <<waterings, offsets, ledger, refs, tables, decided, process, bounds>>

MovePlant(p) ==
    /\ InGarden(p) /\ changes > 0
    /\ changes' = changes - 1
    /\ garden' = [garden EXCEPT ![p] = Append(@, "moved")]
    /\ UNCHANGED <<waterings, offsets, ledger, refs, tables, decided, process, waters, commands, faults>>

RemovePlant(p) ==
    /\ InGarden(p) /\ changes > 0
    /\ changes' = changes - 1
    /\ garden' = [garden EXCEPT ![p] = Append(@, "removed")]
    /\ UNCHANGED <<waterings, offsets, ledger, refs, tables, decided, process, waters, commands, faults>>

\* Each watering of a plant completes at its own moment.
WateringCompleted(p) ==
    /\ InGarden(p) /\ waters > 0
    /\ waters' = waters - 1
    /\ waterings' = [waterings EXCEPT ![p] = @ + 1]
    /\ UNCHANGED <<garden, offsets, ledger, refs, tables, decided, process, changes, commands, faults>>

-----------------------------------------------------------------------------
(***************************************************************************)
(* maintain_plant_reference.  A row is the position of the garden event it *)
(* was last taken from: that event's moment is its seen_at, and its        *)
(* location is the one the event names.                                    *)
(***************************************************************************)

\* Mutant: the upsert without its out-of-order guard.
upsertAlways(p, n) == n

upsert(p, n) == IF refs[p] = NoRef \/ n > refs[p] THEN n ELSE refs[p]

\* A move of a plant this context has not seen names no household: no row.
Maintained(p, n) ==
    CASE garden[p][n] = "removed" -> NoRef
      [] garden[p][n] = "added" -> upsert(p, n)
      [] garden[p][n] = "moved" -> IF refs[p] = NoRef THEN NoRef ELSE upsert(p, n)

\* One transaction; the offset is acknowledged after it, unless the member dies
\* in between.  A repetition writes the same row, so the claim is left out.
HandleGarden(m, p) ==
    LET n == gardenOffset[p] + 1 IN
    /\ pc[m] = "idle" /\ n <= Len(garden[p])
    /\ refs' = [refs EXCEPT ![p] = Maintained(p, n)]
    /\ \/ gardenOffset' = [gardenOffset EXCEPT ![p] = n] /\ UNCHANGED faults
       \/ faults > 0 /\ faults' = faults - 1 /\ UNCHANGED gardenOffset
    /\ UNCHANGED <<topics, careOffset, ledger, tables, decided, process,
                   inputs, commands>>

-----------------------------------------------------------------------------
(* The consumer: one delivery of WateringCompleted. *)

Delivery(m) == watering_entry_id(task[m].plant, task[m].at)

Deliver(m, p) ==
    /\ pc[m] = "idle" /\ careOffset[p] < waterings[p]
    /\ task' = [task EXCEPT ![m] =
         [kind |-> "watering", plant |-> p, at |-> careOffset[p] + 1,
          id |-> watering_entry_id(p, careOffset[p] + 1)]]
    /\ attempt' = [attempt EXCEPT ![m] = 1]
    /\ Goto(m, "claim")
    /\ UNCHANGED <<topics, offsets, ledger, refs, tables, decided, aggregate, bounds>>

\* The insert of the claim waits for another open transaction's insert of it.
ClaimFree(m) ==
    \A n \in Members \ {m} :
      pc[n] \in {"open", "tail", "replayed", "appended"} => Delivery(n) # Delivery(m)

\* The delivery is acknowledged, where a member that lost the partition changes
\* nothing; or the member dies first, after its commit.
Acknowledge(m) ==
    \/ /\ careOffset' = [careOffset EXCEPT ![task[m].plant] =
                           IF @ + 1 = task[m].at THEN task[m].at ELSE @]
       /\ UNCHANGED faults
    \/ faults > 0 /\ faults' = faults - 1 /\ UNCHANGED careOffset

SkipClaimed(m) ==
    /\ pc[m] = "claim" /\ ClaimFree(m) /\ Delivery(m) \in ledger
    /\ Acknowledge(m) /\ Done(m)
    /\ UNCHANGED <<topics, gardenOffset, ledger, refs, tables, decided, inputs, commands>>

DropUnknown(m) ==
    /\ pc[m] = "claim" /\ ClaimFree(m) /\ Delivery(m) \notin ledger
    /\ refs[task[m].plant] = NoRef
    /\ ledger' = ledger \cup {Delivery(m)}
    /\ dropped' = dropped \cup {Delivery(m)}
    /\ Acknowledge(m) /\ Done(m)
    /\ UNCHANGED <<topics, gardenOffset, refs, tables, aside, inputs, commands>>

HandleWatering(m) ==
    /\ pc[m] = "claim" /\ ClaimFree(m) /\ Delivery(m) \notin ledger
    /\ refs[task[m].plant] # NoRef
    /\ Goto(m, "open")
    /\ UNCHANGED <<topics, offsets, ledger, refs, tables, decided, task, aggregate, attempt,
                   bounds>>

-----------------------------------------------------------------------------
(* Commands and queries; a plant the garden never had is a 404, a removed one
   is not: plants.get returns its row. *)

AddJournalEntry(c, p, e, t) ==
    /\ pc[c] = "idle" /\ commands > 0 /\ HasRow(p)
    /\ commands' = commands - 1
    /\ task' = [task EXCEPT ![c] = [kind |-> "command", plant |-> p, id |-> e, at |-> t]]
    /\ Goto(c, "open")
    /\ UNCHANGED <<topics, offsets, ledger, refs, tables, decided, aggregate, attempt,
                   inputs, faults>>

GetJournalAtDate(c, p, t) ==
    /\ pc[c] = "idle" /\ commands > 0 /\ HasRow(p)
    /\ commands' = commands - 1
    /\ task' = [task EXCEPT ![c] = [Nothing EXCEPT !.kind = "query", !.plant = p, !.at = t]]
    /\ Goto(c, "open")
    /\ UNCHANGED <<topics, offsets, ledger, refs, tables, decided, aggregate, attempt,
                   inputs, faults>>

-----------------------------------------------------------------------------
(***************************************************************************)
(* load_journal_aggregate: the newest checkpoint, then the events after    *)
(* it.  The events are read in version order and must continue the         *)
(* checkpoint without a gap and without an entry it already holds.         *)
(***************************************************************************)
Stream(p) == {r \in event_store : r.stream = p}
Entry(r) == [id |-> r.id, at |-> r.at]

state_from_snapshot_model(s) == [version |-> s.version, entries |-> s.entries]

latest(p) ==
    LET rows == {s \in journal_snapshots : s.stream = p}
        newest == CHOOSE s \in rows : \A o \in rows : o.version <= s.version
    IN IF rows = {} THEN Empty
       ELSE state_from_snapshot_model(newest)

load_stream(p, after) == {r \in Stream(p) : r.version > after}

LoadSnapshot(x) ==
    /\ pc[x] = "open"
    /\ aggregate' = [aggregate EXCEPT ![x] = latest(task[x].plant)]
    /\ Goto(x, "tail")
    /\ UNCHANGED <<topics, offsets, ledger, refs, tables, decided, task, attempt,
                   bounds>>

Replayable(s, rows) ==
    /\ {r.version : r \in rows} = (s.version + 1) .. (s.version + Cardinality(rows))
    /\ Cardinality({r.id : r \in rows} \cup {e.id : e \in s.entries})
         = Cardinality(rows) + Cardinality(s.entries)

Replayed(s, rows) ==
    [version |-> s.version + Cardinality(rows),
     entries |-> s.entries \cup {Entry(r) : r \in rows}]

LoadStream(x) ==
    LET rows == load_stream(task[x].plant, aggregate[x].version) IN
    /\ pc[x] = "tail"
    /\ IF Replayable(aggregate[x], rows)
       THEN /\ aggregate' = [aggregate EXCEPT ![x] = Replayed(aggregate[x], rows)]
            /\ Goto(x, "replayed")
       ELSE Goto(x, "corrupt") /\ UNCHANGED aggregate
    /\ UNCHANGED <<topics, offsets, ledger, refs, tables, decided, task, attempt,
                   bounds>>

\* The entries for care that happened at or before t, and the whole version.
state_at(s, t) == [version |-> s.version, entries |-> {e \in s.entries : e.at <= t}]

Answer(c) ==
    /\ pc[c] = "replayed" /\ task[c].kind = "query"
    /\ aggregate' = [aggregate EXCEPT ![c] = state_at(@, task[c].at)]
    /\ Goto(c, "answered")
    /\ UNCHANGED <<topics, offsets, ledger, refs, tables, decided, task, attempt, bounds>>

AnswerSent(c) ==
    /\ pc[c] = "answered" /\ Done(c)
    /\ UNCHANGED <<topics, offsets, ledger, refs, tables, decided, bounds>>

-----------------------------------------------------------------------------
(* record_journal_entry, and the two transactions it runs in. *)

Recording(x) == pc[x] = "replayed" /\ task[x].kind \in {"watering", "command"}
Holds(s, id) == \E e \in s.entries : e.id = id

\* What a consumer's commit adds to any transaction it makes: claim and offset.
ConsumerCommit(x) ==
    IF task[x].kind = "watering"
    THEN ledger' = ledger \cup {Delivery(x)} /\ Acknowledge(x)
    ELSE UNCHANGED <<ledger, careOffset, faults>>

AlreadyRecorded(x) ==
    /\ Recording(x) /\ Holds(aggregate[x], task[x].id)
    /\ ConsumerCommit(x) /\ Done(x)
    /\ UNCHANGED <<topics, gardenOffset, refs, tables, decided, inputs, commands>>

NextVersion(x) == aggregate[x].version + 1

\* Another open transaction has inserted the same (stream_id, version).
KeyHeld(x) ==
    \E y \in Processes \ {x} :
      pc[y] = "appended" /\ task[y].plant = task[x].plant /\ NextVersion(y) = NextVersion(x)

KeyTaken(x) == \E r \in Stream(task[x].plant) : r.version = NextVersion(x)

\* The row is inserted and flushed: the key is held until the transaction ends.
AppendRow(x) ==
    /\ Recording(x) /\ ~Holds(aggregate[x], task[x].id)
    /\ ~KeyHeld(x) /\ ~KeyTaken(x)
    /\ Goto(x, "appended")
    /\ UNCHANGED <<topics, offsets, ledger, refs, tables, decided, task, aggregate, attempt,
                   bounds>>

MoveAsideDue(m) == attempt[m] >= MaxAttempts

\* Mutant: a lost race is logged and the delivery acknowledged.
ConflictSwallowed(x) ==
    /\ IF task[x].kind = "watering" THEN Acknowledge(x) ELSE UNCHANGED <<careOffset, faults>>
    /\ Done(x) /\ UNCHANGED <<ledger, aside>>

\* Rolled back.  A command answers 409; a delivery is tried again, and moved
\* aside (copied and claimed) when its budget is spent.
Conflict(x) ==
    IF task[x].kind # "watering"
    THEN Done(x) /\ UNCHANGED <<careOffset, ledger, aside, faults>>
    ELSE IF MoveAsideDue(x)
    THEN /\ ledger' = ledger \cup {Delivery(x)}
         /\ aside' = aside \cup {Delivery(x)}
         /\ Acknowledge(x) /\ Done(x)
    ELSE /\ attempt' = [attempt EXCEPT ![x] = @ + 1]
         /\ aggregate' = [aggregate EXCEPT ![x] = Empty]
         /\ Goto(x, "claim") /\ UNCHANGED <<careOffset, ledger, aside, task, faults>>

\* Mutant: an append that merges instead of inserting meets no conflict.
AppendConflictMerged(x) ==
    /\ Recording(x) /\ ~Holds(aggregate[x], task[x].id)
    /\ ~KeyHeld(x) /\ KeyTaken(x)
    /\ Goto(x, "appended")
    /\ UNCHANGED <<topics, offsets, ledger, refs, tables, decided, task, aggregate, attempt,
                   bounds>>

\* EventStoreConcurrencyError.
AppendConflict(x) ==
    /\ Recording(x) /\ ~Holds(aggregate[x], task[x].id)
    /\ ~KeyHeld(x) /\ KeyTaken(x)
    /\ Conflict(x)
    /\ UNCHANGED <<topics, gardenOffset, refs, tables, dropped, inputs, commands>>

Added(x) == Replayed(aggregate[x], {[version |-> NextVersion(x), id |-> task[x].id,
                                     at |-> task[x].at]})

should_snapshot(s) == SNAPSHOT_EVERY > 0 /\ s.version > 0 /\ s.version % SNAPSHOT_EVERY = 0

\* Mutant: the checkpoint is taken of the state before the entry was added.
snapshot_model_before_append(x) ==
    [stream |-> task[x].plant, version |-> Added(x).version,
     entries |-> aggregate[x].entries]

snapshot_model_from_state(x) ==
    [stream |-> task[x].plant, version |-> Added(x).version, entries |-> Added(x).entries]

event_store_model_from_event(x) ==
    [stream |-> task[x].plant, version |-> NextVersion(x), id |-> task[x].id,
     at |-> task[x].at]

journal_entry_to_model(x) ==
    [id |-> task[x].id, plant |-> task[x].plant, at |-> task[x].at]

\* The mirror's primary key is the entry id alone.
MirrorTaken(x) == \E r \in journal_entries : r.id = task[x].id

\* Store row, outbox row, mirror row and checkpoint, committed together with the claim.
CommitEntry(x) ==
    /\ pc[x] = "appended" /\ ~MirrorTaken(x)
    /\ event_store' = event_store \cup {event_store_model_from_event(x)}
    /\ journal_entries' = journal_entries \cup {journal_entry_to_model(x)}
    /\ outbox' = outbox \cup {task[x].id}
    /\ journal_snapshots' = journal_snapshots \cup
         (IF should_snapshot(Added(x)) THEN {snapshot_model_from_state(x)} ELSE {})
    /\ ConsumerCommit(x) /\ Done(x)
    /\ UNCHANGED <<topics, gardenOffset, refs, decided, inputs, commands>>

\* The commit's flush meets the mirror's key: ConcurrentWriteError.
MirrorConflict(x) ==
    /\ pc[x] = "appended" /\ MirrorTaken(x)
    /\ Conflict(x)
    /\ UNCHANGED <<topics, gardenOffset, refs, tables, dropped, inputs, commands>>

-----------------------------------------------------------------------------
\* A member dies: its transaction is rolled back, its delivery offered again.
Crash(m) ==
    /\ pc[m] # "idle" /\ faults > 0
    /\ faults' = faults - 1
    /\ Done(m)
    /\ UNCHANGED <<topics, offsets, ledger, refs, tables, decided, inputs, commands>>

\* The group is stopped, its offsets are reset and its ledger is gone.
Rebuild ==
    /\ faults > 0 /\ \A m \in Members : pc[m] = "idle"
    /\ faults' = faults - 1
    /\ gardenOffset' = [p \in Plants |-> 0]
    /\ careOffset' = [p \in Plants |-> 0]
    /\ ledger' = {}
    /\ UNCHANGED <<topics, refs, tables, decided, process, inputs, commands>>

Environment(p) == AddPlant(p) \/ MovePlant(p) \/ RemovePlant(p) \/ WateringCompleted(p)

Transaction(x) ==
    \/ LoadSnapshot(x) \/ LoadStream(x)
    \/ AlreadyRecorded(x) \/ AppendRow(x) \/ AppendConflict(x)
    \/ CommitEntry(x) \/ MirrorConflict(x)

MemberStep(m) ==
    \/ \E p \in Plants : HandleGarden(m, p) \/ Deliver(m, p)
    \/ SkipClaimed(m) \/ DropUnknown(m) \/ HandleWatering(m)
    \/ Transaction(m)

ClientStep(c) == Transaction(c) \/ Answer(c) \/ AnswerSent(c)

Request(c) ==
    \E p \in Plants :
      \/ \E t \in Moments : GetJournalAtDate(c, p, t)
      \/ \E e \in ClientIds, t \in CareMoments : AddJournalEntry(c, p, e, t)

Next ==
    \/ \E p \in Plants : Environment(p)
    \/ \E m \in Members : MemberStep(m) \/ Crash(m)
    \/ \E c \in Clients : ClientStep(c) \/ Request(c)
    \/ Rebuild

Spec == Init /\ [][Next]_vars

(***************************************************************************)
(* Fairness.  Members keep working and a client's request runs to its end; *)
(* nothing obliges anybody to add plants, water them or ask.               *)
(***************************************************************************)
FairSpec ==
    /\ Spec
    /\ \A m \in Members : WF_vars(MemberStep(m))
    /\ \A c \in Clients : WF_vars(ClientStep(c))

-----------------------------------------------------------------------------
(* Every table and every local of a process holds what the code can put there. *)
TypeOK ==
    /\ garden \in [Plants -> Seq({"added", "moved", "removed"})]
    /\ waterings \in [Plants -> 0 .. MaxWaterings]
    /\ \A p \in Plants : /\ gardenOffset[p] \in 0 .. Len(garden[p])
                         /\ careOffset[p] \in 0 .. waterings[p]
                         /\ refs[p] \in 0 .. Len(garden[p])
    /\ event_store \subseteq EventStoreModel
    /\ journal_snapshots \subseteq JournalSnapshotModel
    /\ journal_entries \subseteq JournalEntryModel
    /\ ledger \cup dropped \cup aside \cup outbox \subseteq EntryIds
    /\ task \in [Processes -> Task]
    /\ aggregate \in [Processes -> JournalState]
    /\ attempt \in [Processes -> 0 .. MaxAttempts]
    /\ pc \in [Processes -> {"idle", "claim", "open", "tail", "replayed", "appended",
                         "answered", "corrupt"}]

(* A replay never meets a gap, a duplicate or an overlap with its checkpoint,
   although the checkpoint and the tail are read by two statements while others
   append (load_journal_aggregate raises EventStoreCorruptionError on one). *)
ReplaySucceeds == \A x \in Processes : pc[x] # "corrupt"

(* What GetJournalAtDate answers is what happened: it is the entries of the
   stream up to the answer's version whose care moment is not after the date,
   whatever checkpoint the replay started from. *)
AnswersAreHistory ==
    \A c \in Clients :
      pc[c] = "answered" =>
        aggregate[c].entries =
          {Entry(r) : r \in {s \in Stream(task[c].plant) :
                        s.version <= aggregate[c].version /\ s.at <= task[c].at}}

\* The committed stream of a plant, in version order.
Log(p) ==
    LET stream == Stream(p)
    IN [v \in 1 .. Cardinality({r.version : r \in stream}) |->
          (CHOOSE r \in stream : r.version = v).id]

JournalSpec == INSTANCE JournalLog WITH journal <- [p \in Plants |-> Log(p)]

(* The committed rows implement an append-only journal in which an entry appears
   once and in one plant's stream only, although writers race, deliveries are
   repeated and the group is rebuilt without its ledger. *)
ImplementsJournal == JournalSpec!Spec

(* The tabular mirror and the announcements are the facts of the event store, no
   more and no fewer. *)
MirrorAgrees ==
    /\ journal_entries = {[id |-> r.id, plant |-> r.stream, at |-> r.at] : r \in event_store}
    /\ outbox = {r.id : r \in event_store}

(* A replayed garden topic does not walk a reference back to an older event while
   the row stands (the guard of SqlAlchemyPlantReferenceRepository.upsert). *)
RefsNeverWalkBack ==
    [][\A p \in Plants : refs[p] # NoRef /\ refs'[p] # NoRef => refs'[p] >= refs[p]]_vars

(* In the end the group's rows are what the garden says: no row for a plant that
   was removed or never added, and the newest event's for every other. *)
RefsCatchUp ==
    <>[](\A p \in Plants : refs[p] = IF InGarden(p) THEN Len(garden[p]) ELSE NoRef)

Waterings == UNION {{watering_entry_id(p, t) : t \in 1 .. waterings[p]} : p \in Plants}
Settled == {r.id : r \in event_store} \cup dropped \cup aside

(* Every watering is journalled, or dropped because its plant was unknown, or
   moved aside: again and again there is a moment when none is left. *)
EveryWateringSettles == []<>(Waterings \subseteq Settled)

\* Whatever a client reads of a journal, from its events, through a snapshot or
\* from the mirrored rows, is a state the stream went through.
ReadsAreHistory == TypeOK /\ ReplaySucceeds /\ AnswersAreHistory /\ MirrorAgrees

\* The local copy of the garden's plants only moves forward, and arrives.
RefsFollowGarden == RefsNeverWalkBack /\ RefsCatchUp
=============================================================================
