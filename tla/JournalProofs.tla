---------------------------- MODULE JournalProofs ----------------------------
(***************************************************************************)
(* Proofs about Journal for every number of members, clients, plants and   *)
(* entries, every checkpoint interval and bound: what a reader sees is a   *)
(* state the stream went through, and the committed streams implement      *)
(* JournalLog.                                                             *)
(***************************************************************************)
EXTENDS Journal, FiniteSetTheorems, TLAPS

Loaded == {"tail", "replayed", "appended"}

\* The offsets and references are per plant, and the waterings that happened
\* and those still allowed are bounded together.
ShapeOK ==
    /\ gardenOffset \in [Plants -> Nat]
    /\ careOffset \in [Plants -> Nat]
    /\ refs \in [Plants -> Nat]
    /\ waters \in Nat
    /\ \A p \in Plants : waterings[p] + waters <= MaxWaterings

\* A process that claims works on a watering, and one that was completed.
TaskOK ==
    \A x \in Processes :
        /\ pc[x] = "claim" => task[x].kind = "watering"
        /\ task[x].kind = "watering" => task[x].at <= waterings[task[x].plant]

Versions(p) == {r.version : r \in Stream(p)}

\* The versions of a stream are numbered without a gap.
StreamOK == \A p \in Plants : \E n \in Nat : Versions(p) = 1 .. n

\* A version of a stream, and an entry id of any stream, has one row.
KeysOK ==
    \A r, q \in event_store :
        (r.stream = q.stream /\ r.version = q.version) \/ r.id = q.id => r = q

Upto(p, v) == {r \in Stream(p) : r.version <= v}

\* A version the stream has gone through.
Reached(p, v) == v = 0 \/ v \in Versions(p)

\* A state is a version the stream went through and its entries up to there.
IsHistory(p, s) ==
    Reached(p, s.version) /\ s.entries = {Entry(r) : r \in Upto(p, s.version)}

\* Every checkpoint is such a state, and a stream with one has a newest.
CheckpointsOK ==
    /\ \A s \in journal_snapshots : IsHistory(s.stream, s)
    /\ \A p \in Plants :
         LET rows == {s \in journal_snapshots : s.stream = p}
         IN  rows # {} => \E s \in rows : \A o \in rows : o.version <= s.version

\* So is what a process has loaded; and what it answers is cut out of one.
LoadedOK ==
    \A x \in Processes :
        /\ pc[x] \in Loaded => IsHistory(task[x].plant, aggregate[x])
        /\ pc[x] = "answered" =>
             /\ Reached(task[x].plant, aggregate[x].version)
             /\ aggregate[x].entries =
                  {Entry(r) : r \in {s \in Stream(task[x].plant) :
                        s.version <= aggregate[x].version /\ s.at <= task[x].at}}

\* The key an open transaction has inserted is free, and no other open
\* transaction has inserted one of the same stream.
FreshOK ==
    \A x \in Processes : pc[x] = "appended" =>
        /\ ~KeyTaken(x)
        /\ \A y \in Processes : pc[y] = "appended" /\ task[y].plant = task[x].plant => y = x

GardenOK ==
    /\ garden \in [Plants -> Seq({"added", "moved", "removed"})]
    /\ waterings \in [Plants -> 0 .. MaxWaterings]
    /\ \A p \in Plants : /\ gardenOffset[p] \in 0 .. Len(garden[p])
                         /\ careOffset[p] \in 0 .. waterings[p]
                         /\ refs[p] \in 0 .. Len(garden[p])
    /\ ShapeOK

TablesOK ==
    /\ event_store \subseteq EventStoreModel
    /\ journal_snapshots \subseteq JournalSnapshotModel
    /\ journal_entries \subseteq JournalEntryModel
    /\ ledger \subseteq EntryIds /\ dropped \subseteq EntryIds
    /\ aside \subseteq EntryIds /\ outbox \subseteq EntryIds

ProcessOK ==
    /\ task \in [Processes -> Task]
    /\ aggregate \in [Processes -> JournalState]
    /\ attempt \in [Processes -> 0 .. MaxAttempts]
    /\ pc \in [Processes -> {"idle", "claim", "open", "tail", "replayed", "appended",
                            "answered", "corrupt"}]
    /\ TaskOK

\* TypeOK, strengthened, in the three parts that different actions disturb.
TypeInv == GardenOK /\ TablesOK /\ ProcessOK

HistoryInv ==
    /\ StreamOK /\ KeysOK /\ MirrorAgrees
    /\ CheckpointsOK /\ LoadedOK /\ FreshOK /\ ReplaySucceeds

IInv == TypeInv /\ HistoryInv
-----------------------------------------------------------------------------
(* Counting the rows of a stream *)

\* Two sets related one to one have the same number of elements.
LEMMA SameCount ==
  ASSUME NEW S, NEW T, IsFiniteSet(S), NEW f \in [S -> T],
         \A a, b \in S : f[a] = f[b] => a = b,
         \A t \in T : \E a \in S : f[a] = t
  PROVE  IsFiniteSet(T) /\ Cardinality(T) = Cardinality(S)
<1>1. f \in Surjection(S, T)
  BY DEF Surjection
<1>2. f \in Injection(S, T)
  BY DEF Injection, IsInjective
<1> QED
  BY <1>1, <1>2, FS_Surjection

\* Rows with the versions lo .. hi, each of them once, are hi - lo + 1 rows.
LEMMA RowCount ==
  ASSUME NEW rows, NEW lo \in Nat, NEW hi \in Nat, lo <= hi + 1,
         {r.version : r \in rows} = lo .. hi,
         \A r, q \in rows : r.version = q.version => r = q
  PROVE  IsFiniteSet(rows) /\ Cardinality(rows) = (hi - lo) + 1
<1> DEFINE f == [r \in rows |-> r.version]
<1>1. f \in [rows -> lo .. hi]
  OBVIOUS
<1>2. f \in Injection(rows, lo .. hi)
  BY <1>1 DEF Injection, IsInjective
<1>3. f \in Surjection(rows, lo .. hi)
  <2>1. \A k \in lo .. hi : \E r \in rows : r.version = k
    OBVIOUS
  <2> QED
    BY <1>1, <2>1 DEF Surjection
<1>4. IsFiniteSet(lo .. hi) /\ Cardinality(lo .. hi) = (hi - lo) + 1
  <2>1. lo \in Int /\ hi \in Int
    OBVIOUS
  <2>2. /\ IsFiniteSet(lo .. hi)
        /\ Cardinality(lo .. hi) = IF lo > hi THEN 0 ELSE hi - lo + 1
    BY <2>1, FS_Interval
  <2> QED
    BY <2>2
<1> HIDE DEF f
<1>5. /\ IsFiniteSet(rows)
      /\ Cardinality(rows) = Cardinality(lo .. hi) <=> f \in Surjection(rows, lo .. hi)
  BY <1>2, <1>4, FS_Injection
<1> QED
  BY <1>3, <1>4, <1>5

\* What the rows of a stream and their types say.
LEMMA StreamRows ==
  ASSUME TablesOK, NEW p \in Plants, NEW r \in Stream(p)
  PROVE  /\ r \in event_store /\ r.stream = p
         /\ r.version \in Nat /\ r.id \in EntryIds /\ r.at \in Moments
         /\ Entry(r) \in JournalEntry
         /\ Entry(r).id = r.id /\ Entry(r).at = r.at
  BY DEF TablesOK, Stream, EventStoreModel, Entry, JournalEntry

\* Within a stream of n rows, those up to v are v rows and those after it n - v.
LEMMA StreamCount ==
  ASSUME TablesOK, KeysOK, NEW p \in Plants, NEW n \in Nat, Versions(p) = 1 .. n,
         NEW v \in 0 .. n
  PROVE  /\ IsFiniteSet(Upto(p, v)) /\ Cardinality(Upto(p, v)) = v
         /\ IsFiniteSet(load_stream(p, v)) /\ Cardinality(load_stream(p, v)) = n - v
         /\ {r.version : r \in load_stream(p, v)} = (v + 1) .. n
<1>1. \A r \in Stream(p) : r.version \in 1 .. n
  BY DEF Versions
<1>2. \A k \in 1 .. n : \E r \in Stream(p) : r.version = k
  BY DEF Versions
<1>3. \A r, q \in Stream(p) : r.version = q.version => r = q
  BY DEF KeysOK, Stream
<1>4. {r.version : r \in Upto(p, v)} = 1 .. v
  <2>1. \A r \in Upto(p, v) : r.version \in 1 .. v
    BY <1>1 DEF Upto
  <2>2. \A k \in 1 .. v : \E r \in Upto(p, v) : r.version = k
    BY <1>2 DEF Upto
  <2> QED
    BY <2>1, <2>2
<1>5. {r.version : r \in load_stream(p, v)} = (v + 1) .. n
  <2>1. \A r \in load_stream(p, v) : r.version \in (v + 1) .. n
    BY <1>1 DEF load_stream
  <2>2. \A k \in (v + 1) .. n : \E r \in load_stream(p, v) : r.version = k
    BY <1>2 DEF load_stream
  <2> QED
    BY <2>1, <2>2
<1>6. IsFiniteSet(Upto(p, v)) /\ Cardinality(Upto(p, v)) = (v - 1) + 1
  <2>1. \A r, q \in Upto(p, v) : r.version = q.version => r = q
    BY <1>3 DEF Upto
  <2>2. 1 \in Nat /\ v \in Nat /\ 1 <= v + 1
    OBVIOUS
  <2> QED
    BY <1>4, <2>1, <2>2, RowCount
<1>7. /\ IsFiniteSet(load_stream(p, v))
      /\ Cardinality(load_stream(p, v)) = (n - (v + 1)) + 1
  <2>1. \A r, q \in load_stream(p, v) : r.version = q.version => r = q
    BY <1>3 DEF load_stream
  <2>2. v + 1 \in Nat /\ n \in Nat /\ v + 1 <= n + 1
    OBVIOUS
  <2> QED
    BY <1>5, <2>1, <2>2, RowCount
<1> QED
  BY <1>5, <1>6, <1>7

\* The versions the stream has gone through are 0 .. n.
LEMMA ReachedRange ==
  ASSUME NEW p \in Plants, NEW n \in Nat, Versions(p) = 1 .. n, NEW v, Reached(p, v)
  PROVE  v \in 0 .. n
  BY DEF Reached

\* A replay from a state of the stream succeeds and gives its present state.
LEMMA ReplayIsHistory ==
  ASSUME TablesOK, KeysOK, NEW p \in Plants, NEW n \in Nat, Versions(p) = 1 .. n,
         NEW s \in JournalState, IsHistory(p, s)
  PROVE  LET rows == load_stream(p, s.version)
         IN  /\ Replayable(s, rows)
             /\ Replayed(s, rows) \in JournalState
             /\ IsHistory(p, Replayed(s, rows))
<1> DEFINE v == s.version
           rows == load_stream(p, v)
           whole == Replayed(s, rows)
<1>1. v \in 0 .. n
  BY ReachedRange DEF IsHistory
<1>2. /\ IsFiniteSet(Upto(p, v)) /\ Cardinality(Upto(p, v)) = v
      /\ IsFiniteSet(rows) /\ Cardinality(rows) = n - v
      /\ {r.version : r \in rows} = (v + 1) .. n
  BY <1>1, StreamCount
<1>3. s.entries = {Entry(r) : r \in Upto(p, v)}
  BY DEF IsHistory
<1>4. \A r \in Stream(p) : Entry(r).id = r.id /\ Entry(r) \in JournalEntry /\ r.version \in Nat
  BY StreamRows
<1>5. \A r, q \in Stream(p) : r.id = q.id => r = q
  BY DEF KeysOK, Stream
<1>6. Stream(p) = Upto(p, v) \cup rows
  BY <1>4, <1>1 DEF Upto, load_stream
<1>7. IsFiniteSet(Stream(p)) /\ Cardinality(Stream(p)) = n
  <2>1. Upto(p, n) = Stream(p)
    <3>1. \A r \in Stream(p) : r.version \in 1 .. n
      BY DEF Versions
    <3> QED
      BY <3>1 DEF Upto
  <2>2. n \in 0 .. n
    OBVIOUS
  <2> QED
    BY <2>1, <2>2, StreamCount
<1>8. IsFiniteSet(s.entries) /\ Cardinality(s.entries) = v
  <2> DEFINE f == [r \in Upto(p, v) |-> Entry(r)]
  <2>1. f \in [Upto(p, v) -> s.entries]
    BY <1>3
  <2>2. \A a, b \in Upto(p, v) : f[a] = f[b] => a = b
    BY <1>4, <1>5, <1>6
  <2>3. \A t \in s.entries : \E a \in Upto(p, v) : f[a] = t
    BY <1>3
  <2> HIDE DEF f
  <2> QED
    BY <1>2, <2>1, <2>2, <2>3, SameCount
<1>9. Cardinality({r.id : r \in rows} \cup {e.id : e \in s.entries}) = n
  <2> DEFINE ids == {r.id : r \in Stream(p)}
             g == [r \in Stream(p) |-> r.id]
  <2>1. {r.id : r \in rows} \cup {e.id : e \in s.entries} = ids
    <3>1. {e.id : e \in s.entries} = {r.id : r \in Upto(p, v)}
      BY <1>3, <1>4, <1>6
    <3> QED
      BY <3>1, <1>6
  <2>2. g \in [Stream(p) -> ids]
    OBVIOUS
  <2>3. \A a, b \in Stream(p) : g[a] = g[b] => a = b
    BY <1>5
  <2>4. \A t \in ids : \E a \in Stream(p) : g[a] = t
    OBVIOUS
  <2> HIDE DEF g, ids
  <2>5. Cardinality(ids) = Cardinality(Stream(p))
    BY <1>7, <2>2, <2>3, <2>4, SameCount
  <2> QED
    BY <2>1, <2>5, <1>7
<1>10. Replayable(s, rows)
  <2>1. v + (n - v) = n /\ (n - v) + v = n
    BY <1>1
  <2> QED
    BY <1>2, <1>8, <1>9, <2>1 DEF Replayable
<1>11. whole.version = n /\ whole.entries = {Entry(r) : r \in Stream(p)}
  <2>1. v + (n - v) = n
    BY <1>1
  <2>2. {Entry(r) : r \in Upto(p, v)} \cup {Entry(r) : r \in rows} = {Entry(r) : r \in Stream(p)}
    BY <1>6
  <2> QED
    BY <1>2, <1>3, <2>1, <2>2 DEF Replayed
<1>12. whole \in JournalState
  <2>1. whole = [version |-> whole.version, entries |-> whole.entries]
    BY DEF Replayed
  <2>2. whole.version \in Nat /\ whole.entries \in SUBSET JournalEntry
    BY <1>11, <1>4
  <2> QED
    BY <2>1, <2>2 DEF JournalState
<1>13. IsHistory(p, whole)
  <2>1. Upto(p, n) = Stream(p)
    <3>1. \A r \in Stream(p) : r.version \in 1 .. n
      BY DEF Versions
    <3> QED
      BY <3>1 DEF Upto
  <2>2. Reached(p, n)
    <3>1. n = 0 \/ n \in 1 .. n
      OBVIOUS
    <3> QED
      BY <3>1 DEF Reached
  <2> QED
    BY <1>11, <2>1, <2>2 DEF IsHistory
<1> QED
  BY <1>10, <1>12, <1>13

-----------------------------------------------------------------------------
(* The steps, and what they do to the types *)

\* The steps of the specification, for the case analyses below.
LEMMA Cases ==
  ASSUME [Next]_vars, NEW P,
         \A p \in Plants : AddPlant(p) => P,
         \A p \in Plants : MovePlant(p) \/ RemovePlant(p) => P,
         \A p \in Plants : WateringCompleted(p) => P,
         \A m \in Processes, p \in Plants : HandleGarden(m, p) => P,
         \A m \in Processes, p \in Plants : Deliver(m, p) => P,
         \A m \in Processes : SkipClaimed(m) => P,
         \A m \in Processes : DropUnknown(m) => P,
         \A m \in Processes : HandleWatering(m) => P,
         \A x \in Processes : LoadSnapshot(x) => P,
         \A x \in Processes : LoadStream(x) => P,
         \A x \in Processes : AlreadyRecorded(x) => P,
         \A x \in Processes : AppendRow(x) => P,
         \A x \in Processes : AppendConflict(x) => P,
         \A x \in Processes : CommitEntry(x) => P,
         \A x \in Processes : MirrorConflict(x) => P,
         \A m \in Processes : Crash(m) => P,
         \A c \in Processes : Answer(c) => P,
         \A c \in Processes : AnswerSent(c) => P,
         \A c \in Processes, p \in Plants, t \in Moments : GetJournalAtDate(c, p, t) => P,
         \A c \in Processes, p \in Plants, e \in ClientIds, t \in CareMoments :
            AddJournalEntry(c, p, e, t) => P,
         Rebuild => P,
         UNCHANGED vars => P
  PROVE  P
<1>1. ASSUME NEW p \in Plants, Environment(p) PROVE P
  BY <1>1 DEF Environment
<1>2. ASSUME NEW x \in Processes, Transaction(x) PROVE P
  BY <1>2 DEF Transaction
<1>3. ASSUME NEW m \in Members, MemberStep(m) \/ Crash(m) PROVE P
  <2>1. m \in Processes
    BY DEF Processes
  <2>2. CASE MemberStep(m)
    BY <2>1, <2>2, <1>2 DEF MemberStep
  <2> QED
    BY <1>3, <2>1, <2>2
<1>4. ASSUME NEW c \in Clients, ClientStep(c) \/ Request(c) PROVE P
  <2>1. c \in Processes
    BY DEF Processes
  <2>2. CASE ClientStep(c)
    BY <2>1, <2>2, <1>2 DEF ClientStep
  <2>3. CASE Request(c)
    BY <2>1, <2>3 DEF Request
  <2> QED
    BY <1>4, <2>2, <2>3
<1> QED
  BY <1>1, <1>3, <1>4 DEF Next

\* The ids of waterings are entry ids, and an idle process's task is a task.
LEMMA Values ==
  /\ \A p \in Plants, t \in Moments : watering_entry_id(p, t) \in EntryIds
  /\ ClientIds \subseteq EntryIds /\ CareMoments \subseteq Moments
  /\ 1 \in Moments
  /\ Nothing \in Task /\ Nothing.kind = "none"
  /\ Empty \in JournalState
<1>1. \A p \in Plants, t \in Moments : watering_entry_id(p, t) \in EntryIds
  BY DEF EntryIds
<1>2. ClientIds \subseteq EntryIds /\ CareMoments \subseteq Moments
  BY ConstantsAssumption DEF EntryIds, Moments
<1>3. 1 \in Moments
  BY ConstantsAssumption DEF Moments
<1>4. (CHOOSE p \in Plants : TRUE) \in Plants
  BY ConstantsAssumption
<1>5. (CHOOSE e \in EntryIds : TRUE) \in EntryIds
  BY <1>1, <1>3, <1>4
<1>6. Nothing \in Task /\ Nothing.kind = "none"
  BY <1>3, <1>4, <1>5 DEF Nothing, Task
<1>7. Empty \in JournalState
  BY DEF Empty, JournalState
<1> QED
  BY <1>1, <1>2, <1>3, <1>6, <1>7

\* A process that is done is idle, and the others are left alone.
LEMMA DoneIs ==
  ASSUME ProcessOK, NEW x \in Processes, Done(x)
  PROVE  /\ task' \in [Processes -> Task]
         /\ aggregate' \in [Processes -> JournalState]
         /\ attempt' \in [Processes -> 0 .. MaxAttempts]
         /\ pc' \in [Processes -> {"idle", "claim", "open", "tail", "replayed", "appended",
                                   "answered", "corrupt"}]
         /\ pc'[x] = "idle" /\ task'[x].kind = "none"
         /\ \A y \in Processes : y # x =>
              /\ pc'[y] = pc[y] /\ task'[y] = task[y] /\ aggregate'[y] = aggregate[y]
<1> USE Values, ConstantsAssumption
<1>1. task' = [task EXCEPT ![x] = Nothing] /\ task \in [Processes -> Task]
  BY DEF Done, ProcessOK
<1>2. aggregate' = [aggregate EXCEPT ![x] = Empty] /\ aggregate \in [Processes -> JournalState]
  BY DEF Done, ProcessOK
<1>3. attempt' = [attempt EXCEPT ![x] = 0] /\ attempt \in [Processes -> 0 .. MaxAttempts]
  BY DEF Done, ProcessOK
<1>4. pc' = [pc EXCEPT ![x] = "idle"]
  BY DEF Done, Goto
<1> QED
  BY <1>1, <1>2, <1>3, <1>4 DEF ProcessOK

\* ... so the processes keep their types, as long as waterings only grow.
LEMMA DoneTypes ==
  ASSUME ProcessOK, NEW x \in Processes, Done(x), waterings' = waterings
  PROVE  ProcessOK'
<1>1. TaskOK'
  <2> SUFFICES ASSUME NEW y \in Processes
               PROVE  /\ pc'[y] = "claim" => task'[y].kind = "watering"
                      /\ task'[y].kind = "watering" => task'[y].at <= waterings[task'[y].plant]
    BY DEF TaskOK
  <2> QED
    BY DoneIs DEF ProcessOK, TaskOK
<1> QED
  BY <1>1, DoneIs DEF ProcessOK

\* An acknowledged offset does not pass the waterings of its plant.
LEMMA AcknowledgeIs ==
  ASSUME GardenOK, ProcessOK, NEW x \in Processes, task[x].kind = "watering", Acknowledge(x)
  PROVE  /\ careOffset' \in [Plants -> Nat]
         /\ \A p \in Plants : careOffset'[p] \in 0 .. waterings[p]
<1>1. task[x].plant \in Plants /\ task[x].at \in Moments
  BY DEF ProcessOK, Task
<1>2. task[x].at <= waterings[task[x].plant]
  BY DEF ProcessOK, TaskOK
<1>3. task[x].at \in Nat
  BY <1>1, ConstantsAssumption DEF Moments
<1>4. CASE UNCHANGED careOffset
  BY <1>4 DEF GardenOK, ShapeOK
<1>5. CASE careOffset' = [careOffset EXCEPT ![task[x].plant] =
                            IF @ + 1 = task[x].at THEN task[x].at ELSE @]
  <2>1. \A p \in Plants : careOffset'[p] = IF p = task[x].plant /\ careOffset[p] + 1 = task[x].at
                                            THEN task[x].at ELSE careOffset[p]
    BY <1>1, <1>5 DEF GardenOK, ShapeOK
  <2>2. DOMAIN careOffset' = Plants /\ careOffset' = [p \in Plants |-> careOffset'[p]]
    BY <1>5 DEF GardenOK, ShapeOK
  <2>3. \A p \in Plants : careOffset'[p] \in 0 .. waterings[p]
    <3> SUFFICES ASSUME NEW p \in Plants PROVE careOffset'[p] \in 0 .. waterings[p]
      OBVIOUS
    <3>1. careOffset[p] \in 0 .. waterings[p] /\ waterings[p] \in Nat
      BY ConstantsAssumption DEF GardenOK
    <3>2. CASE careOffset'[p] = careOffset[p]
      BY <3>1, <3>2
    <3>3. CASE p = task[x].plant /\ careOffset'[p] = task[x].at
      BY <3>1, <3>3, <1>2, <1>3
    <3> QED
      BY <2>1, <3>2, <3>3
  <2>4. \A p \in Plants : careOffset'[p] \in Nat
    BY <2>1, <1>3 DEF GardenOK, ShapeOK
  <2> QED
    BY <2>2, <2>3, <2>4
<1> QED
  BY <1>4, <1>5 DEF Acknowledge

\* The id of the watering in hand is an entry id.
LEMMA DeliveryId ==
  ASSUME ProcessOK, NEW x \in Processes
  PROVE  Delivery(x) \in EntryIds
<1>1. task[x].plant \in Plants /\ task[x].at \in Moments
  BY DEF ProcessOK, Task
<1> QED
  BY <1>1, Values DEF Delivery

\* The topics, offsets and references, when none of them moves.
LEMMA GardenSame ==
  ASSUME GardenOK, UNCHANGED <<garden, waterings, gardenOffset, careOffset, refs, waters>>
  PROVE  GardenOK'
  BY DEF GardenOK, ShapeOK

\* ... and when the consumer's offset does.
LEMMA GardenAcknowledged ==
  ASSUME GardenOK, UNCHANGED <<garden, waterings, gardenOffset, refs, waters>>,
         careOffset' \in [Plants -> Nat], \A p \in Plants : careOffset'[p] \in 0 .. waterings[p]
  PROVE  GardenOK'
  BY DEF GardenOK, ShapeOK

\* The tables, when nothing is written.
LEMMA TablesSame ==
  ASSUME TablesOK, UNCHANGED <<tables, decided, ledger>>
  PROVE  TablesOK'
  BY DEF TablesOK, tables, decided

\* The processes, when none moves.
LEMMA ProcessSame ==
  ASSUME ProcessOK, UNCHANGED <<process, waterings>>
  PROVE  ProcessOK'
  BY DEF ProcessOK, TaskOK, process

\* One process goes on to another label with a new aggregate.
LEMMA ProcessMoves ==
  ASSUME ProcessOK, NEW x \in Processes, NEW l, Goto(x, l),
         l \in {"open", "tail", "replayed", "appended", "answered", "corrupt"},
         aggregate' \in [Processes -> JournalState],
         UNCHANGED <<task, attempt, waterings>>
  PROVE  ProcessOK'
<1>1. /\ pc' \in [Processes -> {"idle", "claim", "open", "tail", "replayed", "appended",
                                "answered", "corrupt"}]
      /\ pc'[x] = l /\ \A y \in Processes : y # x => pc'[y] = pc[y]
  BY DEF Goto, ProcessOK
<1>2. TaskOK'
  BY <1>1 DEF TaskOK, ProcessOK
<1> QED
  BY <1>1, <1>2 DEF ProcessOK

-----------------------------------------------------------------------------
(* What a step that writes no entry leaves as it was *)

\* The facts about the committed rows and what processes hold of them stand when
\* nothing is written and a process only falls back to where it holds nothing.
LEMMA HistoryQuiet ==
  ASSUME HistoryInv, UNCHANGED tables,
         \A x \in Processes :
            \/ pc'[x] = pc[x] /\ task'[x] = task[x] /\ aggregate'[x] = aggregate[x]
            \/ pc'[x] \in {"idle", "claim", "open"}
  PROVE  HistoryInv'
<1>1. UNCHANGED <<event_store, journal_snapshots, journal_entries, outbox>>
  BY DEF tables
<1>2. StreamOK' /\ KeysOK' /\ MirrorAgrees' /\ CheckpointsOK'
  BY <1>1 DEF HistoryInv, StreamOK, KeysOK, MirrorAgrees, CheckpointsOK, Versions, Stream,
              IsHistory, Reached, Upto, Entry
<1>3. LoadedOK'
  <2> SUFFICES ASSUME NEW x \in Processes, pc'[x] \in Loaded \cup {"answered"}
               PROVE  LoadedOK!(x)'
    BY DEF LoadedOK, Loaded
  <2>1. pc'[x] = pc[x] /\ task'[x] = task[x] /\ aggregate'[x] = aggregate[x]
    BY DEF Loaded
  <2>2. LoadedOK!(x)
    BY DEF HistoryInv, LoadedOK
  <2> QED
    BY <1>1, <2>1, <2>2 DEF IsHistory, Reached, Versions, Stream, Upto, Entry
<1>4. FreshOK'
  <2> SUFFICES ASSUME NEW x \in Processes, pc'[x] = "appended"
               PROVE  /\ ~KeyTaken(x)'
                      /\ \A y \in Processes :
                            pc'[y] = "appended" /\ task'[y].plant = task'[x].plant => y = x
    BY DEF FreshOK
  <2>1. pc[x] = "appended" /\ task'[x] = task[x] /\ aggregate'[x] = aggregate[x]
    OBVIOUS
  <2>2. ~KeyTaken(x)'
    BY <1>1, <2>1 DEF HistoryInv, FreshOK, KeyTaken, NextVersion, Stream
  <2> QED
    BY <2>1, <2>2 DEF HistoryInv, FreshOK
<1>5. ReplaySucceeds'
  BY DEF HistoryInv, ReplaySucceeds
<1> QED
  BY <1>2, <1>3, <1>4, <1>5 DEF HistoryInv

\* A process that is done holds nothing any more.
LEMMA HistoryDone ==
  ASSUME HistoryInv, ProcessOK, UNCHANGED tables, NEW x \in Processes, Done(x)
  PROVE  HistoryInv'
  BY DoneIs, HistoryQuiet

\* One that moves on without loading anything holds nothing either.
LEMMA HistoryGoto ==
  ASSUME HistoryInv, ProcessOK, UNCHANGED tables, NEW x \in Processes,
         NEW l \in {"idle", "claim", "open"}, Goto(x, l),
         \A y \in Processes \ {x} : task'[y] = task[y] /\ aggregate'[y] = aggregate[y]
  PROVE  HistoryInv'
<1>1. pc'[x] = l /\ \A y \in Processes \ {x} : pc'[y] = pc[y]
  BY DEF Goto, ProcessOK
<1> QED
  BY <1>1, HistoryQuiet

-----------------------------------------------------------------------------
(* One lemma for each action *)

\* The garden adds, moves and removes plants.
LEMMA GardenChangeKeeps ==
  ASSUME IInv, NEW p \in Plants, AddPlant(p) \/ MovePlant(p) \/ RemovePlant(p)
  PROVE  IInv'
<1> USE DEF IInv, TypeInv
<1>1. UNCHANGED <<waterings, gardenOffset, careOffset, ledger, refs, tables, decided, process, waters>>
  BY DEF AddPlant, MovePlant, RemovePlant, offsets, bounds, inputs
<1>2. /\ garden' \in [Plants -> Seq({"added", "moved", "removed"})]
      /\ \A q \in Plants : Len(garden'[q]) >= Len(garden[q])
  <2>1. garden[p] \in Seq({"added", "moved", "removed"})
    BY DEF GardenOK
  <2>2. PICK e \in {"added", "moved", "removed"} :
            garden' = [garden EXCEPT ![p] = Append(garden[p], e)]
    <3>1. CASE AddPlant(p)
      <4>1. <<"added">> = Append(garden[p], "added")
        BY <3>1 DEF AddPlant
      <4> QED
        BY <3>1, <4>1 DEF AddPlant
    <3> QED
      BY <3>1 DEF MovePlant, RemovePlant
  <2>3. /\ Append(garden[p], e) \in Seq({"added", "moved", "removed"})
        /\ Len(Append(garden[p], e)) = Len(garden[p]) + 1 /\ Len(garden[p]) \in Nat
    BY <2>1
  <2>4. \A q \in Plants : Len(garden[q]) \in Nat
    BY DEF GardenOK
  <2> QED
    BY <2>2, <2>3, <2>4 DEF GardenOK
<1>3. GardenOK'
  <2> SUFFICES ASSUME NEW q \in Plants
               PROVE  gardenOffset[q] \in 0 .. Len(garden'[q]) /\ refs[q] \in 0 .. Len(garden'[q])
    BY <1>1, <1>2 DEF GardenOK, ShapeOK
  <2>1. Len(garden'[q]) \in Nat /\ Len(garden[q]) \in Nat
    BY <1>2 DEF GardenOK
  <2> QED
    BY <1>2, <2>1 DEF GardenOK
<1>4. TablesOK' /\ ProcessOK'
  BY <1>1, TablesSame, ProcessSame
<1>5. HistoryInv'
  BY <1>1, HistoryQuiet DEF process
<1> QED
  BY <1>3, <1>4, <1>5

\* A watering completes.
LEMMA WateringCompletedKeeps ==
  ASSUME IInv, NEW p \in Plants, WateringCompleted(p)
  PROVE  IInv'
<1> USE DEF IInv, TypeInv
<1>1. UNCHANGED <<garden, gardenOffset, careOffset, ledger, refs, tables, decided, process>>
  BY DEF WateringCompleted, offsets
<1>2. /\ waters \in Nat /\ waters > 0 /\ waters' = waters - 1
      /\ waterings' = [waterings EXCEPT ![p] = @ + 1]
      /\ \A q \in Plants : waterings[q] \in Nat /\ waterings[q] + waters <= MaxWaterings
  BY ConstantsAssumption DEF WateringCompleted, GardenOK, ShapeOK
<1>3. \A q \in Plants : waterings'[q] = IF q = p THEN waterings[q] + 1 ELSE waterings[q]
  BY <1>2 DEF GardenOK
<1>4. waters' \in Nat /\ \A q \in Plants : waterings'[q] + waters' <= MaxWaterings
  BY <1>2, <1>3, ConstantsAssumption
<1>5. waterings' \in [Plants -> 0 .. MaxWaterings]
  <2>1. \A q \in Plants : waterings'[q] \in 0 .. MaxWaterings
    BY <1>2, <1>3, ConstantsAssumption
  <2> QED
    BY <1>2, <2>1 DEF GardenOK
<1>6. \A q \in Plants : waterings'[q] >= waterings[q]
  BY <1>2, <1>3
<1>7. GardenOK'
  <2> SUFFICES ASSUME NEW q \in Plants PROVE careOffset[q] \in 0 .. waterings'[q]
    BY <1>1, <1>4, <1>5 DEF GardenOK, ShapeOK
  <2>1. careOffset[q] \in 0 .. waterings[q] /\ waterings[q] \in Nat /\ waterings'[q] \in Nat
    BY <1>2, <1>5, ConstantsAssumption DEF GardenOK
  <2> QED
    BY <1>6, <2>1
<1>8. ProcessOK'
  <2>1. TaskOK'
    <3> SUFFICES ASSUME NEW x \in Processes, task[x].kind = "watering"
                 PROVE  task[x].at <= waterings'[task[x].plant]
      BY <1>1 DEF TaskOK, process, ProcessOK
    <3>1. task[x].plant \in Plants /\ task[x].at \in Nat
      BY ConstantsAssumption DEF ProcessOK, Task, Moments
    <3>2. task[x].at <= waterings[task[x].plant]
      BY DEF ProcessOK, TaskOK
    <3>3. waterings[task[x].plant] \in Nat /\ waterings'[task[x].plant] \in Nat
      BY <3>1, <1>2, <1>5, ConstantsAssumption
    <3> QED
      BY <3>1, <3>2, <3>3, <1>6
  <2> QED
    BY <1>1, <2>1 DEF ProcessOK, process
<1>9. TablesOK' /\ HistoryInv'
  BY <1>1, TablesSame, HistoryQuiet DEF process
<1> QED
  BY <1>7, <1>8, <1>9

\* maintain_plant_reference takes a row from the event it is given, drops it or
\* leaves it.
LEMMA MaintainedIs ==
  ASSUME GardenOK, NEW p \in Plants, NEW n \in 1 .. Len(garden[p])
  PROVE  Maintained(p, n) \in {NoRef, n, refs[p]}
<1>1. garden[p][n] \in {"added", "moved", "removed"}
  <2>1. garden[p] \in Seq({"added", "moved", "removed"})
    BY DEF GardenOK
  <2> QED
    BY <2>1
<1> QED
  BY <1>1 DEF Maintained, upsert

\* A garden event is handled.
LEMMA HandleGardenKeeps ==
  ASSUME IInv, NEW m \in Processes, NEW p \in Plants, HandleGarden(m, p)
  PROVE  IInv'
<1> USE DEF IInv, TypeInv
<1> DEFINE n == gardenOffset[p] + 1
<1>1. UNCHANGED <<garden, waterings, careOffset, ledger, tables, decided, process, waters>>
  BY DEF HandleGarden, topics, inputs
<1>2. Len(garden[p]) \in Nat /\ gardenOffset[p] \in Nat /\ refs[p] \in 0 .. Len(garden[p])
  BY DEF GardenOK, ShapeOK
<1>3. n \in 1 .. Len(garden[p]) /\ n \in 0 .. Len(garden[p]) /\ n \in Nat
  BY <1>2 DEF HandleGarden
<1>4. refs' = [refs EXCEPT ![p] = Maintained(p, n)]
  BY DEF HandleGarden
<1>5. gardenOffset' = gardenOffset \/ gardenOffset' = [gardenOffset EXCEPT ![p] = n]
  BY DEF HandleGarden
<1> HIDE DEF n
<1>6. Maintained(p, n) \in 0 .. Len(garden[p])
  BY <1>2, <1>3, MaintainedIs DEF NoRef
<1>7. refs' \in [Plants -> Nat] /\ \A q \in Plants : refs'[q] \in 0 .. Len(garden[q])
  BY <1>4, <1>6, <1>2 DEF GardenOK, ShapeOK
<1>8. gardenOffset' \in [Plants -> Nat] /\ \A q \in Plants : gardenOffset'[q] \in 0 .. Len(garden[q])
  BY <1>5, <1>3 DEF GardenOK, ShapeOK
<1>9. GardenOK'
  BY <1>1, <1>7, <1>8 DEF GardenOK, ShapeOK
<1>10. TablesOK' /\ ProcessOK' /\ HistoryInv'
  BY <1>1, TablesSame, ProcessSame, HistoryQuiet DEF process
<1> QED
  BY <1>9, <1>10

\* The group is rebuilt.
LEMMA RebuildKeeps ==
  ASSUME IInv, Rebuild
  PROVE  IInv'
<1> USE DEF IInv, TypeInv
<1>1. UNCHANGED <<garden, waterings, refs, tables, decided, process, waters>>
  BY DEF Rebuild, topics, inputs
<1>2. /\ gardenOffset' = [p \in Plants |-> 0] /\ careOffset' = [p \in Plants |-> 0]
      /\ ledger' = {}
  BY DEF Rebuild
<1>3. GardenOK'
  <2> SUFFICES ASSUME NEW p \in Plants
               PROVE  0 \in 0 .. Len(garden[p]) /\ 0 \in 0 .. waterings[p]
    BY <1>1, <1>2 DEF GardenOK, ShapeOK
  <2>1. Len(garden[p]) \in Nat /\ waterings[p] \in Nat
    BY ConstantsAssumption DEF GardenOK
  <2> QED
    BY <2>1
<1>4. TablesOK'
  BY <1>1, <1>2 DEF TablesOK, tables, decided
<1>5. ProcessOK' /\ HistoryInv'
  BY <1>1, ProcessSame, HistoryQuiet DEF process
<1> QED
  BY <1>3, <1>4, <1>5

\* A watering is delivered to a member.
LEMMA DeliverKeeps ==
  ASSUME IInv, NEW m \in Processes, NEW p \in Plants, Deliver(m, p)
  PROVE  IInv'
<1> USE DEF IInv, TypeInv
<1> DEFINE t == careOffset[p] + 1
           d == [kind |-> "watering", plant |-> p, at |-> t, id |-> watering_entry_id(p, t)]
<1>1. UNCHANGED <<garden, waterings, gardenOffset, careOffset, ledger, refs, tables, decided,
                  aggregate, waters>>
  BY DEF Deliver, topics, offsets, bounds, inputs
<1>2. /\ careOffset[p] \in Nat /\ careOffset[p] < waterings[p]
      /\ waterings[p] \in 0 .. MaxWaterings
  BY DEF Deliver, GardenOK, ShapeOK
<1>3. t \in Moments /\ t <= waterings[p]
  BY <1>2, ConstantsAssumption DEF Moments
<1>4. d \in Task
  BY <1>3, Values DEF Task
<1>5. /\ task' = [task EXCEPT ![m] = d] /\ attempt' = [attempt EXCEPT ![m] = 1]
      /\ pc' = [pc EXCEPT ![m] = "claim"]
  BY DEF Deliver, Goto
<1>6. d.kind = "watering" /\ d.plant = p /\ d.at = t
  OBVIOUS
<1> HIDE DEF d, t
<1>7. ProcessOK'
  <2>1. task' \in [Processes -> Task] /\ task'[m] = d
    BY <1>4, <1>5 DEF ProcessOK
  <2>2. attempt' \in [Processes -> 0 .. MaxAttempts]
    BY <1>5, ConstantsAssumption DEF ProcessOK
  <2>3. TaskOK'
    BY <1>1, <1>3, <1>5, <1>6, <2>1 DEF TaskOK, ProcessOK
  <2> QED
    BY <1>1, <1>5, <2>1, <2>2, <2>3 DEF ProcessOK
<1>8. HistoryInv'
  BY <1>1, <1>5, HistoryGoto DEF Goto, ProcessOK
<1>9. GardenOK' /\ TablesOK'
  BY <1>1, GardenSame, TablesSame
<1> QED
  BY <1>7, <1>8, <1>9

\* A delivery that is claimed already is acknowledged.
LEMMA SkipClaimedKeeps ==
  ASSUME IInv, NEW m \in Processes, SkipClaimed(m)
  PROVE  IInv'
<1> USE DEF IInv, TypeInv
<1>1. UNCHANGED <<garden, waterings, gardenOffset, ledger, refs, tables, decided, waters>>
  BY DEF SkipClaimed, topics, inputs
<1>2. task[m].kind = "watering" /\ Acknowledge(m) /\ Done(m)
  BY DEF SkipClaimed, ProcessOK, TaskOK
<1>3. GardenOK'
  BY <1>1, <1>2, AcknowledgeIs, GardenAcknowledged
<1>4. TablesOK' /\ ProcessOK' /\ HistoryInv'
  BY <1>1, <1>2, TablesSame, DoneTypes, HistoryDone
<1> QED
  BY <1>3, <1>4

\* A watering of an unknown plant is claimed and dropped.
LEMMA DropUnknownKeeps ==
  ASSUME IInv, NEW m \in Processes, DropUnknown(m)
  PROVE  IInv'
<1> USE DEF IInv, TypeInv
<1>1. UNCHANGED <<garden, waterings, gardenOffset, refs, tables, aside, waters>>
  BY DEF DropUnknown, topics, inputs
<1>2. task[m].kind = "watering" /\ Acknowledge(m) /\ Done(m)
  BY DEF DropUnknown, ProcessOK, TaskOK
<1>3. GardenOK'
  BY <1>1, <1>2, AcknowledgeIs, GardenAcknowledged
<1>4. TablesOK'
  <2>1. ledger' = ledger \cup {Delivery(m)} /\ dropped' = dropped \cup {Delivery(m)}
    BY DEF DropUnknown
  <2> QED
    BY <1>1, <2>1, DeliveryId DEF TablesOK, tables
<1>5. ProcessOK' /\ HistoryInv'
  BY <1>1, <1>2, DoneTypes, HistoryDone
<1> QED
  BY <1>3, <1>4, <1>5

\* The handler's transaction begins.
LEMMA HandleWateringKeeps ==
  ASSUME IInv, NEW m \in Processes, HandleWatering(m)
  PROVE  IInv'
<1> USE DEF IInv, TypeInv
<1>1. UNCHANGED <<garden, waterings, gardenOffset, careOffset, ledger, refs, tables, decided,
                  task, aggregate, attempt, waters>>
  BY DEF HandleWatering, topics, offsets, bounds, inputs
<1>2. Goto(m, "open")
  BY DEF HandleWatering
<1>3. GardenOK' /\ TablesOK'
  BY <1>1, GardenSame, TablesSame
<1>4. ProcessOK'
  <2>1. aggregate' \in [Processes -> JournalState]
    BY <1>1 DEF ProcessOK
  <2> QED
    BY <1>1, <1>2, <2>1, ProcessMoves
<1>5. HistoryInv'
  BY <1>1, <1>2, HistoryGoto
<1> QED
  BY <1>3, <1>4, <1>5

\* A member dies.
LEMMA CrashKeeps ==
  ASSUME IInv, NEW m \in Processes, Crash(m)
  PROVE  IInv'
<1> USE DEF IInv, TypeInv
<1>1. UNCHANGED <<garden, waterings, gardenOffset, careOffset, ledger, refs, tables, decided, waters>>
  BY DEF Crash, topics, offsets, inputs
<1>2. Done(m)
  BY DEF Crash
<1> QED
  BY <1>1, <1>2, GardenSame, TablesSame, DoneTypes, HistoryDone

\* An answer is sent.
LEMMA AnswerSentKeeps ==
  ASSUME IInv, NEW c \in Processes, AnswerSent(c)
  PROVE  IInv'
<1> USE DEF IInv, TypeInv
<1>1. UNCHANGED <<garden, waterings, gardenOffset, careOffset, ledger, refs, tables, decided, waters>>
  BY DEF AnswerSent, topics, offsets, bounds, inputs
<1>2. Done(c)
  BY DEF AnswerSent
<1> QED
  BY <1>1, <1>2, GardenSame, TablesSame, DoneTypes, HistoryDone

\* A client asks, or adds an entry: it has a task and opens its transaction.
LEMMA RequestKeeps ==
  ASSUME IInv, NEW c \in Processes, NEW d \in Task, d.kind # "watering",
         task' = [task EXCEPT ![c] = d], Goto(c, "open"),
         UNCHANGED <<topics, offsets, ledger, refs, tables, decided, aggregate, attempt, inputs>>
  PROVE  IInv'
<1> USE DEF IInv, TypeInv
<1>1. UNCHANGED <<garden, waterings, gardenOffset, careOffset, ledger, refs, tables, decided,
                  aggregate, attempt, waters>>
  BY DEF topics, offsets, inputs
<1>2. pc' = [pc EXCEPT ![c] = "open"]
  BY DEF Goto
<1>3. task' \in [Processes -> Task] /\ task'[c] = d
      /\ \A y \in Processes \ {c} : task'[y] = task[y]
  BY DEF ProcessOK
<1>4. ProcessOK'
  <2>1. TaskOK'
    BY <1>1, <1>2, <1>3 DEF TaskOK, ProcessOK
  <2> QED
    BY <1>1, <1>2, <1>3, <2>1 DEF ProcessOK
<1>5. HistoryInv'
  BY <1>1, <1>3, HistoryGoto
<1>6. GardenOK' /\ TablesOK'
  BY <1>1, GardenSame, TablesSame
<1> QED
  BY <1>4, <1>5, <1>6

\* AddJournalEntryCommand is such a request.
LEMMA AddJournalEntryKeeps ==
  ASSUME IInv, NEW c \in Processes, NEW p \in Plants, NEW e \in ClientIds,
         NEW t \in CareMoments, AddJournalEntry(c, p, e, t)
  PROVE  IInv'
<1> DEFINE d == [kind |-> "command", plant |-> p, id |-> e, at |-> t]
<1>1. d \in Task /\ d.kind # "watering"
  BY Values DEF Task
<1>2. /\ task' = [task EXCEPT ![c] = d] /\ Goto(c, "open")
      /\ UNCHANGED <<topics, offsets, ledger, refs, tables, decided, aggregate, attempt, inputs>>
  BY DEF AddJournalEntry
<1> HIDE DEF d
<1> QED
  BY <1>1, <1>2, RequestKeeps

\* So is GetJournalAtDate.
LEMMA GetJournalAtDateKeeps ==
  ASSUME IInv, NEW c \in Processes, NEW p \in Plants, NEW t \in Moments,
         GetJournalAtDate(c, p, t)
  PROVE  IInv'
<1> DEFINE d == [Nothing EXCEPT !.kind = "query", !.plant = p, !.at = t]
<1>1. d \in Task /\ d.kind # "watering"
  BY Values DEF Task
<1>2. /\ task' = [task EXCEPT ![c] = d] /\ Goto(c, "open")
      /\ UNCHANGED <<topics, offsets, ledger, refs, tables, decided, aggregate, attempt, inputs>>
  BY DEF GetJournalAtDate
<1> HIDE DEF d
<1> QED
  BY <1>1, <1>2, RequestKeeps

\* An entry that is there already: the transaction commits its claim.
LEMMA AlreadyRecordedKeeps ==
  ASSUME IInv, NEW x \in Processes, AlreadyRecorded(x)
  PROVE  IInv'
<1> USE DEF IInv, TypeInv
<1>1. UNCHANGED <<garden, waterings, gardenOffset, refs, tables, decided, waters>>
  BY DEF AlreadyRecorded, topics, inputs
<1>2. ConsumerCommit(x) /\ Done(x)
  BY DEF AlreadyRecorded
<1>3. GardenOK'
  <2>1. CASE task[x].kind = "watering"
    <3>1. Acknowledge(x)
      BY <1>2, <2>1 DEF ConsumerCommit
    <3> QED
      BY <1>1, <2>1, <3>1, AcknowledgeIs, GardenAcknowledged
  <2>2. CASE task[x].kind # "watering"
    BY <1>1, <1>2, <2>2, GardenSame DEF ConsumerCommit
  <2> QED
    BY <2>1, <2>2
<1>4. TablesOK'
  <2>1. ledger' = ledger \/ ledger' = ledger \cup {Delivery(x)}
    BY <1>2 DEF ConsumerCommit
  <2> QED
    BY <1>1, <2>1, DeliveryId DEF TablesOK, tables, decided
<1>5. ProcessOK' /\ HistoryInv'
  BY <1>1, <1>2, DoneTypes, HistoryDone
<1> QED
  BY <1>3, <1>4, <1>5

\* A lost race is rolled back, tried again or moved aside.
LEMMA ConflictKeeps ==
  ASSUME IInv, NEW x \in Processes, Conflict(x),
         UNCHANGED <<topics, gardenOffset, refs, tables, dropped, inputs, commands>>
  PROVE  IInv'
<1> USE DEF IInv, TypeInv
<1>1. UNCHANGED <<garden, waterings, gardenOffset, refs, tables, dropped, waters>>
  BY DEF topics, inputs
<1>2. CASE Done(x) /\ UNCHANGED <<careOffset, ledger, aside>>
  BY <1>1, <1>2, GardenSame, TablesSame, DoneTypes, HistoryDone DEF decided
<1>3. CASE /\ task[x].kind = "watering" /\ Acknowledge(x) /\ Done(x)
           /\ ledger' = ledger \cup {Delivery(x)} /\ aside' = aside \cup {Delivery(x)}
  <2>1. GardenOK'
    BY <1>1, <1>3, AcknowledgeIs, GardenAcknowledged
  <2>2. TablesOK'
    BY <1>1, <1>3, DeliveryId DEF TablesOK, tables
  <2>3. ProcessOK' /\ HistoryInv'
    BY <1>1, <1>3, DoneTypes, HistoryDone
  <2> QED
    BY <2>1, <2>2, <2>3
<1>4. CASE /\ task[x].kind = "watering" /\ ~MoveAsideDue(x)
           /\ attempt' = [attempt EXCEPT ![x] = @ + 1]
           /\ aggregate' = [aggregate EXCEPT ![x] = Empty]
           /\ Goto(x, "claim") /\ UNCHANGED <<careOffset, ledger, aside, task>>
  <2>1. GardenOK' /\ TablesOK'
    BY <1>1, <1>4, GardenSame, TablesSame DEF decided
  <2>2. HistoryInv'
    BY <1>1, <1>4, HistoryGoto DEF ProcessOK
  <2>3. attempt' \in [Processes -> 0 .. MaxAttempts]
    <3>1. attempt[x] \in 0 .. MaxAttempts /\ attempt[x] < MaxAttempts
      BY <1>4, ConstantsAssumption DEF ProcessOK, MoveAsideDue
    <3>2. attempt[x] + 1 \in 0 .. MaxAttempts
      BY <3>1, ConstantsAssumption
    <3> QED
      BY <1>4, <3>2 DEF ProcessOK
  <2>4. aggregate' \in [Processes -> JournalState]
    BY <1>4, Values DEF ProcessOK
  <2>5. TaskOK'
    BY <1>1, <1>4 DEF TaskOK, ProcessOK, Goto
  <2>6. ProcessOK'
    BY <1>4, <2>3, <2>4, <2>5 DEF ProcessOK, Goto
  <2> QED
    BY <2>1, <2>2, <2>6
<1> QED
  BY <1>2, <1>3, <1>4 DEF Conflict

-----------------------------------------------------------------------------
(* Reading a stream *)

\* What a process answers is the part of a state of the stream up to a date.
IsAnswer(p, t, s) ==
    /\ Reached(p, s.version)
    /\ s.entries = {Entry(r) : r \in {q \in Stream(p) : q.version <= s.version /\ q.at <= t}}

\* A process moves on with what it has read of its stream.
LEMMA HistoryRead ==
  ASSUME HistoryInv, ProcessOK, UNCHANGED <<tables, task>>, NEW x \in Processes,
         NEW l \in {"tail", "replayed", "appended", "answered"}, Goto(x, l),
         \A y \in Processes \ {x} : aggregate'[y] = aggregate[y],
         l # "answered" => IsHistory(task[x].plant, aggregate'[x]),
         l = "answered" => IsAnswer(task[x].plant, task[x].at, aggregate'[x]),
         l = "appended" =>
            /\ aggregate'[x] = aggregate[x] /\ ~KeyTaken(x)
            /\ \A y \in Processes \ {x} : pc[y] = "appended" => task[y].plant # task[x].plant
  PROVE  HistoryInv'
<1>1. UNCHANGED <<event_store, journal_snapshots, journal_entries, outbox>>
  BY DEF tables
<1>2. StreamOK' /\ KeysOK' /\ MirrorAgrees' /\ CheckpointsOK'
  BY <1>1 DEF HistoryInv, StreamOK, KeysOK, MirrorAgrees, CheckpointsOK, Versions, Stream,
              IsHistory, Reached, Upto, Entry
<1>3. pc'[x] = l /\ \A y \in Processes \ {x} : pc'[y] = pc[y]
  BY DEF Goto, ProcessOK
<1>4. LoadedOK'
  <2> SUFFICES ASSUME NEW y \in Processes
               PROVE  LoadedOK!(y)'
    BY DEF LoadedOK
  <2>1. CASE y # x
    <3>1. pc'[y] = pc[y] /\ task'[y] = task[y] /\ aggregate'[y] = aggregate[y]
      BY <1>3, <2>1
    <3>2. LoadedOK!(y)
      BY DEF HistoryInv, LoadedOK
    <3> QED
      BY <1>1, <3>1, <3>2 DEF IsHistory, Reached, Versions, Stream, Upto, Entry
  <2>2. CASE y = x
    <3>1. pc'[x] \in Loaded => IsHistory(task[x].plant, aggregate'[x])
      BY <1>3 DEF Loaded
    <3>2. pc'[x] = "answered" => IsAnswer(task[x].plant, task[x].at, aggregate'[x])
      BY <1>3
    <3> QED
      BY <1>1, <2>2, <3>1, <3>2 DEF IsAnswer, IsHistory, Reached, Versions, Stream, Upto, Entry
  <2> QED
    BY <2>1, <2>2
<1>5. FreshOK'
  <2> SUFFICES ASSUME NEW y \in Processes, pc'[y] = "appended"
               PROVE  /\ ~KeyTaken(y)'
                      /\ \A z \in Processes :
                            pc'[z] = "appended" /\ task'[z].plant = task'[y].plant => z = y
    BY DEF FreshOK
  <2>1. ~KeyTaken(y) /\ aggregate'[y] = aggregate[y]
    <3>1. CASE y = x
      BY <1>3, <3>1
    <3>2. CASE y # x
      BY <1>3, <3>2 DEF HistoryInv, FreshOK
    <3> QED
      BY <3>1, <3>2
  <2>2. ~KeyTaken(y)'
    BY <1>1, <2>1 DEF KeyTaken, NextVersion, Stream
  <2>3. ASSUME NEW z \in Processes, pc'[z] = "appended", task'[z].plant = task'[y].plant, z # y
        PROVE  FALSE
    <3>1. CASE z # x /\ y # x
      BY <1>3, <2>3, <3>1 DEF HistoryInv, FreshOK
    <3>2. CASE z = x
      BY <1>3, <2>3, <3>2
    <3>3. CASE y = x
      BY <1>3, <2>3, <3>3
    <3> QED
      BY <3>1, <3>2, <3>3
  <2> QED
    BY <2>2, <2>3
<1>6. ReplaySucceeds'
  BY <1>3 DEF HistoryInv, ReplaySucceeds
<1> QED
  BY <1>2, <1>4, <1>5, <1>6 DEF HistoryInv

\* The newest checkpoint, or the empty state, is a state of the stream.
LEMMA LatestIsHistory ==
  ASSUME TablesOK, HistoryInv, NEW p \in Plants
  PROVE  latest(p) \in JournalState /\ IsHistory(p, latest(p))
<1> DEFINE rows == {s \in journal_snapshots : s.stream = p}
           newest == CHOOSE s \in rows : \A o \in rows : o.version <= s.version
<1>1. CASE rows = {}
  <2>1. latest(p) = Empty
    BY <1>1 DEF latest
  <2>2. Upto(p, 0) = {}
    <3>1. PICK n \in Nat : Versions(p) = 1 .. n
      BY DEF HistoryInv, StreamOK
    <3>2. \A r \in Stream(p) : r.version \in 1 .. n
      BY <3>1 DEF Versions
    <3> QED
      BY <3>2 DEF Upto
  <2>3. Empty.version = 0 /\ Empty.entries = {}
    BY DEF Empty
  <2>4. IsHistory(p, Empty)
    BY <2>2, <2>3 DEF IsHistory, Reached
  <2> QED
    BY <2>1, <2>4, Values
<1>2. CASE rows # {}
  <2>1. \E s \in rows : \A o \in rows : o.version <= s.version
    BY <1>2 DEF HistoryInv, CheckpointsOK
  <2>2. newest \in rows
    BY <2>1
  <2>3. latest(p) = state_from_snapshot_model(newest)
    BY <1>2 DEF latest
  <2> HIDE DEF newest
  <2>4. newest \in JournalSnapshotModel /\ newest.stream = p /\ newest \in journal_snapshots
    BY <2>2 DEF TablesOK
  <2>5. latest(p).version = newest.version /\ latest(p).entries = newest.entries
    BY <2>3 DEF state_from_snapshot_model
  <2>6. IsHistory(p, newest)
    BY <2>4 DEF HistoryInv, CheckpointsOK
  <2>7. IsHistory(p, latest(p))
    BY <2>5, <2>6 DEF IsHistory
  <2>8. latest(p) \in JournalState
    BY <2>3, <2>4 DEF state_from_snapshot_model, JournalSnapshotModel, JournalState
  <2> QED
    BY <2>7, <2>8
<1> QED
  BY <1>1, <1>2

\* The checkpoint is loaded.
LEMMA LoadSnapshotKeeps ==
  ASSUME IInv, NEW x \in Processes, LoadSnapshot(x)
  PROVE  IInv'
<1> USE DEF IInv, TypeInv
<1>1. UNCHANGED <<garden, waterings, gardenOffset, careOffset, ledger, refs, tables, decided,
                  task, attempt, waters>>
  BY DEF LoadSnapshot, topics, offsets, bounds, inputs
<1>2. Goto(x, "tail") /\ aggregate' = [aggregate EXCEPT ![x] = latest(task[x].plant)]
  BY DEF LoadSnapshot
<1>3. task[x].plant \in Plants
  BY DEF ProcessOK, Task
<1>4. latest(task[x].plant) \in JournalState /\ IsHistory(task[x].plant, latest(task[x].plant))
  BY <1>3, LatestIsHistory
<1>5. /\ aggregate' \in [Processes -> JournalState]
      /\ aggregate'[x] = latest(task[x].plant)
      /\ \A y \in Processes \ {x} : aggregate'[y] = aggregate[y]
  BY <1>2, <1>4 DEF ProcessOK
<1>6. GardenOK' /\ TablesOK' /\ ProcessOK'
  BY <1>1, <1>2, <1>5, GardenSame, TablesSame, ProcessMoves
<1>7. HistoryInv'
  BY <1>1, <1>2, <1>4, <1>5, HistoryRead
<1> QED
  BY <1>6, <1>7

\* The events after it are: the replay succeeds.
LEMMA LoadStreamKeeps ==
  ASSUME IInv, NEW x \in Processes, LoadStream(x)
  PROVE  IInv'
<1> USE DEF IInv, TypeInv
<1> DEFINE p == task[x].plant
           s == aggregate[x]
           rows == load_stream(p, s.version)
<1>1. UNCHANGED <<garden, waterings, gardenOffset, careOffset, ledger, refs, tables, decided,
                  task, attempt, waters>>
  BY DEF LoadStream, topics, offsets, bounds, inputs
<1>2. p \in Plants /\ s \in JournalState
  BY DEF ProcessOK, Task
<1>3. IsHistory(p, s)
  BY DEF LoadStream, HistoryInv, LoadedOK, Loaded
<1>4. PICK n \in Nat : Versions(p) = 1 .. n
  BY <1>2 DEF HistoryInv, StreamOK
<1>5. /\ Replayable(s, rows)
      /\ Replayed(s, rows) \in JournalState
      /\ IsHistory(p, Replayed(s, rows))
  BY <1>2, <1>3, <1>4, ReplayIsHistory DEF HistoryInv
<1>6. Goto(x, "replayed") /\ aggregate' = [aggregate EXCEPT ![x] = Replayed(s, rows)]
  BY <1>5 DEF LoadStream
<1>7. /\ aggregate' \in [Processes -> JournalState]
      /\ aggregate'[x] = Replayed(s, rows)
      /\ \A y \in Processes \ {x} : aggregate'[y] = aggregate[y]
  BY <1>5, <1>6 DEF ProcessOK
<1>8. GardenOK' /\ TablesOK' /\ ProcessOK'
  BY <1>1, <1>6, <1>7, GardenSame, TablesSame, ProcessMoves
<1>9. IsHistory(task[x].plant, aggregate'[x])
  BY <1>5, <1>7
<1>10. HistoryInv'
  BY <1>1, <1>6, <1>7, <1>9, HistoryRead
<1> QED
  BY <1>8, <1>10

\* A query answers from the state it replayed.
LEMMA AnswerKeeps ==
  ASSUME IInv, NEW c \in Processes, Answer(c)
  PROVE  IInv'
<1> USE DEF IInv, TypeInv
<1> DEFINE p == task[c].plant
           t == task[c].at
           s == aggregate[c]
<1>1. UNCHANGED <<garden, waterings, gardenOffset, careOffset, ledger, refs, tables, decided,
                  task, attempt, waters>>
  BY DEF Answer, topics, offsets, bounds, inputs
<1>2. p \in Plants /\ s \in JournalState
  BY DEF ProcessOK, Task
<1>3. Goto(c, "answered") /\ aggregate' = [aggregate EXCEPT ![c] = state_at(s, t)]
  BY DEF Answer
<1>4. IsHistory(p, s)
  BY DEF Answer, HistoryInv, LoadedOK, Loaded
<1>5. state_at(s, t) \in JournalState
  BY <1>2 DEF state_at, JournalState
<1>6. IsAnswer(p, t, state_at(s, t))
  <2>1. \A r \in Stream(p) : Entry(r).at = r.at
    BY <1>2, StreamRows
  <2>2. {e \in s.entries : e.at <= t} =
          {Entry(r) : r \in {q \in Stream(p) : q.version <= s.version /\ q.at <= t}}
    BY <1>4, <2>1 DEF IsHistory, Upto
  <2> QED
    BY <1>4, <2>2 DEF IsAnswer, IsHistory, state_at
<1>7. /\ aggregate' \in [Processes -> JournalState]
      /\ aggregate'[c] = state_at(s, t)
      /\ \A y \in Processes \ {c} : aggregate'[y] = aggregate[y]
  BY <1>3, <1>5 DEF ProcessOK
<1>8. GardenOK' /\ TablesOK' /\ ProcessOK'
  BY <1>1, <1>3, <1>7, GardenSame, TablesSame, ProcessMoves
<1>9. HistoryInv'
  BY <1>1, <1>3, <1>6, <1>7, HistoryRead
<1> QED
  BY <1>8, <1>9

\* A process whose next version is free is at the end of its stream.
LEMMA AtTheEnd ==
  ASSUME IInv, NEW x \in Processes, pc[x] \in Loaded, ~KeyTaken(x)
  PROVE  /\ task[x].plant \in Plants /\ aggregate[x].version \in Nat
         /\ Versions(task[x].plant) = 1 .. aggregate[x].version
<1> DEFINE p == task[x].plant
           v == aggregate[x].version
<1>1. p \in Plants
  BY DEF IInv, TypeInv, ProcessOK, Task
<1>2. PICK n \in Nat : Versions(p) = 1 .. n
  BY <1>1 DEF IInv, HistoryInv, StreamOK
<1>3. IsHistory(p, aggregate[x])
  BY DEF IInv, HistoryInv, LoadedOK
<1>4. v \in 0 .. n
  BY <1>1, <1>2, <1>3, ReachedRange DEF IsHistory
<1>5. v + 1 \notin Versions(p)
  BY DEF KeyTaken, NextVersion, Versions
<1>6. v = n
  BY <1>2, <1>4, <1>5
<1> QED
  BY <1>1, <1>2, <1>6

\* The row is inserted: the key is held.
LEMMA AppendRowKeeps ==
  ASSUME IInv, NEW x \in Processes, AppendRow(x)
  PROVE  IInv'
<1> USE DEF IInv, TypeInv
<1>1. UNCHANGED <<garden, waterings, gardenOffset, careOffset, ledger, refs, tables, decided,
                  task, aggregate, attempt, waters>>
  BY DEF AppendRow, topics, offsets, bounds, inputs
<1>2. Goto(x, "appended") /\ pc[x] = "replayed" /\ ~KeyHeld(x) /\ ~KeyTaken(x)
  BY DEF AppendRow, Recording
<1>3. IsHistory(task[x].plant, aggregate'[x])
  BY <1>1, <1>2 DEF HistoryInv, LoadedOK, Loaded
<1>4. \A y \in Processes \ {x} : pc[y] = "appended" => task[y].plant # task[x].plant
  <2> SUFFICES ASSUME NEW y \in Processes \ {x}, pc[y] = "appended",
                      task[y].plant = task[x].plant
               PROVE  FALSE
    OBVIOUS
  <2>1. ~KeyTaken(y)
    BY DEF HistoryInv, FreshOK
  <2>2. /\ aggregate[y].version \in Nat
        /\ Versions(task[x].plant) = 1 .. aggregate[y].version
    BY <2>1, AtTheEnd DEF Loaded
  <2>3. /\ aggregate[x].version \in Nat
        /\ Versions(task[x].plant) = 1 .. aggregate[x].version
    BY <1>2, AtTheEnd DEF Loaded
  <2>4. aggregate[x].version = aggregate[y].version
    <3>1. \A k \in Nat : k \in 1 .. aggregate[x].version <=> k \in 1 .. aggregate[y].version
      BY <2>2, <2>3
    <3> QED
      BY <2>2, <2>3, <3>1
  <2> QED
    BY <1>2, <2>4 DEF KeyHeld, NextVersion
<1>5. aggregate' \in [Processes -> JournalState]
  BY <1>1 DEF ProcessOK
<1>6. GardenOK' /\ TablesOK' /\ ProcessOK'
  BY <1>1, <1>2, <1>5, GardenSame, TablesSame, ProcessMoves
<1>7. HistoryInv'
  BY <1>1, <1>2, <1>3, <1>4, HistoryRead
<1> QED
  BY <1>6, <1>7

-----------------------------------------------------------------------------
(* The commit of an entry *)

\* The rows of a stream after a step.
StreamAfter(p) == {r \in event_store' : r.stream = p}

\* It adds one row, the next of its stream, with an id no row has.
LEMMA CommitIs ==
  ASSUME IInv, NEW x \in Processes, CommitEntry(x)
  PROVE  LET p == task[x].plant
             v == aggregate[x].version
             row == event_store_model_from_event(x)
         IN  /\ p \in Plants /\ v \in Nat /\ task[x].id \in EntryIds /\ task[x].at \in Moments
             /\ event_store' = event_store \cup {row}
             /\ row.stream = p /\ row.version = v + 1 /\ row.id = task[x].id /\ row.at = task[x].at
             /\ Versions(p) = 1 .. v
             /\ \A r \in event_store : r.id # task[x].id
             /\ StreamAfter(p) = Stream(p) \cup {row}
             /\ \A q \in Plants \ {p} : StreamAfter(q) = Stream(q)
             /\ IsHistory(p, aggregate[x])
             /\ aggregate[x].entries \subseteq JournalEntry
<1> DEFINE p == task[x].plant
           v == aggregate[x].version
           row == event_store_model_from_event(x)
<1>1. pc[x] = "appended" /\ ~MirrorTaken(x) /\ event_store' = event_store \cup {row}
  BY DEF CommitEntry
<1>2. ~KeyTaken(x)
  BY <1>1 DEF IInv, HistoryInv, FreshOK
<1>3. p \in Plants /\ v \in Nat /\ Versions(p) = 1 .. v
  BY <1>1, <1>2, AtTheEnd DEF Loaded
<1>4. task[x].id \in EntryIds /\ task[x].at \in Moments
  BY DEF IInv, TypeInv, ProcessOK, Task
<1>5. row.stream = p /\ row.version = v + 1 /\ row.id = task[x].id /\ row.at = task[x].at
  BY DEF event_store_model_from_event, NextVersion
<1>6. \A r \in event_store : r.id # task[x].id
  <2> SUFFICES ASSUME NEW r \in event_store, r.id = task[x].id PROVE FALSE
    OBVIOUS
  <2>1. [id |-> r.id, plant |-> r.stream, at |-> r.at] \in journal_entries
    BY DEF IInv, HistoryInv, MirrorAgrees
  <2> QED
    BY <1>1, <2>1 DEF MirrorTaken
<1> HIDE DEF row
<1>7. StreamAfter(p) = Stream(p) \cup {row} /\ \A q \in Plants \ {p} : StreamAfter(q) = Stream(q)
  BY <1>1, <1>5 DEF Stream, StreamAfter
<1>8. IsHistory(p, aggregate[x])
  BY <1>1 DEF IInv, HistoryInv, LoadedOK, Loaded
<1>9. aggregate[x].entries \subseteq JournalEntry
  BY DEF IInv, TypeInv, ProcessOK, JournalState
<1> QED
  BY <1>1, <1>3, <1>4, <1>5, <1>6, <1>7, <1>8, <1>9 DEF row

\* The versions a stream went through and the rows up to them stay.
LEMMA HistoryStays ==
  ASSUME IInv, NEW x \in Processes, CommitEntry(x), NEW q \in Plants
  PROVE  \A w : Reached(q, w) =>
           /\ w = 0 \/ w \in {r.version : r \in StreamAfter(q)}
           /\ {r \in StreamAfter(q) : r.version <= w} = Upto(q, w)
           /\ \A t : {r \in StreamAfter(q) : r.version <= w /\ r.at <= t}
                       = {r \in Stream(q) : r.version <= w /\ r.at <= t}
<1> DEFINE p == task[x].plant
           v == aggregate[x].version
           row == event_store_model_from_event(x)
<1>1. /\ p \in Plants /\ v \in Nat /\ Versions(p) = 1 .. v
      /\ row.version = v + 1
      /\ StreamAfter(p) = Stream(p) \cup {row}
      /\ \A k \in Plants \ {p} : StreamAfter(k) = Stream(k)
  BY CommitIs
<1> HIDE DEF row, p, v
<1> SUFFICES ASSUME NEW w, Reached(q, w)
             PROVE  /\ w = 0 \/ w \in {r.version : r \in StreamAfter(q)}
                    /\ {r \in StreamAfter(q) : r.version <= w} = Upto(q, w)
                    /\ \A t : {r \in StreamAfter(q) : r.version <= w /\ r.at <= t}
                                = {r \in Stream(q) : r.version <= w /\ r.at <= t}
  OBVIOUS
<1>2. CASE q # p
  BY <1>1, <1>2 DEF Reached, Versions, Upto
<1>3. CASE q = p
  <2>1. w \in 0 .. v
    BY <1>1, <1>3, ReachedRange
  <2>2. ~(row.version <= w)
    BY <1>1, <2>1
  <2> QED
    BY <1>1, <1>3, <2>2 DEF Reached, Versions, Upto
<1> QED
  BY <1>2, <1>3

\* The state the process holds, with its entry, is the state of the stream.
LEMMA AddedIs ==
  ASSUME IInv, NEW x \in Processes, CommitEntry(x)
  PROVE  LET p == task[x].plant
             n == aggregate[x].version + 1
         IN  /\ Added(x).version = n /\ n \in Nat
             /\ Added(x).entries \subseteq JournalEntry
             /\ Added(x).entries = {Entry(r) : r \in {q \in StreamAfter(p) : q.version <= n}}
             /\ {r.version : r \in StreamAfter(p)} = 1 .. n
<1> DEFINE p == task[x].plant
           v == aggregate[x].version
           row == event_store_model_from_event(x)
           new == [version |-> NextVersion(x), id |-> task[x].id, at |-> task[x].at]
<1>1. /\ p \in Plants /\ v \in Nat /\ Versions(p) = 1 .. v
      /\ task[x].id \in EntryIds /\ task[x].at \in Moments
      /\ row.version = v + 1 /\ row.id = task[x].id /\ row.at = task[x].at
      /\ StreamAfter(p) = Stream(p) \cup {row}
      /\ IsHistory(p, aggregate[x])
      /\ aggregate[x].entries \subseteq JournalEntry
  BY CommitIs
<1>2. Cardinality({new}) = 1
  BY FS_Singleton
<1>3. Entry(new) = Entry(row) /\ Entry(new) \in JournalEntry
  BY <1>1 DEF Entry, JournalEntry
<1>4. /\ Added(x).version = v + 1
      /\ Added(x).entries = aggregate[x].entries \cup {Entry(row)}
  BY <1>2, <1>3 DEF Added, Replayed
<1>5. Added(x).entries \subseteq JournalEntry
  BY <1>1, <1>3, <1>4
<1> HIDE DEF row, new
<1>6. \A r \in Stream(p) : r.version \in 1 .. v
  BY <1>1 DEF Versions
<1>7. {q \in StreamAfter(p) : q.version <= v + 1} = Upto(p, v) \cup {row}
  BY <1>1, <1>6 DEF Upto
<1>8. Added(x).entries = {Entry(r) : r \in {q \in StreamAfter(p) : q.version <= v + 1}}
  <2>1. aggregate[x].entries = {Entry(r) : r \in Upto(p, v)}
    BY <1>1 DEF IsHistory
  <2> QED
    BY <1>4, <1>7, <2>1
<1>9. {r.version : r \in StreamAfter(p)} = 1 .. (v + 1)
  <2>1. {r.version : r \in StreamAfter(p)} = Versions(p) \cup {v + 1}
    BY <1>1 DEF Versions
  <2>2. (1 .. v) \cup {v + 1} = 1 .. (v + 1)
    BY <1>1
  <2> QED
    BY <1>1, <2>1, <2>2
<1> QED
  BY <1>1, <1>4, <1>5, <1>8, <1>9

\* The committed rows keep their types.
LEMMA CommitTypes ==
  ASSUME IInv, NEW x \in Processes, CommitEntry(x)
  PROVE  TypeInv'
<1> USE DEF IInv, TypeInv
<1>1. UNCHANGED <<garden, waterings, gardenOffset, refs, decided, waters>>
  BY DEF CommitEntry, topics, inputs
<1>2. ConsumerCommit(x) /\ Done(x)
  BY DEF CommitEntry
<1>3. GardenOK'
  <2>1. CASE task[x].kind = "watering"
    <3>1. Acknowledge(x)
      BY <1>2, <2>1 DEF ConsumerCommit
    <3> QED
      BY <1>1, <2>1, <3>1, AcknowledgeIs, GardenAcknowledged
  <2>2. CASE task[x].kind # "watering"
    BY <1>1, <1>2, <2>2, GardenSame DEF ConsumerCommit
  <2> QED
    BY <2>1, <2>2
<1>4. TablesOK'
  <2>1. ledger' \subseteq EntryIds
    BY <1>2, DeliveryId DEF ConsumerCommit, TablesOK
  <2>2. /\ task[x].plant \in Plants /\ task[x].id \in EntryIds /\ task[x].at \in Moments
        /\ aggregate[x].version \in Nat
    BY CommitIs
  <2>3. event_store_model_from_event(x) \in EventStoreModel
    BY <2>2 DEF event_store_model_from_event, EventStoreModel, NextVersion
  <2>4. journal_entry_to_model(x) \in JournalEntryModel
    BY <2>2 DEF journal_entry_to_model, JournalEntryModel
  <2>5. snapshot_model_from_state(x) \in JournalSnapshotModel
    <3>1. Added(x).version \in Nat /\ Added(x).entries \in SUBSET JournalEntry
      BY AddedIs
    <3> QED
      BY <2>2, <3>1 DEF snapshot_model_from_state, JournalSnapshotModel
  <2>6. /\ event_store' = event_store \cup {event_store_model_from_event(x)}
        /\ journal_entries' = journal_entries \cup {journal_entry_to_model(x)}
        /\ outbox' = outbox \cup {task[x].id}
        /\ journal_snapshots' \subseteq journal_snapshots \cup {snapshot_model_from_state(x)}
    BY DEF CommitEntry
  <2> QED
    BY <1>1, <2>1, <2>2, <2>3, <2>4, <2>5, <2>6 DEF TablesOK, decided
<1>5. ProcessOK'
  BY <1>1, <1>2, DoneTypes
<1> QED
  BY <1>3, <1>4, <1>5

\* The committed rows are still one history.
LEMMA CommitEntryKeeps ==
  ASSUME IInv, NEW x \in Processes, CommitEntry(x)
  PROVE  IInv'
<1> DEFINE p == task[x].plant
           v == aggregate[x].version
           row == event_store_model_from_event(x)
           snapshot == snapshot_model_from_state(x)
<1>1. /\ p \in Plants /\ v \in Nat
      /\ event_store' = event_store \cup {row}
      /\ row.stream = p /\ row.version = v + 1 /\ row.id = task[x].id /\ row.at = task[x].at
      /\ Versions(p) = 1 .. v
      /\ \A r \in event_store : r.id # task[x].id
      /\ StreamAfter(p) = Stream(p) \cup {row}
      /\ \A q \in Plants \ {p} : StreamAfter(q) = Stream(q)
  BY CommitIs
<1>2. /\ Added(x).version = v + 1
      /\ Added(x).entries = {Entry(r) : r \in {q \in StreamAfter(p) : q.version <= v + 1}}
      /\ {r.version : r \in StreamAfter(p)} = 1 .. (v + 1)
  BY AddedIs
<1>3. \A q \in Plants : \A w : Reached(q, w) =>
        /\ w = 0 \/ w \in {r.version : r \in StreamAfter(q)}
        /\ {r \in StreamAfter(q) : r.version <= w} = Upto(q, w)
        /\ \A t : {r \in StreamAfter(q) : r.version <= w /\ r.at <= t}
                    = {r \in Stream(q) : r.version <= w /\ r.at <= t}
  BY HistoryStays
<1>4. /\ snapshot.stream = p /\ snapshot.version = v + 1 /\ snapshot.entries = Added(x).entries
      /\ \/ journal_snapshots' = journal_snapshots
         \/ journal_snapshots' = journal_snapshots \cup {snapshot}
  BY <1>2 DEF CommitEntry, snapshot_model_from_state
<1>5. /\ journal_entries' = journal_entries \cup
            {[id |-> task[x].id, plant |-> task[x].plant, at |-> task[x].at]}
      /\ outbox' = outbox \cup {task[x].id}
  BY DEF CommitEntry, journal_entry_to_model
<1>6. /\ pc'[x] = "idle" /\ pc[x] = "appended"
      /\ \A y \in Processes : y # x =>
           /\ pc'[y] = pc[y] /\ task'[y] = task[y] /\ aggregate'[y] = aggregate[y]
  BY DoneIs DEF CommitEntry, IInv, TypeInv
<1>7. \A y \in Processes : task[y].plant \in Plants
  BY DEF IInv, TypeInv, ProcessOK, Task
<1>8. \A s \in journal_snapshots : s.stream \in Plants /\ s.version \in Nat
  BY DEF IInv, TypeInv, TablesOK, JournalSnapshotModel
<1> HIDE DEF row, snapshot
<1>9. StreamOK'
  <2> SUFFICES ASSUME NEW q \in Plants
               PROVE  \E n \in Nat : {r.version : r \in StreamAfter(q)} = 1 .. n
    BY DEF StreamOK, Versions, Stream, StreamAfter
  <2>1. CASE q = p
    <3>1. v + 1 \in Nat
      BY <1>1
    <3> QED
      BY <1>2, <2>1, <3>1
  <2>2. CASE q # p
    BY <1>1, <2>2 DEF IInv, HistoryInv, StreamOK, Versions
  <2> QED
    BY <2>1, <2>2
<1>10. KeysOK'
  <2>1. \A r \in event_store : r.stream = p => r.version # v + 1
    <3> SUFFICES ASSUME NEW r \in event_store, r.stream = p PROVE r.version # v + 1
      OBVIOUS
    <3>1. r.version \in 1 .. v
      BY <1>1 DEF Versions, Stream
    <3> QED
      BY <1>1, <3>1
  <2> SUFFICES ASSUME NEW r \in event_store', NEW q \in event_store',
                      (r.stream = q.stream /\ r.version = q.version) \/ r.id = q.id
               PROVE  r = q
    BY DEF KeysOK
  <2>2. CASE r \in event_store /\ q \in event_store
    BY <2>2 DEF IInv, HistoryInv, KeysOK
  <2>3. CASE r = row /\ q \in event_store
    BY <1>1, <2>1, <2>3
  <2>4. CASE q = row /\ r \in event_store
    BY <1>1, <2>1, <2>4
  <2> QED
    BY <1>1, <2>2, <2>3, <2>4
<1>11. MirrorAgrees'
  BY <1>1, <1>5 DEF IInv, HistoryInv, MirrorAgrees
<1>12. CheckpointsOK'
  <2>1. ASSUME NEW s \in journal_snapshots'
        PROVE  /\ s.version = 0 \/ s.version \in {r.version : r \in StreamAfter(s.stream)}
               /\ s.entries = {Entry(r) : r \in {q \in StreamAfter(s.stream) : q.version <= s.version}}
    <3>1. CASE s \in journal_snapshots
      <4>1. Reached(s.stream, s.version) /\ s.entries = {Entry(r) : r \in Upto(s.stream, s.version)}
        BY <3>1 DEF IInv, HistoryInv, CheckpointsOK, IsHistory
      <4> QED
        BY <1>3, <1>8, <3>1, <4>1
    <3>2. CASE s = snapshot
      <4>1. v + 1 \in 1 .. (v + 1)
        BY <1>1
      <4> QED
        BY <1>2, <1>4, <3>2, <4>1
    <3> QED
      BY <1>4, <3>1, <3>2
  <2>2. ASSUME NEW q \in Plants,
               {s \in journal_snapshots' : s.stream = q} # {}
        PROVE  \E s \in {k \in journal_snapshots' : k.stream = q} :
                 \A o \in {k \in journal_snapshots' : k.stream = q} : o.version <= s.version
    <3>1. CASE {s \in journal_snapshots' : s.stream = q} = {s \in journal_snapshots : s.stream = q}
      BY <2>2, <3>1 DEF IInv, HistoryInv, CheckpointsOK
    <3>2. CASE q = p /\ journal_snapshots' = journal_snapshots \cup {snapshot}
      <4>1. \A o \in journal_snapshots : o.stream = p => o.version <= v + 1
        <5> SUFFICES ASSUME NEW o \in journal_snapshots, o.stream = p PROVE o.version <= v + 1
          OBVIOUS
        <5>1. Reached(p, o.version)
          BY DEF IInv, HistoryInv, CheckpointsOK, IsHistory
        <5>2. o.version \in 0 .. v
          BY <1>1, <5>1, ReachedRange
        <5> QED
          BY <1>1, <5>2
      <4>2. v + 1 <= v + 1
        BY <1>1
      <4> QED
        BY <1>4, <3>2, <4>1, <4>2
    <3> QED
      BY <1>4, <3>1, <3>2
  <2> QED
    BY <2>1, <2>2 DEF CheckpointsOK, IsHistory, Reached, Versions, Upto, Entry, Stream, StreamAfter
<1>13. LoadedOK'
  <2> SUFFICES ASSUME NEW y \in Processes, y # x
               PROVE  LoadedOK!(y)'
    BY <1>6 DEF LoadedOK, Loaded
  <2>1. pc'[y] = pc[y] /\ task'[y] = task[y] /\ aggregate'[y] = aggregate[y]
    BY <1>6
  <2>2. LoadedOK!(y)
    BY DEF IInv, HistoryInv, LoadedOK
  <2>3. task[y].plant \in Plants
    BY <1>7
  <2>4. CASE pc[y] \in Loaded
    <3>1. /\ Reached(task[y].plant, aggregate[y].version)
          /\ aggregate[y].entries = {Entry(r) : r \in Upto(task[y].plant, aggregate[y].version)}
      BY <2>2, <2>4 DEF IsHistory
    <3>2. /\ \/ aggregate[y].version = 0
             \/ aggregate[y].version \in {r.version : r \in StreamAfter(task[y].plant)}
          /\ aggregate[y].entries =
               {Entry(r) : r \in {s \in StreamAfter(task[y].plant) :
                     s.version <= aggregate[y].version}}
      BY <1>3, <2>3, <3>1
    <3>3. IsHistory(task[y].plant, aggregate[y])'
      BY <2>1, <3>2 DEF IsHistory, Reached, Versions, Upto, Stream, StreamAfter, Entry
    <3> QED
      BY <2>1, <2>4, <3>3 DEF Loaded
  <2>5. CASE pc[y] = "answered"
    <3>1. /\ Reached(task[y].plant, aggregate[y].version)
          /\ aggregate[y].entries =
               {Entry(r) : r \in {s \in Stream(task[y].plant) :
                     s.version <= aggregate[y].version /\ s.at <= task[y].at}}
      BY <2>2, <2>5
    <3>2. /\ \/ aggregate[y].version = 0
             \/ aggregate[y].version \in {r.version : r \in StreamAfter(task[y].plant)}
          /\ aggregate[y].entries =
               {Entry(r) : r \in {s \in StreamAfter(task[y].plant) :
                     s.version <= aggregate[y].version /\ s.at <= task[y].at}}
      BY <1>3, <2>3, <3>1
    <3> QED
      BY <2>1, <2>5, <3>2 DEF Loaded, Reached, Versions, Stream, StreamAfter, Entry
  <2> QED
    BY <2>1, <2>4, <2>5
<1>14. FreshOK'
  <2> SUFFICES ASSUME NEW y \in Processes, pc'[y] = "appended"
               PROVE  /\ ~KeyTaken(y)'
                      /\ \A z \in Processes :
                            pc'[z] = "appended" /\ task'[z].plant = task'[y].plant => z = y
    BY DEF FreshOK
  <2>1. y # x /\ pc[y] = "appended" /\ task'[y] = task[y] /\ aggregate'[y] = aggregate[y]
    BY <1>6
  <2>2. task[y].plant # p
    BY <1>6, <2>1 DEF IInv, HistoryInv, FreshOK
  <2>3. ~KeyTaken(y)
    BY <2>1 DEF IInv, HistoryInv, FreshOK
  <2>4. {r \in event_store' : r.stream = task[y].plant} = Stream(task[y].plant)
    BY <1>1, <2>2 DEF Stream
  <2>5. ~KeyTaken(y)'
    BY <2>1, <2>3, <2>4 DEF KeyTaken, NextVersion, Stream
  <2> QED
    BY <1>6, <2>1, <2>5 DEF IInv, HistoryInv, FreshOK
<1>15. ReplaySucceeds'
  BY <1>6 DEF IInv, HistoryInv, ReplaySucceeds
<1> QED
  BY <1>9, <1>10, <1>11, <1>12, <1>13, <1>14, <1>15, CommitTypes DEF IInv, HistoryInv

-----------------------------------------------------------------------------
(* The theorems *)

\* The tables are empty and nobody works.
LEMMA InitInv == Init => IInv
<1> SUFFICES ASSUME Init PROVE IInv
  OBVIOUS
<1> USE ConstantsAssumption
<1>1. \A p \in Plants : /\ garden[p] \in {<<"added">>, << >>}
                        /\ garden[p] \in Seq({"added", "moved", "removed"})
                        /\ Len(garden[p]) \in Nat
  <2>1. \A p \in Plants : garden[p] = IF p \in Established THEN <<"added">> ELSE << >>
    BY DEF Init
  <2>2. /\ <<"added">> \in Seq({"added", "moved", "removed"}) /\ Len(<<"added">>) \in Nat
        /\ << >> \in Seq({"added", "moved", "removed"}) /\ Len(<< >>) \in Nat
    OBVIOUS
  <2> QED
    BY <2>1, <2>2
<1>2. garden \in [Plants -> Seq({"added", "moved", "removed"})]
  BY <1>1 DEF Init
<1>3. GardenOK
  BY <1>1, <1>2 DEF Init, GardenOK, ShapeOK
<1>4. TablesOK
  BY DEF Init, TablesOK
<1>5. ProcessOK
  BY Values DEF Init, ProcessOK, TaskOK
<1>6. \A p \in Plants : Stream(p) = {} /\ Versions(p) = {}
  BY DEF Init, Stream, Versions
<1>7. StreamOK
  <2>1. 1 .. 0 = {} /\ 0 \in Nat
    OBVIOUS
  <2> QED
    BY <1>6, <2>1 DEF StreamOK
<1>8. KeysOK /\ MirrorAgrees /\ CheckpointsOK /\ LoadedOK /\ FreshOK /\ ReplaySucceeds
  BY DEF Init, KeysOK, MirrorAgrees, CheckpointsOK, LoadedOK, Loaded, FreshOK, ReplaySucceeds
<1> QED
  BY <1>3, <1>4, <1>5, <1>7, <1>8 DEF IInv, TypeInv, HistoryInv

\* Every step keeps the invariant.
LEMMA Step == IInv /\ [Next]_vars => IInv'
<1> SUFFICES ASSUME IInv, [Next]_vars PROVE IInv'
  OBVIOUS
<1>1. ASSUME NEW x \in Processes, AppendConflict(x) PROVE IInv'
  BY <1>1, ConflictKeeps DEF AppendConflict
<1>2. ASSUME NEW x \in Processes, MirrorConflict(x) PROVE IInv'
  BY <1>2, ConflictKeeps DEF MirrorConflict
<1>3. ASSUME UNCHANGED vars PROVE IInv'
  <2>1. UNCHANGED <<garden, waterings, gardenOffset, careOffset, refs, waters, tables, decided,
                    ledger, process>>
    BY <1>3 DEF vars, topics, offsets, bounds, inputs
  <2> QED
    BY <2>1, GardenSame, TablesSame, ProcessSame, HistoryQuiet DEF IInv, TypeInv, process
<1> QED
  BY <1>1, <1>2, <1>3, Cases, GardenChangeKeeps, WateringCompletedKeeps, HandleGardenKeeps,
     DeliverKeeps, SkipClaimedKeeps, DropUnknownKeeps, HandleWateringKeeps, LoadSnapshotKeeps,
     LoadStreamKeeps, AlreadyRecordedKeeps, AppendRowKeeps, CommitEntryKeeps, CrashKeeps,
     AnswerKeeps, AnswerSentKeeps, GetJournalAtDateKeeps, AddJournalEntryKeeps, RebuildKeeps

\* The invariant holds in every state: versions without a gap, one row per
\* version and per entry id, and checkpoints and loaded states that are states
\* the stream went through.
THEOREM Inductive == Spec => []IInv
  BY InitInv, Step, PTL DEF Spec

\* What GetJournalAtDate and the writers read of a journal is a state its stream
\* went through, a replay never fails, and the mirror and the announcements are
\* the events of the store, no more and no fewer.
THEOREM ReadsHistory == Spec => []ReadsAreHistory
<1>1. IInv => ReadsAreHistory
  <2> SUFFICES ASSUME IInv PROVE ReadsAreHistory
    OBVIOUS
  <2>1. TypeOK
    BY DEF IInv, TypeInv, GardenOK, TablesOK, ProcessOK, TypeOK
  <2>2. AnswersAreHistory
    BY DEF IInv, HistoryInv, LoadedOK, AnswersAreHistory, Processes
  <2> QED
    BY <2>1, <2>2 DEF ReadsAreHistory, IInv, HistoryInv
<1> QED
  BY <1>1, Inductive, PTL

-----------------------------------------------------------------------------
(* Refinement *)

\* The entries of rows that are numbered 1 .. n, by their versions.
LogOf(rows) ==
    [v \in 1 .. Cardinality({r.version : r \in rows}) |->
        (CHOOSE r \in rows : r.version = v).id]

\* Its length is the number of rows, and every row is at its version.
LEMMA LogOfIs ==
  ASSUME NEW rows, NEW n \in Nat, {r.version : r \in rows} = 1 .. n,
         \A r, q \in rows : r.version = q.version => r = q
  PROVE  /\ DOMAIN LogOf(rows) = 1 .. n
         /\ LogOf(rows) = [v \in 1 .. n |-> LogOf(rows)[v]]
         /\ \A r \in rows : r.version \in 1 .. n /\ LogOf(rows)[r.version] = r.id
         /\ \A v \in 1 .. n : \E r \in rows : r.version = v
<1>1. Cardinality(1 .. n) = n
  <2>1. Cardinality(1 .. n) = IF 1 > n THEN 0 ELSE n - 1 + 1
    BY FS_Interval
  <2> QED
    BY <2>1
<1>2. LogOf(rows) = [v \in 1 .. n |-> (CHOOSE r \in rows : r.version = v).id]
  BY <1>1 DEF LogOf
<1>3. \A r \in rows : r.version \in 1 .. n
  OBVIOUS
<1>4. \A r \in rows : (CHOOSE q \in rows : q.version = r.version) = r
  OBVIOUS
<1>5. \A v \in 1 .. n : \E r \in rows : r.version = v
  OBVIOUS
<1> QED
  BY <1>2, <1>3, <1>4, <1>5

\* A commit appends its entry to the log of its plant, and to no other.
LEMMA CommitAppends ==
  ASSUME IInv, NEW x \in Processes, CommitEntry(x)
  PROVE  /\ LogOf(StreamAfter(task[x].plant)) = Append(LogOf(Stream(task[x].plant)), task[x].id)
         /\ \A q \in Plants : q # task[x].plant => LogOf(StreamAfter(q)) = LogOf(Stream(q))
         /\ \A q \in Plants : \A v \in DOMAIN LogOf(Stream(q)) : LogOf(Stream(q))[v] # task[x].id
<1> DEFINE p == task[x].plant
           n == aggregate[x].version
           row == event_store_model_from_event(x)
           old == Stream(p)
           new == StreamAfter(p)
<1>1. /\ p \in Plants /\ n \in Nat
      /\ row.stream = p /\ row.version = n + 1 /\ row.id = task[x].id
      /\ event_store' = event_store \cup {row}
      /\ {r.version : r \in old} = 1 .. n
      /\ \A r \in event_store : r.id # task[x].id
      /\ new = old \cup {row}
      /\ \A q \in Plants \ {p} : StreamAfter(q) = Stream(q)
  BY CommitIs DEF Versions
<1>2. {r.version : r \in new} = 1 .. (n + 1)
  BY AddedIs
<1>3. \A q \in Plants : \A r, s \in Stream(q) : r.version = s.version => r = s
  BY DEF IInv, HistoryInv, KeysOK, Stream
<1> HIDE DEF row
<1>4. \A r, s \in new : r.version = s.version => r = s
  <2>1. \A r \in old : r.version \in 1 .. n
    BY <1>1
  <2>2. \A r \in old : r.version # n + 1
    BY <1>1, <2>1
  <2>3. \A r, s \in old : r.version = s.version => r = s
    BY <1>1, <1>3
  <2> QED
    BY <1>1, <2>2, <2>3
<1> HIDE DEF old, new
<1>5. /\ LogOf(old) = [v \in 1 .. n |-> LogOf(old)[v]]
      /\ \A r \in old : LogOf(old)[r.version] = r.id
      /\ \A v \in 1 .. n : \E r \in old : r.version = v
  BY <1>1, <1>3, LogOfIs DEF old
<1>6. /\ LogOf(new) = [v \in 1 .. (n + 1) |-> LogOf(new)[v]]
      /\ \A r \in new : LogOf(new)[r.version] = r.id
  <2>1. n + 1 \in Nat
    BY <1>1
  <2> QED
    BY <1>2, <1>4, <2>1, LogOfIs
<1>7. LogOf(new) = Append(LogOf(old), task[x].id)
  <2>1. LogOf(new)[n + 1] = task[x].id
    BY <1>1, <1>6
  <2>2. \A v \in 1 .. n : LogOf(new)[v] = LogOf(old)[v]
    <3> SUFFICES ASSUME NEW v \in 1 .. n PROVE LogOf(new)[v] = LogOf(old)[v]
      OBVIOUS
    <3>1. PICK r \in old : r.version = v
      BY <1>5
    <3>2. r \in new
      BY <1>1
    <3>3. LogOf(new)[v] = r.id
      BY <1>6, <3>1, <3>2
    <3>4. LogOf(old)[v] = r.id
      BY <1>5, <3>1
    <3> QED
      BY <3>3, <3>4
  <2> DEFINE a == LogOf(old)
             b == LogOf(new)
  <2>3. /\ a = [v \in 1 .. n |-> a[v]] /\ b = [v \in 1 .. (n + 1) |-> b[v]]
        /\ b[n + 1] = task[x].id /\ \A v \in 1 .. n : b[v] = a[v]
    BY <1>5, <1>6, <2>1, <2>2
  <2> HIDE DEF a, b
  <2>4. Len(a) = n
    BY <1>1, <2>3
  <2>5. Append(a, task[x].id) =
          [v \in 1 .. (n + 1) |-> IF v \in 1 .. n THEN a[v] ELSE task[x].id]
    BY <1>1, <2>3, <2>4
  <2>6. b = Append(a, task[x].id)
    <3>1. \A v \in 1 .. (n + 1) : b[v] = IF v \in 1 .. n THEN a[v] ELSE task[x].id
      <4>1. \A v \in 1 .. (n + 1) : v \in 1 .. n \/ v = n + 1
        BY <1>1
      <4>2. n + 1 \notin 1 .. n
        BY <1>1
      <4> QED
        BY <2>3, <4>1, <4>2
    <3>2. b = [v \in 1 .. (n + 1) |-> IF v \in 1 .. n THEN a[v] ELSE task[x].id]
      BY <2>3, <3>1
    <3> QED
      BY <2>5, <3>2
  <2> QED
    BY <2>6 DEF a, b
<1>8. \A q \in Plants : q # p => LogOf(StreamAfter(q)) = LogOf(Stream(q))
  BY <1>1
<1>9. ASSUME NEW q \in Plants, NEW v \in DOMAIN LogOf(Stream(q))
      PROVE  LogOf(Stream(q))[v] # task[x].id
  <2>1. PICK k \in Nat : {r.version : r \in Stream(q)} = 1 .. k
    BY DEF IInv, HistoryInv, StreamOK, Versions
  <2>2. /\ DOMAIN LogOf(Stream(q)) = 1 .. k
        /\ \A r \in Stream(q) : LogOf(Stream(q))[r.version] = r.id
        /\ \A w \in 1 .. k : \E r \in Stream(q) : r.version = w
    BY <2>1, <1>3, LogOfIs
  <2>3. PICK r \in Stream(q) : r.version = v
    BY <1>9, <2>2
  <2>4. r \in event_store
    BY DEF Stream
  <2> QED
    BY <1>1, <2>2, <2>3, <2>4
<1> QED
  BY <1>7, <1>8, <1>9 DEF old, new

\* The rows of the store are written by commits alone.
LEMMA StoreGrows ==
  ASSUME [Next]_vars
  PROVE  \/ event_store' = event_store
         \/ \E x \in Processes : CommitEntry(x)
<1> DEFINE P == event_store' = event_store \/ \E x \in Processes : CommitEntry(x)
<1> SUFFICES P
  OBVIOUS
<1>1. ASSUME UNCHANGED tables PROVE P
  BY <1>1 DEF tables
<1>2. ASSUME NEW x \in Processes, CommitEntry(x) PROVE P
  BY <1>2
<1>3. ASSUME UNCHANGED vars PROVE P
  BY <1>3 DEF vars, tables
<1> HIDE DEF P
<1>4. \A p \in Plants : AddPlant(p) \/ MovePlant(p) \/ RemovePlant(p) \/ WateringCompleted(p) => P
  BY <1>1 DEF AddPlant, MovePlant, RemovePlant, WateringCompleted
<1>5. \A m \in Processes, p \in Plants : HandleGarden(m, p) \/ Deliver(m, p) => P
  BY <1>1 DEF HandleGarden, Deliver
<1>6. \A m \in Processes : SkipClaimed(m) \/ DropUnknown(m) \/ HandleWatering(m) \/ Crash(m) => P
  BY <1>1 DEF SkipClaimed, DropUnknown, HandleWatering, Crash
<1>7. \A x \in Processes : LoadSnapshot(x) \/ LoadStream(x) \/ AlreadyRecorded(x) \/ AppendRow(x) => P
  BY <1>1 DEF LoadSnapshot, LoadStream, AlreadyRecorded, AppendRow
<1>8. \A x \in Processes : AppendConflict(x) \/ MirrorConflict(x) \/ Answer(x) \/ AnswerSent(x) => P
  BY <1>1 DEF AppendConflict, MirrorConflict, Answer, AnswerSent
<1>9. /\ \A c \in Processes, p \in Plants, t \in Moments : GetJournalAtDate(c, p, t) => P
      /\ \A c \in Processes, p \in Plants, e \in ClientIds, t \in CareMoments :
            AddJournalEntry(c, p, e, t) => P
      /\ Rebuild => P
  BY <1>1 DEF GetJournalAtDate, AddJournalEntry, Rebuild
<1> QED
  BY <1>2, <1>3, <1>4, <1>5, <1>6, <1>7, <1>8, <1>9, Cases

\* A commit is an Add of the journal, every other step leaves it alone.
LEMMA RefinementStep ==
  IInv /\ [Next]_vars => [JournalSpec!Next]_([p \in Plants |-> Log(p)])
<1> SUFFICES ASSUME IInv, [Next]_vars
             PROVE  [JournalSpec!Next]_([p \in Plants |-> Log(p)])
  OBVIOUS
<1>1. \A p \in Plants : Log(p) = LogOf(Stream(p)) /\ Log(p)' = LogOf(StreamAfter(p))
  BY DEF Log, LogOf, Stream, StreamAfter
<1>2. CASE event_store' = event_store
  <2>1. \A p \in Plants : StreamAfter(p) = Stream(p)
    BY <1>2 DEF Stream, StreamAfter
  <2>2. [p \in Plants |-> Log(p)]' = [p \in Plants |-> Log(p)]
    BY <1>1, <2>1
  <2> QED
    BY <2>2
<1>3. ASSUME NEW x \in Processes, CommitEntry(x)
      PROVE  JournalSpec!Next
  <2>1. task[x].plant \in Plants /\ task[x].id \in EntryIds
    BY <1>3, CommitIs
  <2>2. PICK p \in Plants, e \in EntryIds : p = task[x].plant /\ e = task[x].id
    BY <2>1
  <2>3. /\ LogOf(StreamAfter(p)) = Append(LogOf(Stream(p)), e)
        /\ \A q \in Plants : q # p => LogOf(StreamAfter(q)) = LogOf(Stream(q))
        /\ \A q \in Plants : \A v \in DOMAIN LogOf(Stream(q)) : LogOf(Stream(q))[v] # e
    BY <1>3, <2>2, CommitAppends
  <2>4. [q \in Plants |-> Log(q)]' = [[q \in Plants |-> Log(q)] EXCEPT ![p] = Append(@, e)]
    BY <1>1, <2>3
  <2>5. \A q \in Plants : e \notin {Log(q)[v] : v \in DOMAIN Log(q)}
    BY <1>1, <2>3
  <2>6. JournalSpec!Add(p, e)
    BY <2>4, <2>5 DEF JournalSpec!Add, JournalSpec!Entries
  <2> QED
    BY <2>6 DEF JournalSpec!Next
<1> QED
  BY <1>2, <1>3, StoreGrows

\* The committed rows implement JournalLog: for every plant an append-only log in
\* which an entry appears once and in one plant's log only, although writers
\* race, deliveries are repeated and the group is rebuilt without its ledger.
THEOREM Implements == Spec => ImplementsJournal
<1>1. Init => JournalSpec!Init
  <2> SUFFICES ASSUME Init PROVE JournalSpec!Init
    OBVIOUS
  <2>1. ASSUME NEW p \in Plants PROVE Log(p) = << >>
    <3>1. Stream(p) = {}
      BY DEF Init, Stream
    <3>2. Cardinality({r.version : r \in Stream(p)}) = 0
      BY <3>1, FS_EmptySet
    <3>3. 1 .. 0 = {}
      OBVIOUS
    <3>4. Log(p) = [v \in {} |-> (CHOOSE r \in Stream(p) : r.version = v).id]
      BY <3>2, <3>3 DEF Log
    <3>5. << >> = [v \in {} |-> (CHOOSE r \in Stream(p) : r.version = v).id]
      OBVIOUS
    <3> QED
      BY <3>4, <3>5
  <2> QED
    BY <2>1 DEF JournalSpec!Init
<1> QED
  BY <1>1, RefinementStep, Inductive, PTL DEF Spec, ImplementsJournal, JournalSpec!Spec

-----------------------------------------------------------------------------
\* The references of the group move forward only, whatever part of the garden's
\* topic is read again: upsert keeps a row that is newer than the event.
THEOREM RefsForward == Spec => RefsNeverWalkBack
<1> DEFINE Forward == \A p \in Plants : refs[p] # NoRef /\ refs'[p] # NoRef => refs'[p] >= refs[p]
<1>1. IInv /\ [Next]_vars => [Forward]_vars
  <2> SUFFICES ASSUME IInv, [Next]_vars PROVE Forward \/ UNCHANGED vars
    OBVIOUS
  <2>1. \A p \in Plants : refs[p] \in Nat
    BY DEF IInv, TypeInv, GardenOK, ShapeOK
  <2>2. ASSUME UNCHANGED refs PROVE Forward
    BY <2>1, <2>2
  <2>3. ASSUME NEW m \in Processes, NEW p \in Plants, HandleGarden(m, p) PROVE Forward
    <3> DEFINE n == gardenOffset[p] + 1
    <3>1. Len(garden[p]) \in Nat /\ gardenOffset[p] \in Nat
      BY DEF IInv, TypeInv, GardenOK, ShapeOK
    <3>2. n \in 1 .. Len(garden[p]) /\ n \in Nat
      BY <2>3, <3>1 DEF HandleGarden
    <3>3. garden[p][n] \in {"added", "moved", "removed"}
      <4>1. garden[p] \in Seq({"added", "moved", "removed"})
        BY DEF IInv, TypeInv, GardenOK
      <4> QED
        BY <3>2, <4>1
    <3>4. refs' = [refs EXCEPT ![p] = Maintained(p, n)]
      BY <2>3 DEF HandleGarden
    <3> HIDE DEF n
    <3>5. Maintained(p, n) \in Nat
          /\ (refs[p] # NoRef /\ Maintained(p, n) # NoRef => Maintained(p, n) >= refs[p])
      BY <2>1, <3>2, <3>3 DEF Maintained, upsert, NoRef
    <3>6. \A q \in Plants : refs'[q] = IF q = p THEN Maintained(p, n) ELSE refs[q]
      BY <3>4 DEF IInv, TypeInv, GardenOK, ShapeOK
    <3> QED
      BY <2>1, <3>5, <3>6
  <2> HIDE DEF Forward
  <2> DEFINE P == Forward \/ UNCHANGED vars
  <2>4. UNCHANGED refs => P
    BY <2>2
  <2>5. \A m \in Processes, p \in Plants : HandleGarden(m, p) => P
    BY <2>3
  <2>6. UNCHANGED vars => P
    OBVIOUS
  <2> HIDE DEF P
  <2>7. \A p \in Plants : AddPlant(p) \/ MovePlant(p) \/ RemovePlant(p) \/ WateringCompleted(p) => P
    BY <2>4 DEF AddPlant, MovePlant, RemovePlant, WateringCompleted
  <2>8. \A m \in Processes, p \in Plants : Deliver(m, p) => P
    BY <2>4 DEF Deliver
  <2>9. \A m \in Processes : SkipClaimed(m) \/ DropUnknown(m) \/ HandleWatering(m) \/ Crash(m) => P
    BY <2>4 DEF SkipClaimed, DropUnknown, HandleWatering, Crash
  <2>10. \A x \in Processes : LoadSnapshot(x) \/ LoadStream(x) \/ AlreadyRecorded(x) \/ AppendRow(x)
                              \/ CommitEntry(x) => P
    BY <2>4 DEF LoadSnapshot, LoadStream, AlreadyRecorded, AppendRow, CommitEntry
  <2>11. \A x \in Processes : AppendConflict(x) \/ MirrorConflict(x) \/ Answer(x) \/ AnswerSent(x) => P
    BY <2>4 DEF AppendConflict, MirrorConflict, Answer, AnswerSent
  <2>12. /\ \A c \in Processes, p \in Plants, t \in Moments : GetJournalAtDate(c, p, t) => P
         /\ \A c \in Processes, p \in Plants, e \in ClientIds, t \in CareMoments :
               AddJournalEntry(c, p, e, t) => P
         /\ Rebuild => P
    BY <2>4 DEF GetJournalAtDate, AddJournalEntry, Rebuild
  <2>13. P
    BY <2>5, <2>6, <2>7, <2>8, <2>9, <2>10, <2>11, <2>12, Cases
  <2> QED
    BY <2>13 DEF P
<1> QED
  BY <1>1, Inductive, PTL DEF Spec, RefsNeverWalkBack
=============================================================================
