--------------------------- MODULE TelemetryProofs ---------------------------
(***************************************************************************)
(* Proofs about Telemetry for every set of sensors, ingesters and jobs,    *)
(* every threshold, window and bound, and about TelemetryPartitions, the   *)
(* storage below it, for every length of the year, window and bound.       *)
(***************************************************************************)
EXTENDS Telemetry, TelemetryPartitions, FiniteSetTheorems, TLAPS

-----------------------------------------------------------------------------
(* The inductive invariant *)

AlertTypes == {"soil_moisture_low", "soil_moisture_high", "temperature_anomaly"}
Types == AlertTypes \cup {"received", "offline"}

\* A measurement, or what stands for it in an event that carries none.
Payload == Measurements \cup {CHOOSE m \in Measurements : TRUE}
Events == [type : Types, sensor : Sensors, at : Times, seen : 0 .. MaxTime, m : Payload]

\* The k-th event of the log o is a reading of sensor s, or announces its silence.
Rec(o, k, s) == o[k].type = "received" /\ o[k].sensor = s
Off(o, k, s) == o[k].type = "offline" /\ o[k].sensor = s
Alarm(o, k, s) == o[k].type \in AlertTypes /\ o[k].sensor = s

\* The reading of the j-th event is newer than all readings of s before it.
Newer(o, j, s) == Rec(o, j, s) /\ \A i \in 1 .. j - 1 : Rec(o, i, s) => o[i].at < o[j].at

\* After the first p events s has been offline since t, or is not offline.
OfflineAt(o, s, p, t) ==
    \/ /\ t = Never
       /\ \A k \in 1 .. p : Off(o, k, s) => \E j \in k + 1 .. p : Newer(o, j, s)
    \/ /\ t # Never
       /\ \E k \in 1 .. p : /\ Off(o, k, s) /\ o[k].at = t
                            /\ \A j \in k + 1 .. p : ~Off(o, j, s) /\ ~Newer(o, j, s)

\* t is the newest moment of the readings, or the alerts, of s among the first p.
NewestReading(o, s, p, t) ==
    /\ \A k \in 1 .. p : Rec(o, k, s) => o[k].at <= t
    /\ t # Never => \E k \in 1 .. p : Rec(o, k, s) /\ o[k].at = t

NewestAlert(o, s, p, t) ==
    /\ \A k \in 1 .. p : Alarm(o, k, s) => o[k].at <= t
    /\ t # Never => \E k \in 1 .. p : Alarm(o, k, s) /\ o[k].at = t

Reading == [pc : {"read"}, sensor : Sensors, n : Nat, row : SensorModel]
Listing == [pc : {"listed"}, now : Times, rows : UNION {[D -> SensorModel] : D \in SUBSET Sensors}]

\* What each process may hold.
ShapeInv ==
    /\ now \in Times
    /\ raw \in [Sensors -> Seq({NoMessage} \cup RawReading)]
    /\ offset \in [Sensors -> Nat] /\ \A s \in Sensors : offset[s] <= Len(raw[s])
    /\ sensors \in [Sensors -> {NoRow} \cup SensorModel]
    /\ readings \subseteq SensorReadingModel
    /\ outbox \in Seq(Events) /\ projected \in 0 .. Len(outbox)
    /\ ingest \in [Ingesters -> {Idle} \cup Reading]
    /\ \A i \in Ingesters : ingest[i] # Idle =>
         ingest[i].n \in 1 .. Len(raw[ingest[i].sensor]) /\ Message(i) \in RawReading
    /\ job \in [SilenceJobs -> {Idle} \cup Listing]
    /\ removed \subseteq Sensors /\ lost \in BOOLEAN

\* Readings and their events correspond, one to one, and a key is stored once.
StoredInv ==
    /\ \A k \in 1 .. Len(outbox) : outbox[k].type = "received" =>
         [sensor |-> outbox[k].sensor, at |-> outbox[k].at, m |-> outbox[k].m] \in readings
    /\ \A r \in readings : \E k \in 1 .. Len(outbox) :
         Rec(outbox, k, r.sensor) /\ outbox[k].at = r.at /\ outbox[k].m = r.m
    /\ \A j, k \in 1 .. Len(outbox) :
         (/\ outbox[j].type = "received" /\ outbox[k].type = "received"
          /\ outbox[j].sensor = outbox[k].sensor /\ outbox[j].at = outbox[k].at)
           => j = k

\* A row's last reading is a stored one.
Seen(s, row) ==
    row.last_seen_at # Never => \E r \in readings : r.sensor = s /\ r.at = row.last_seen_at

\* ... in the table and in what the processes have read of it; the job's rows
\* were silent and not announced.
SeenInv ==
    /\ \A s \in Sensors : sensors[s] # NoRow => Seen(s, sensors[s])
    /\ \A i \in Ingesters : ingest[i] # Idle => Seen(ingest[i].sensor, ingest[i].row)
    /\ \A j \in SilenceJobs : job[j] # Idle =>
         \A s \in DOMAIN job[j].rows :
           /\ Seen(s, job[j].rows[s])
           /\ job[j].rows[s].last_seen_at # Never
           /\ job[j].rows[s].offline_announced_at = Never

\* Alerts and silences are announced after a reading of their sensor.
PrecededInv ==
    \A k \in 1 .. Len(outbox) : outbox[k].type # "received" =>
      \E j \in 1 .. k - 1 : Rec(outbox, j, outbox[k].sensor)

\* Of a sensor that was never registered there is no event, and nobody holds it.
KnownInv ==
    \A s \in Sensors \ removed : sensors[s] = NoRow =>
      /\ \A k \in 1 .. Len(outbox) : outbox[k].sensor # s
      /\ \A i \in Ingesters : ingest[i] # Idle => ingest[i].sensor # s
      /\ \A j \in SilenceJobs : job[j] # Idle => s \notin DOMAIN job[j].rows

\* The row of a sensor agrees with what was announced of it.
RowAgrees(s) ==
    /\ NewestReading(outbox, s, Len(outbox), sensors[s].last_seen_at)
    /\ \A k \in 1 .. Len(outbox) : Off(outbox, k, s) =>
         /\ outbox[k].seen <= sensors[s].last_seen_at
         /\ outbox[k].seen = sensors[s].last_seen_at => sensors[s].offline_announced_at # Never
    /\ \A j, k \in 1 .. Len(outbox) :
         j # k /\ Off(outbox, j, s) /\ Off(outbox, k, s) => outbox[j].seen # outbox[k].seen
    /\ OfflineAt(outbox, s, Len(outbox), sensors[s].offline_announced_at)

SilenceInv == ~lost => \A s \in Sensors \ removed : sensors[s] # NoRow => RowAgrees(s)

LatestRow == [recorded_at : 0 .. MaxTime, offline_at : 0 .. MaxTime, last_alert_at : 0 .. MaxTime]

\* The latest row shows what the projected events say.
LatestInv ==
    /\ latest \in [Sensors -> LatestRow]
    /\ \A s \in Sensors :
         /\ latest[s].recorded_at = Never => latest[s] = NoLatest
         /\ NewestReading(outbox, s, projected, latest[s].recorded_at)
         /\ NewestAlert(outbox, s, projected, latest[s].last_alert_at)
         /\ OfflineAt(outbox, s, projected, latest[s].offline_at)

\* The readings of a window among the first p events.
Window(o, p, w) ==
    {e \in {o[k] : k \in {k \in 1 .. p : Rec(o, k, w[1])}} : window_start(e.at) = w[2]}

Windows == Sensors \X (0 .. MaxTime)
Rollup == [count : Nat, sum : Int, min : Int, max : Int]

\* The sum a window keeps.
Total(E) == MapThenSumSet(LAMBDA e : e.m.moisture, E)

\* A rollup is exact for its window, in a form that says what min and max are.
RollupInv ==
    /\ rollups \in [Windows -> Rollup]
    /\ \A w \in Windows :
         LET in == Window(outbox, projected, w) IN
         /\ IsFiniteSet(in) /\ rollups[w].count = Cardinality(in)
         /\ rollups[w].sum = Total(in)
         /\ \A e \in in : rollups[w].min <= e.m.moisture /\ e.m.moisture <= rollups[w].max
         /\ in # {} => /\ \E e \in in : e.m.moisture = rollups[w].min
                       /\ \E e \in in : e.m.moisture = rollups[w].max

\* Nothing is written to the end of the log but what is appended.
Prefix(o, q) ==
    o \in Seq(Events) /\ q \in Seq(Events) /\ Len(o) <= Len(q) /\ \A k \in 1 .. Len(o) : q[k] = o[k]

\* What every step keeps.
IInv ==
    /\ ShapeInv /\ StoredInv /\ SeenInv /\ PrecededInv
    /\ KnownInv /\ SilenceInv /\ LatestInv /\ RollupInv

-----------------------------------------------------------------------------
(* The log *)

\* Appending leaves what was there where it was.
LEMMA Appended ==
  ASSUME NEW o \in Seq(Events), NEW es \in Seq(Events)
  PROVE  /\ Prefix(o, o \o es) /\ Len(o \o es) = Len(o) + Len(es)
         /\ \A k \in Len(o) + 1 .. Len(o) + Len(es) :
              k - Len(o) \in 1 .. Len(es) /\ (o \o es)[k] = es[k - Len(o)]
BY DEF Prefix

\* Positions of a log hold events.
LEMMA Entry ==
  ASSUME NEW o \in Seq(Events), NEW k \in 1 .. Len(o)
  PROVE  /\ o[k] \in Events /\ o[k].type \in Types /\ o[k].sensor \in Sensors
         /\ o[k].at \in Times /\ o[k].seen \in 0 .. MaxTime
         /\ o[k].at \in Nat /\ o[k].seen \in Nat /\ o[k].at # Never
<1>1. o[k] \in Events
  OBVIOUS
<1>2. MaxTime \in Nat
  BY ConstantsAssumption
<1> QED
  BY <1>1, <1>2 DEF Events, Times, Never

\* What holds of the first events holds of them in the longer log.
LEMMA PrefixSame ==
  ASSUME NEW o, NEW q, Prefix(o, q), NEW s, NEW p \in 0 .. Len(o), NEW t
  PROVE  /\ \A j \in 1 .. Len(o) : Newer(q, j, s) <=> Newer(o, j, s)
         /\ OfflineAt(o, s, p, t) <=> OfflineAt(q, s, p, t)
         /\ NewestReading(o, s, p, t) <=> NewestReading(q, s, p, t)
         /\ NewestAlert(o, s, p, t) <=> NewestAlert(q, s, p, t)
<1>1. /\ Len(o) \in Nat /\ p \in Nat /\ \A k \in 1 .. Len(o) : q[k] = o[k]
      /\ \A k \in 1 .. p : k \in 1 .. Len(o)
      /\ \A k \in 1 .. p : \A j \in k + 1 .. p : j \in 1 .. Len(o) /\ j \in 1 .. p
      /\ \A k \in 1 .. Len(o) : \A j \in 1 .. k - 1 : j \in 1 .. Len(o)
  BY DEF Prefix
<1>2. \A j \in 1 .. Len(o) :
        /\ Off(q, j, s) <=> Off(o, j, s)
        /\ Rec(q, j, s) <=> Rec(o, j, s)
        /\ Alarm(q, j, s) <=> Alarm(o, j, s)
  BY <1>1 DEF Off, Rec, Alarm
<1>3. \A j \in 1 .. Len(o) : Newer(q, j, s) <=> Newer(o, j, s)
  BY <1>1, <1>2 DEF Newer
<1>4. OfflineAt(o, s, p, t) <=> OfflineAt(q, s, p, t)
  BY <1>1, <1>2, <1>3 DEF OfflineAt
<1>5. /\ NewestReading(o, s, p, t) <=> NewestReading(q, s, p, t)
      /\ NewestAlert(o, s, p, t) <=> NewestAlert(q, s, p, t)
  BY <1>1, <1>2 DEF NewestReading, NewestAlert
<1> QED
  BY <1>3, <1>4, <1>5

\* Events that neither announce a silence of s nor are newer readings of it
\* leave its state as it is.
LEMMA OfflineQuiet ==
  ASSUME NEW o, NEW s, NEW p \in Nat, NEW q \in Nat, p <= q, NEW t, OfflineAt(o, s, p, t),
         \A j \in p + 1 .. q : ~Off(o, j, s) /\ ~Newer(o, j, s)
  PROVE  OfflineAt(o, s, q, t)
<1>1. CASE t = Never
  BY <1>1 DEF OfflineAt
<1>2. CASE t # Never
  <2>1. PICK k \in 1 .. p : /\ Off(o, k, s) /\ o[k].at = t
                            /\ \A j \in k + 1 .. p : ~Off(o, j, s) /\ ~Newer(o, j, s)
    BY <1>2 DEF OfflineAt
  <2>2. k \in 1 .. q /\ \A j \in k + 1 .. q : j \in k + 1 .. p \/ j \in p + 1 .. q
    BY <2>1
  <2> QED
    BY <1>2, <2>1, <2>2 DEF OfflineAt
<1> QED
  BY <1>1, <1>2

\* A newer reading ends every silence announced before it.
LEMMA OfflineBack ==
  ASSUME NEW o, NEW s, NEW p \in Nat, NEW q \in Nat, p <= q, NEW j \in p + 1 .. q, Newer(o, j, s),
         \A k \in p + 1 .. q : ~Off(o, k, s)
  PROVE  OfflineAt(o, s, q, Never)
<1>1. \A k \in 1 .. q : Off(o, k, s) => j \in k + 1 .. q
  OBVIOUS
<1> QED
  BY <1>1 DEF OfflineAt

\* A silence announced last lasts.
LEMMA OfflineNow ==
  ASSUME NEW o, NEW s, NEW q \in Nat, NEW k \in 1 .. q, Off(o, k, s), o[k].at # Never,
         \A j \in k + 1 .. q : ~Off(o, j, s) /\ ~Newer(o, j, s)
  PROVE  OfflineAt(o, s, q, o[k].at)
BY DEF OfflineAt

\* The events determine since when a sensor is offline.
LEMMA OfflineOne ==
  ASSUME NEW o, NEW s, NEW p \in Nat, NEW t, NEW u, OfflineAt(o, s, p, t), OfflineAt(o, s, p, u)
  PROVE  t = u
<1>1. ASSUME NEW a, NEW b, OfflineAt(o, s, p, a), OfflineAt(o, s, p, b), a # Never
      PROVE  a = b
  <2>1. PICK k \in 1 .. p : /\ Off(o, k, s) /\ o[k].at = a
                            /\ \A j \in k + 1 .. p : ~Off(o, j, s) /\ ~Newer(o, j, s)
    BY <1>1 DEF OfflineAt
  <2>2. b # Never
    BY <1>1, <2>1 DEF OfflineAt
  <2>3. PICK i \in 1 .. p : /\ Off(o, i, s) /\ o[i].at = b
                            /\ \A j \in i + 1 .. p : ~Off(o, j, s) /\ ~Newer(o, j, s)
    BY <1>1, <2>2 DEF OfflineAt
  <2>4. ~(i \in k + 1 .. p) /\ ~(k \in i + 1 .. p)
    BY <2>1, <2>3
  <2>5. i = k
    BY <2>4
  <2> QED
    BY <2>1, <2>3, <2>5
<1> QED
  BY <1>1

-----------------------------------------------------------------------------
(* Sums over a finite set *)

\* Among subsets of a finite set there is one with no smaller one below it: the
\* induction that the lemmas about sums rest on.
LEMMA LeastSet ==
  ASSUME NEW E, IsFiniteSet(E), NEW Z, Z \subseteq SUBSET E, Z # {}
  PROVE  \E S \in Z : \A R \in Z : R \subseteq S => R = S
<1>1. IsWellFoundedOn(StrictSubsetOrdering(E), SUBSET E)
  BY FS_StrictSubsetOrderingWellFounded, FS_FiniteSubsetsOfFinite
<1>2. PICK S \in Z : \A R \in Z : ~ (<<R, S>> \in StrictSubsetOrdering(E))
  BY <1>1, WFMin
<1>3. ASSUME NEW R \in Z, R \subseteq S, R # S PROVE FALSE
  <2>1. <<R, S>> \in (SUBSET E) \X (SUBSET E)
    BY <1>2, <1>3
  <2>2. <<R, S>> \in StrictSubsetOrdering(E)
    BY <1>3, <2>1 DEF StrictSubsetOrdering
  <2> QED
    BY <1>2, <2>2
<1> QED
  BY <1>2, <1>3

\* One member of a set.
AnyOf(S) == CHOOSE x \in S : TRUE

\* f is the sum of every subset of E, one member after the other.
Sums(f, E) ==
    f = [S \in SUBSET E |-> IF S = {} THEN 0 ELSE AnyOf(S).m.moisture + f[S \ {AnyOf(S)}]]

\* What the recursion says of a subset.
LEMMA SumsOf ==
  ASSUME NEW E, NEW f, Sums(f, E), NEW S, S \subseteq E
  PROVE  /\ S = {} => f[S] = 0
         /\ S # {} => /\ AnyOf(S) \in S /\ S \ {AnyOf(S)} \subseteq E
                      /\ f[S] = AnyOf(S).m.moisture + f[S \ {AnyOf(S)}]
<1>1. S # {} => AnyOf(S) \in S
  BY DEF AnyOf
<1>2. f[S] = IF S = {} THEN 0 ELSE AnyOf(S).m.moisture + f[S \ {AnyOf(S)}]
  BY DEF Sums
<1> QED
  BY <1>1, <1>2

\* The sum of a set does not depend on the set it is a subset of.
LEMMA SumsAgree ==
  ASSUME NEW D, NEW E, IsFiniteSet(D), D \subseteq E, NEW f, NEW g, Sums(f, D), Sums(g, E),
         NEW S, S \subseteq D
  PROVE  f[S] = g[S]
<1> DEFINE Z == {R \in SUBSET D : f[R] # g[R]}
<1> SUFFICES ASSUME Z # {} PROVE FALSE
  OBVIOUS
<1>1. PICK R \in Z : \A Q \in Z : Q \subseteq R => Q = R
  <2>1. Z \subseteq SUBSET D
    OBVIOUS
  <2> HIDE DEF Z
  <2> QED
    BY <2>1, LeastSet
<1>2. R \subseteq D /\ R \subseteq E /\ f[R] # g[R]
  BY <1>1
<1>3. R # {}
  BY <1>2, SumsOf
<1>4. /\ AnyOf(R) \in R /\ f[R] = AnyOf(R).m.moisture + f[R \ {AnyOf(R)}]
      /\ g[R] = AnyOf(R).m.moisture + g[R \ {AnyOf(R)}]
  BY <1>2, <1>3, SumsOf
<1>5. R \ {AnyOf(R)} \in SUBSET D /\ R \ {AnyOf(R)} # R
  BY <1>2, <1>4
<1>6. f[R \ {AnyOf(R)}] = g[R \ {AnyOf(R)}]
  BY <1>1, <1>5
<1> QED
  BY <1>2, <1>4, <1>6

\* The sums exist.
LEMMA SumsExist ==
  ASSUME NEW E, IsFiniteSet(E)
  PROVE  \E f : Sums(f, E)
<1> DEFINE Z == {D \in SUBSET E : ~\E f : Sums(f, D)}
<1> SUFFICES ASSUME Z # {} PROVE FALSE
  OBVIOUS
<1>1. PICK D \in Z : \A Q \in Z : Q \subseteq D => Q = D
  <2>1. Z \subseteq SUBSET E
    OBVIOUS
  <2> HIDE DEF Z
  <2> QED
    BY <2>1, LeastSet
<1>2. D \subseteq E /\ (~\E f : Sums(f, D)) /\ IsFiniteSet(D)
  BY <1>1, FS_Subset
<1> DEFINE G(S) == CHOOSE f : Sums(f, S)
<1>3. ASSUME NEW S, S \subseteq D, S # D PROVE Sums(G(S), S) /\ IsFiniteSet(S)
  <2>1. \E f : Sums(f, S)
    BY <1>1, <1>2, <1>3
  <2> QED
    BY <1>2, <1>3, <2>1, FS_Subset
<1> HIDE DEF G
<1> DEFINE f == [S \in SUBSET D |->
                   IF S = {} THEN 0
                   ELSE AnyOf(S).m.moisture + G(S \ {AnyOf(S)})[S \ {AnyOf(S)}]]
<1>4. ASSUME NEW S, S \subseteq D, S # D PROVE f[S] = G(S)[S]
  <2>1. Sums(G(S), S) /\ IsFiniteSet(S)
    BY <1>3, <1>4
  <2>2. CASE S = {}
    BY <2>1, <2>2, SumsOf
  <2>3. CASE S # {}
    <3> DEFINE R == S \ {AnyOf(S)}
    <3>1. AnyOf(S) \in S /\ G(S)[S] = AnyOf(S).m.moisture + G(S)[R]
      BY <2>1, <2>3, SumsOf
    <3>2. R \subseteq S /\ R \subseteq D /\ R # D
      BY <1>4, <3>1
    <3>3. Sums(G(R), R) /\ IsFiniteSet(R)
      BY <1>3, <3>2
    <3>4. G(R)[R] = G(S)[R]
      BY <2>1, <3>2, <3>3, SumsAgree
    <3>5. f[S] = AnyOf(S).m.moisture + G(R)[R]
      BY <1>4, <2>3
    <3> QED
      BY <3>1, <3>4, <3>5
  <2> QED
    BY <2>2, <2>3
<1>5. ASSUME NEW S \in SUBSET D, S # {}
      PROVE  f[S] = AnyOf(S).m.moisture + f[S \ {AnyOf(S)}]
  <2> DEFINE R == S \ {AnyOf(S)}
  <2>1. AnyOf(S) \in S
    BY <1>5 DEF AnyOf
  <2>2. R \subseteq D /\ R # D
    BY <2>1
  <2>3. f[R] = G(R)[R]
    BY <1>4, <2>2
  <2>4. f[S] = AnyOf(S).m.moisture + G(R)[R]
    BY <1>5
  <2> QED
    BY <2>3, <2>4
<1>6. f[{}] = 0 /\ DOMAIN f = SUBSET D
  OBVIOUS
<1>7. f = [S \in SUBSET D |-> f[S]]
  OBVIOUS
<1> HIDE DEF f
<1>8. f = [S \in SUBSET D |-> IF S = {} THEN 0 ELSE AnyOf(S).m.moisture + f[S \ {AnyOf(S)}]]
  BY <1>5, <1>6, <1>7
<1>9. Sums(f, D)
  BY <1>8 DEF Sums
<1> QED
  BY <1>2, <1>9

\* A sum may be taken in any order: any member can come first.
LEMMA SumsAnyOrder ==
  ASSUME NEW E, IsFiniteSet(E), \A e \in E : e.m.moisture \in Int, NEW f, Sums(f, E),
         NEW S, S \subseteq E
  PROVE  f[S] \in Int /\ \A x \in S : f[S] = x.m.moisture + f[S \ {x}]
<1> DEFINE Good(R) == f[R] \in Int /\ \A x \in R : f[R] = x.m.moisture + f[R \ {x}]
           Z == {R \in SUBSET E : ~Good(R)}
<1> SUFFICES ASSUME Z # {} PROVE FALSE
  OBVIOUS
<1>1. PICK R \in Z : \A Q \in Z : Q \subseteq R => Q = R
  <2>1. Z \subseteq SUBSET E
    OBVIOUS
  <2> HIDE DEF Z
  <2> QED
    BY <2>1, LeastSet
<1>2. R \subseteq E /\ ~Good(R)
  BY <1>1
<1>3. \A x \in R : Good(R \ {x})
  <2> TAKE x \in R
  <2>1. R \ {x} \in SUBSET E /\ R \ {x} \subseteq R /\ R \ {x} # R
    BY <1>2
  <2> HIDE DEF Good
  <2> QED
    BY <1>1, <2>1
<1>4. R # {}
  <2> SUFFICES ASSUME R = {} PROVE FALSE
    OBVIOUS
  <2>1. f[R] = 0
    BY <1>2, SumsOf
  <2>2. Good(R)
    BY <2>1
  <2> QED
    BY <1>2, <2>2
<1> DEFINE c == AnyOf(R)
<1>5. c \in R /\ f[R] = c.m.moisture + f[R \ {c}] /\ c.m.moisture \in Int
  <2>1. c \in R /\ f[R] = c.m.moisture + f[R \ {c}]
    <3> HIDE DEF Good
    <3> QED
      BY <1>2, <1>4, SumsOf
  <2> QED
    BY <1>2, <2>1
<1> HIDE DEF c
<1>6. f[R \ {c}] \in Int /\ f[R] \in Int
  BY <1>3, <1>5
<1>7. ASSUME NEW x \in R PROVE f[R] = x.m.moisture + f[R \ {x}]
  <2>1. CASE x = c
    BY <1>5, <2>1
  <2>2. CASE x # c
    <3> DEFINE Q == (R \ {c}) \ {x}
    <3>1. x \in R \ {c} /\ c \in R \ {x} /\ (R \ {x}) \ {c} = Q /\ x.m.moisture \in Int
      BY <1>2, <1>5, <2>2
    <3>2. f[R \ {c}] = x.m.moisture + f[Q]
      BY <1>3, <1>5, <3>1
    <3>3. f[R \ {x}] = c.m.moisture + f[Q] /\ f[R \ {x}] \in Int
      BY <1>3, <3>1
    <3>4. f[Q] \in Int
      <4>1. Q \subseteq R /\ Q # R /\ Q \in SUBSET E
        BY <1>2, <3>1
      <4>2. Good(Q)
        <5> HIDE DEF Good
        <5> QED
          BY <1>1, <4>1
      <4> QED
        BY <4>2
    <3> HIDE DEF Q
    <3> QED
      BY <1>5, <3>1, <3>2, <3>3, <3>4
  <2> QED
    BY <2>1, <2>2
<1> QED
  BY <1>2, <1>6, <1>7

\* The community module's sum is this recursion.
LEMMA TotalIsSum ==
  ASSUME NEW E, IsFiniteSet(E)
  PROVE  \E f : Sums(f, E) /\ Total(E) = f[E]
<1> DEFINE g == CHOOSE f : f = [S \in SUBSET E |->
                     IF S = {} THEN 0 ELSE AnyOf(S).m.moisture + f[S \ {AnyOf(S)}]]
<1>1. Sums(g, E)
  BY SumsExist DEF Sums
<1>2. Total(E) = g[E]
  BY DEF Total, MapThenSumSet, MapThenFoldSet, AnyOf
<1> QED
  BY <1>1, <1>2

\* One more reading adds its moisture, whichever readings were there before.
LEMMA TotalGrows ==
  ASSUME NEW E, IsFiniteSet(E), \A e \in E : e.m.moisture \in Int,
         NEW x, x \notin E, x.m.moisture \in Int
  PROVE  Total(E) \in Int /\ Total(E \cup {x}) = Total(E) + x.m.moisture
<1>1. PICK D : D = E \cup {x}
  OBVIOUS
<1>2. IsFiniteSet(D) /\ \A e \in D : e.m.moisture \in Int
  BY <1>1, FS_AddElement
<1>3. E \subseteq D /\ D \subseteq D /\ E \subseteq E
  BY <1>1
<1>4. PICK f : Sums(f, E) /\ Total(E) = f[E]
  BY TotalIsSum
<1>5. PICK g : Sums(g, D) /\ Total(D) = g[D]
  BY <1>2, TotalIsSum
<1>6. Sums(f, E) /\ Sums(g, D)
  BY <1>4, <1>5
<1>7. f[E] = g[E]
  BY ONLY IsFiniteSet(E), <1>3, <1>6, SumsAgree
<1>8. \A y \in D : g[D] = y.m.moisture + g[D \ {y}]
  BY ONLY <1>2, <1>3, <1>6, SumsAnyOrder
<1>9. f[E] \in Int
  BY <1>3, <1>6, SumsAnyOrder
<1>10. D \ {x} = E /\ x \in D
  BY <1>1
<1>11. g[D] = x.m.moisture + g[E]
  BY <1>8, <1>10
<1> QED
  BY <1>1, <1>4, <1>5, <1>7, <1>9, <1>11

\* Nothing adds up to nothing.
LEMMA TotalOfNone == Total({}) = 0
<1>1. PICK f : Sums(f, {}) /\ Total({}) = f[{}]
  BY TotalIsSum, FS_EmptySet
<1> QED
  BY <1>1, SumsOf

-----------------------------------------------------------------------------
(* Steps that leave most of the state alone *)

\* Each part of the invariant survives a step that leaves alone what it reads.
LEMMA Frames ==
  ASSUME IInv
  PROVE  /\ UNCHANGED <<outbox, readings>> => StoredInv'
         /\ UNCHANGED <<outbox>> => PrecededInv'
         /\ UNCHANGED <<readings, sensors, ingest, job>> => SeenInv'
         /\ UNCHANGED <<outbox, sensors, ingest, job, removed>> => KnownInv'
         /\ UNCHANGED <<lost, removed, sensors, outbox>> => SilenceInv'
         /\ UNCHANGED <<outbox, projected, latest>> => LatestInv'
         /\ UNCHANGED <<outbox, projected, rollups>> => RollupInv'
<1>1. UNCHANGED <<outbox, readings>> => StoredInv'
  BY DEF IInv, StoredInv
<1>2. UNCHANGED <<outbox>> => PrecededInv'
  BY DEF IInv, PrecededInv
<1>3. UNCHANGED <<readings, sensors, ingest, job>> => SeenInv'
  BY DEF IInv, SeenInv, Seen
<1>4. UNCHANGED <<outbox, sensors, ingest, job, removed>> => KnownInv'
  BY DEF IInv, KnownInv
<1>5. UNCHANGED <<lost, removed, sensors, outbox>> => SilenceInv'
  BY DEF IInv, SilenceInv, RowAgrees
<1>6. UNCHANGED <<outbox, projected, latest>> => LatestInv'
  BY DEF IInv, LatestInv
<1>7. UNCHANGED <<outbox, projected, rollups>> => RollupInv'
  BY DEF IInv, RollupInv
<1> QED
  BY <1>1, <1>2, <1>3, <1>4, <1>5, <1>6, <1>7

\* What the processes hold when they are busy, and that a usable message is one.
LEMMA Held ==
  ASSUME ShapeInv
  PROVE  /\ \A i \in Ingesters : ingest[i] # Idle => ingest[i] \in Reading
         /\ \A j \in SilenceJobs : job[j] # Idle =>
              /\ job[j] \in Listing /\ DOMAIN job[j].rows \subseteq Sensors
              /\ job[j].rows \in [DOMAIN job[j].rows -> SensorModel]
<1>1. \A i \in Ingesters : ingest[i] # Idle => ingest[i] \in Reading
  BY DEF ShapeInv
<1>2. ASSUME NEW j \in SilenceJobs, job[j] # Idle
      PROVE  /\ job[j] \in Listing /\ DOMAIN job[j].rows \subseteq Sensors
             /\ job[j].rows \in [DOMAIN job[j].rows -> SensorModel]
  <2>1. job[j] \in Listing
    BY <1>2 DEF ShapeInv
  <2>2. job[j].rows \in UNION {[D -> SensorModel] : D \in SUBSET Sensors}
    BY <2>1 DEF Listing
  <2>3. PICK D \in SUBSET Sensors : job[j].rows \in [D -> SensorModel]
    BY <2>2
  <2> QED
    BY <2>1, <2>3
<1> QED
  BY <1>1, <1>2

\* The clock moves on.
LEMMA TickKeeps == IInv /\ Tick => IInv'
<1> SUFFICES ASSUME IInv, Tick PROVE IInv'
  OBVIOUS
<1>1. /\ UNCHANGED <<raw, offset, sensors, readings, outbox, projected, rollups, latest, ingest, job, removed, lost>>
      /\ now' = now + 1 /\ now < MaxTime
  BY DEF Tick, writeSide, readSide, workers, history
<1>2. ShapeInv'
  BY <1>1, ConstantsAssumption DEF IInv, ShapeInv, Times, Message
<1> QED
  BY <1>1, <1>2, Frames DEF IInv

\* A device reports: the messages that were there stay where they are.
LEMMA ReportKeeps == ASSUME IInv, NEW s \in Sensors, Report(s) PROVE IInv'
<1>1. UNCHANGED <<now, offset, sensors, readings, outbox, projected, rollups, latest, ingest, job, removed, lost>>
  BY DEF Report, writeSide, readSide, workers, history
<1>2. PICK msg \in {NoMessage} \cup RawReading : raw' = [raw EXCEPT ![s] = Append(@, msg)]
  BY DEF Report
<1>3. /\ raw' \in [Sensors -> Seq({NoMessage} \cup RawReading)]
      /\ \A t \in Sensors : /\ Len(raw[t]) \in Nat /\ Len(raw[t]) <= Len(raw'[t])
                            /\ \A k \in 1 .. Len(raw[t]) : raw'[t][k] = raw[t][k]
  BY <1>2 DEF IInv, ShapeInv
<1>4. \A t \in Sensors : Len(raw'[t]) \in Nat
  BY <1>3
<1>5. \A t \in Sensors : offset'[t] <= Len(raw'[t])
  BY <1>1, <1>3, <1>4 DEF IInv, ShapeInv
<1>6. ASSUME NEW i \in Ingesters, ingest'[i] # Idle
      PROVE  ingest'[i].n \in 1 .. Len(raw'[ingest'[i].sensor]) /\ Message(i)' \in RawReading
  <2>1. /\ ingest[i].sensor \in Sensors /\ ingest[i].n \in 1 .. Len(raw[ingest[i].sensor])
        /\ Message(i) \in RawReading /\ ingest'[i] = ingest[i]
    BY <1>1, <1>6, Held DEF IInv, ShapeInv, Reading
  <2> QED
    BY <1>3, <1>4, <2>1 DEF Message
<1>7. ShapeInv'
  BY <1>1, <1>3, <1>5, <1>6 DEF IInv, ShapeInv
<1> QED
  BY <1>1, <1>7, Frames DEF IInv

\* An unusable message is acknowledged.
LEMMA DropMessageKeeps == ASSUME IInv, NEW i \in Ingesters, NEW s \in Sensors, DropMessage(i, s) PROVE IInv'
<1>1. /\ UNCHANGED <<now, raw, sensors, readings, outbox, projected, rollups, latest, ingest, job, removed, lost>>
      /\ offset' = [offset EXCEPT ![s] = IF @ + 1 = offset[s] + 1 THEN offset[s] + 1 ELSE @]
      /\ offset[s] < Len(raw[s])
  BY DEF DropMessage, AckAt, device, writeSide, readSide, workers, history
<1>2. offset' \in [Sensors -> Nat] /\ \A t \in Sensors : offset'[t] <= Len(raw[t])
  BY <1>1 DEF IInv, ShapeInv
<1>3. ShapeInv'
  BY <1>1, <1>2 DEF IInv, ShapeInv, Message
<1> QED
  BY <1>1, <1>3, Frames DEF IInv

\* A sensor is registered: nothing was announced of it before, or it was removed.
LEMMA AddSensorKeeps == ASSUME IInv, NEW s \in Sensors, AddSensor(s) PROVE IInv'
<1> DEFINE row == [last_seen_at |-> Never, offline_announced_at |-> Never]
<1>1. /\ UNCHANGED <<now, raw, offset, readings, outbox, projected, rollups, latest, ingest, job, removed, lost>>
      /\ sensors' = [sensors EXCEPT ![s] = row] /\ sensors[s] = NoRow
  BY DEF AddSensor, Registered, device, readSide, workers, history
<1>2. row \in SensorModel /\ row.last_seen_at = Never /\ row.offline_announced_at = Never /\ row # NoRow
  BY ConstantsAssumption DEF SensorModel, Never, NoRow
<1> HIDE DEF row
<1>3. /\ sensors' \in [Sensors -> {NoRow} \cup SensorModel] /\ sensors'[s] = row
      /\ \A t \in Sensors \ {s} : sensors'[t] = sensors[t]
  BY <1>1, <1>2 DEF IInv, ShapeInv
<1>4. ShapeInv'
  BY <1>1, <1>3 DEF IInv, ShapeInv, Message
<1>5. SeenInv'
  BY <1>1, <1>2, <1>3 DEF IInv, SeenInv, Seen
<1>6. KnownInv'
  BY <1>1, <1>2, <1>3 DEF IInv, KnownInv
<1>7. SilenceInv'
  <2> SUFFICES ASSUME ~lost, NEW t \in Sensors \ removed, sensors'[t] # NoRow PROVE RowAgrees(t)'
    BY <1>1 DEF SilenceInv
  <2>1. CASE t # s
    BY <1>1, <1>3, <2>1 DEF IInv, SilenceInv, RowAgrees
  <2>2. CASE t = s
    <3>1. \A k \in 1 .. Len(outbox) : ~Rec(outbox, k, s) /\ ~Off(outbox, k, s)
      BY <1>1, <2>2 DEF IInv, KnownInv, Rec, Off
    <3> QED
      BY <1>1, <1>2, <1>3, <2>2, <3>1 DEF RowAgrees, NewestReading, OfflineAt
  <2> QED
    BY <2>1, <2>2
<1> QED
  BY <1>1, <1>4, <1>5, <1>6, <1>7, Frames DEF IInv

\* A sensor is removed: nothing more is said of it.
LEMMA RemoveSensorKeeps == ASSUME IInv, NEW s \in Sensors, RemoveSensor(s) PROVE IInv'
<1>1. /\ UNCHANGED <<now, raw, offset, readings, outbox, projected, rollups, latest, ingest, job, lost>>
      /\ sensors' = [sensors EXCEPT ![s] = NoRow] /\ removed' = removed \cup {s}
  BY DEF RemoveSensor, device, readSide, workers
<1>2. /\ sensors' \in [Sensors -> {NoRow} \cup SensorModel] /\ sensors'[s] = NoRow
      /\ \A t \in Sensors \ {s} : sensors'[t] = sensors[t]
  BY <1>1 DEF IInv, ShapeInv
<1>3. ShapeInv'
  BY <1>1, <1>2 DEF IInv, ShapeInv, Message
<1>4. SeenInv'
  BY <1>1, <1>2 DEF IInv, SeenInv, Seen
<1>5. KnownInv'
  BY <1>1, <1>2 DEF IInv, KnownInv
<1>6. SilenceInv'
  BY <1>1, <1>2 DEF IInv, SilenceInv, RowAgrees
<1> QED
  BY <1>1, <1>3, <1>4, <1>5, <1>6, Frames DEF IInv

\* An ingester reads a registered sensor before its transaction.
LEMMA ReadSensorKeeps == ASSUME IInv, NEW i \in Ingesters, NEW s \in Sensors, ReadSensor(i, s) PROVE IInv'
<1> DEFINE held == [pc |-> "read", sensor |-> s, n |-> offset[s] + 1, row |-> sensors[s]]
<1>1. /\ UNCHANGED <<now, raw, offset, sensors, readings, outbox, projected, rollups, latest, job, removed, lost>>
      /\ ingest' = [ingest EXCEPT ![i] = held]
      /\ offset[s] < Len(raw[s]) /\ raw[s][offset[s] + 1] # NoMessage /\ sensors[s] # NoRow
  BY DEF ReadSensor, Registered, device, writeSide, readSide, history
<1>2. /\ held.sensor = s /\ held.n = offset[s] + 1 /\ held.row = sensors[s]
      /\ held.n \in 1 .. Len(raw[s]) /\ held \in Reading
  BY <1>1 DEF IInv, ShapeInv, Reading
<1> HIDE DEF held
<1>3. raw[s][held.n] \in RawReading
  BY <1>1, <1>2 DEF IInv, ShapeInv
<1>4. ingest' \in [Ingesters -> {Idle} \cup Reading] /\ \A h \in Ingesters : ingest'[h] = IF h = i THEN held ELSE ingest[h]
  BY <1>1, <1>2 DEF IInv, ShapeInv
<1>5. ShapeInv'
  BY <1>1, <1>2, <1>3, <1>4 DEF IInv, ShapeInv, Message
<1>6. SeenInv'
  BY <1>1, <1>2, <1>4 DEF IInv, SeenInv, Seen
<1>7. KnownInv'
  BY <1>1, <1>2, <1>4 DEF IInv, KnownInv
<1> QED
  BY <1>1, <1>5, <1>6, <1>7, Frames DEF IInv

\* However a delivery ends, the offsets stay within the topic and the ingester is idle.
LEMMA Ended ==
  ASSUME ShapeInv, NEW i \in Ingesters, ingest[i] # Idle, EndDelivery(i)
  PROVE  /\ offset' \in [Sensors -> Nat] /\ \A s \in Sensors : offset'[s] <= Len(raw[s])
         /\ ingest' \in [Ingesters -> {Idle} \cup Reading]
         /\ \A h \in Ingesters : ingest'[h] = IF h = i THEN Idle ELSE ingest[h]
<1>1. /\ ingest[i].sensor \in Sensors /\ ingest[i].n \in 1 .. Len(raw[ingest[i].sensor])
      /\ offset \in [Sensors -> Nat] /\ (\A s \in Sensors : offset[s] <= Len(raw[s]))
      /\ \A s \in Sensors : Len(raw[s]) \in Nat
  BY Held DEF ShapeInv, Reading
<1>2. offset' \in [Sensors -> Nat] /\ \A s \in Sensors : offset'[s] <= Len(raw[s])
  <2>1. CASE UNCHANGED offset
    BY <1>1, <2>1
  <2>2. CASE AckAt(ingest[i].sensor, ingest[i].n)
    BY <1>1, <2>2 DEF AckAt
  <2> QED
    BY <2>1, <2>2 DEF EndDelivery
<1> QED
  BY <1>2 DEF EndDelivery, ShapeInv

\* A reading that is stored already is acknowledged.
LEMMA SkipDuplicateKeeps == ASSUME IInv, NEW i \in Ingesters, SkipDuplicate(i) PROVE IInv'
<1>1. /\ UNCHANGED <<now, raw, sensors, readings, outbox, projected, rollups, latest, job, removed, lost>>
      /\ ingest[i] # Idle /\ EndDelivery(i)
  BY DEF SkipDuplicate, device, writeSide, readSide, history
<1>2. /\ offset' \in [Sensors -> Nat] /\ \A s \in Sensors : offset'[s] <= Len(raw[s])
      /\ ingest' \in [Ingesters -> {Idle} \cup Reading]
      /\ \A h \in Ingesters : ingest'[h] = IF h = i THEN Idle ELSE ingest[h]
  BY <1>1, Ended DEF IInv
<1>3. ShapeInv'
  BY <1>1, <1>2 DEF IInv, ShapeInv, Message
<1>4. SeenInv'
  BY <1>1, <1>2 DEF IInv, SeenInv, Seen
<1>5. KnownInv'
  BY <1>1, <1>2 DEF IInv, KnownInv
<1> QED
  BY <1>1, <1>3, <1>4, <1>5, Frames DEF IInv

\* A job lists sensors that are registered, silent and not announced.
LEMMA ListSilentKeeps == ASSUME IInv, NEW j \in SilenceJobs, ListSilent(j) PROVE IInv'
<1> DEFINE silent == list_silent(now - OFFLINE_AFTER)
           held == [pc |-> "listed", now |-> now, rows |-> [s \in silent |-> sensors[s]]]
<1>1. /\ UNCHANGED <<now, raw, offset, sensors, readings, outbox, projected, rollups, latest, ingest, removed, lost>>
      /\ job' = [job EXCEPT ![j] = held]
  BY DEF ListSilent, device, writeSide, readSide, history
<1>2. /\ silent \subseteq Sensors
      /\ \A s \in silent : /\ sensors[s] # NoRow /\ sensors[s].last_seen_at # Never
                           /\ sensors[s].offline_announced_at = Never
  BY DEF list_silent, Registered, Never
<1>3. \A s \in silent : sensors[s] \in SensorModel
  BY <1>2 DEF IInv, ShapeInv
<1> HIDE DEF silent
<1>4. /\ held.rows = [s \in silent |-> sensors[s]] /\ DOMAIN held.rows = silent
      /\ held.rows \in [silent -> SensorModel] /\ held.now = now
      /\ \A s \in silent : held.rows[s] = sensors[s]
  BY <1>3
<1>5. held \in Listing
  BY <1>2, <1>4 DEF Listing, IInv, ShapeInv
<1> HIDE DEF held
<1>6. job' \in [SilenceJobs -> {Idle} \cup Listing] /\ \A h \in SilenceJobs : job'[h] = IF h = j THEN held ELSE job[h]
  BY <1>1, <1>5 DEF IInv, ShapeInv
<1>7. ShapeInv'
  BY <1>1, <1>6 DEF IInv, ShapeInv, Message
<1>8. SeenInv'
  BY <1>1, <1>2, <1>4, <1>6 DEF IInv, SeenInv, Seen
<1>9. KnownInv'
  BY <1>1, <1>2, <1>4, <1>6 DEF IInv, KnownInv
<1> QED
  BY <1>1, <1>7, <1>8, <1>9, Frames DEF IInv

\* A tick that fails changes nothing but the job's state.
LEMMA TickFailsKeeps == ASSUME IInv, NEW j \in SilenceJobs, TickFails(j) PROVE IInv'
<1>1. /\ UNCHANGED <<now, raw, offset, sensors, readings, outbox, projected, rollups, latest, ingest, removed, lost>>
      /\ job' = [job EXCEPT ![j] = Idle]
  BY DEF TickFails, device, writeSide, readSide, history
<1>2. job' \in [SilenceJobs -> {Idle} \cup Listing] /\ \A h \in SilenceJobs : job'[h] = IF h = j THEN Idle ELSE job[h]
  BY <1>1 DEF IInv, ShapeInv
<1>3. ShapeInv'
  BY <1>1, <1>2 DEF IInv, ShapeInv, Message
<1>4. SeenInv'
  BY <1>1, <1>2 DEF IInv, SeenInv, Seen
<1>5. KnownInv'
  BY <1>1, <1>2 DEF IInv, KnownInv
<1> QED
  BY <1>1, <1>3, <1>4, <1>5, Frames DEF IInv

-----------------------------------------------------------------------------
(* A reading is stored *)

\* The readings of a window are where they were in the longer log.
LEMMA WindowSame ==
  ASSUME NEW o, NEW q, Prefix(o, q), NEW p \in 0 .. Len(o), NEW w
  PROVE  Window(q, p, w) = Window(o, p, w)
<1>1. \A k \in 1 .. p : k \in 1 .. Len(o) /\ q[k] = o[k]
  BY DEF Prefix
<1>2. {k \in 1 .. p : Rec(q, k, w[1])} = {k \in 1 .. p : Rec(o, k, w[1])}
  BY <1>1 DEF Rec
<1>3. {q[k] : k \in {k \in 1 .. p : Rec(q, k, w[1])}} = {o[k] : k \in {k \in 1 .. p : Rec(o, k, w[1])}}
  BY <1>1, <1>2
<1> QED
  BY <1>3 DEF Window

\* What was projected does not change when the log grows.
LEMMA ReadSideFrame ==
  ASSUME IInv, Prefix(outbox, outbox'), UNCHANGED <<projected, rollups, latest>>
  PROVE  LatestInv' /\ RollupInv'
<1>1. projected \in 0 .. Len(outbox)
  BY DEF IInv, ShapeInv
<1>2. LatestInv'
  BY <1>1, PrefixSame DEF IInv, LatestInv
<1>3. \A w \in Windows : Window(outbox', projected, w) = Window(outbox, projected, w)
  BY <1>1, WindowSame
<1>4. RollupInv'
  BY <1>3 DEF IInv, RollupInv
<1> QED
  BY <1>2, <1>4

\* The alerts of a reading are events of its sensor and its moment.
LEMMA AlertEvents ==
  ASSUME NEW s \in Sensors, NEW at \in Times, NEW m \in Measurements
  PROVE  /\ Alerts(s, at, m) \in Seq(Events)
         /\ \A k \in 1 .. Len(Alerts(s, at, m)) :
              Alerts(s, at, m)[k].type \in AlertTypes /\ Alerts(s, at, m)[k].sensor = s
<1> DEFINE Those == {e \in Events : e.type \in AlertTypes /\ e.sensor = s}
<1>1. \A type \in AlertTypes : Event(type, s, at, Never, m) \in Those
  <2> TAKE type \in AlertTypes
  <2>1. Event(type, s, at, Never, m) \in Events
    BY ConstantsAssumption DEF Event, Events, Types, Payload, Never
  <2> QED
    BY <2>1 DEF Event
<1> HIDE DEF Those
<1>2. << >> \in Seq(Those) /\ \A type \in AlertTypes : <<Event(type, s, at, Never, m)>> \in Seq(Those)
  BY <1>1
<1>3. \A a, b, c \in Seq(Those) : a \o b \o c \in Seq(Those)
  OBVIOUS
<1>4. "soil_moisture_low" \in AlertTypes /\ "soil_moisture_high" \in AlertTypes /\ "temperature_anomaly" \in AlertTypes
  BY DEF AlertTypes
<1>5. Alerts(s, at, m) \in Seq(Those)
  BY <1>2, <1>3, <1>4 DEF Alerts
<1>6. \A k \in 1 .. Len(Alerts(s, at, m)) : Alerts(s, at, m)[k] \in Those
  BY <1>5
<1>7. Those \subseteq Events
  BY DEF Those
<1>8. Alerts(s, at, m) \in Seq(Events)
  BY <1>5, <1>7
<1> QED
  BY <1>6, <1>8 DEF Those

\* The log o after a reading.
Announce(o, s, at, m) == o \o <<Event("received", s, at, Never, m)>> \o Alerts(s, at, m)

\* The reading comes first, then its alerts.
LEMMA StoredLog ==
  ASSUME NEW o \in Seq(Events), NEW s \in Sensors, NEW at \in Times, NEW m \in Measurements,
         NEW q, q = Announce(o, s, at, m)
  PROVE  /\ Prefix(o, q) /\ Len(o) \in Nat /\ Len(q) \in Nat /\ Len(o) + 1 <= Len(q)
         /\ q[Len(o) + 1].type = "received" /\ q[Len(o) + 1].sensor = s
         /\ q[Len(o) + 1].at = at /\ q[Len(o) + 1].m = m
         /\ \A k \in Len(o) + 2 .. Len(q) : q[k].type \in AlertTypes /\ q[k].sensor = s
<1> DEFINE e == Event("received", s, at, Never, m)
           al == Alerts(s, at, m)
           h == o \o <<e>>
<1>1. e \in Events /\ e.type = "received" /\ e.sensor = s /\ e.at = at /\ e.m = m
  BY ConstantsAssumption DEF Event, Events, Types, Payload, Never
<1>2. al \in Seq(Events) /\ \A k \in 1 .. Len(al) : al[k].type \in AlertTypes /\ al[k].sensor = s
  BY AlertEvents
<1> HIDE DEF e, al
<1>3. /\ h \in Seq(Events) /\ Len(h) = Len(o) + 1 /\ h[Len(o) + 1] = e
      /\ \A k \in 1 .. Len(o) : h[k] = o[k]
  BY <1>1
<1>4. q = h \o al
  BY DEF Announce, e, al
<1> HIDE DEF h
<1>5. /\ q \in Seq(Events) /\ Len(q) = Len(h) + Len(al) /\ Len(al) \in Nat /\ Len(o) \in Nat
      /\ \A k \in 1 .. Len(h) : q[k] = h[k]
      /\ \A k \in Len(h) + 1 .. Len(q) : k - Len(h) \in 1 .. Len(al) /\ q[k] = al[k - Len(h)]
  <2>1. Prefix(h, q) /\ Len(q) = Len(h) + Len(al)
    BY <1>2, <1>3, <1>4, Appended
  <2>2. \A k \in Len(h) + 1 .. Len(h) + Len(al) : k - Len(h) \in 1 .. Len(al) /\ q[k] = al[k - Len(h)]
    BY <1>2, <1>3, <1>4, Appended
  <2>3. Len(al) \in Nat /\ Len(o) \in Nat
    BY <1>2
  <2> QED
    BY <2>1, <2>2, <2>3 DEF Prefix
<1>6. \A k \in Len(o) + 2 .. Len(q) : q[k].type \in AlertTypes /\ q[k].sensor = s
  BY <1>2, <1>3, <1>5
<1>7. q[Len(o) + 1] = e /\ Prefix(o, q) /\ Len(o) + 1 <= Len(q) /\ Len(q) \in Nat
  BY <1>3, <1>5 DEF Prefix
<1> QED
  BY <1>1, <1>5, <1>6, <1>7

\* What storing a reading does, in one place.
Stores(i, s, at, m) ==
    /\ s \in Sensors /\ at \in Times /\ m \in Measurements /\ ingest[i] # Idle
    /\ ingest[i].sensor = s /\ ingest[i].row \in SensorModel
    /\ ~\E r \in readings : r.sensor = s /\ r.at = at
    /\ readings' = readings \cup {[sensor |-> s, at |-> at, m |-> m]}
    /\ sensors' = [sensors EXCEPT ![s] = record(ingest[i].row, at)]
    /\ record(ingest[i].row, at) \in SensorModel /\ record(ingest[i].row, at) # NoRow
    /\ lost' = (lost \/ sensors[s] # ingest[i].row)
    /\ Prefix(outbox, outbox') /\ Len(outbox) \in Nat /\ Len(outbox') \in Nat
    /\ Len(outbox) + 1 <= Len(outbox')
    /\ outbox'[Len(outbox) + 1].type = "received" /\ outbox'[Len(outbox) + 1].sensor = s
    /\ outbox'[Len(outbox) + 1].at = at /\ outbox'[Len(outbox) + 1].m = m
    /\ \A k \in Len(outbox) + 2 .. Len(outbox') :
         outbox'[k].type \in AlertTypes /\ outbox'[k].sensor = s
    /\ EndDelivery(i)
    /\ UNCHANGED <<now, raw, projected, rollups, latest, job, removed>>

\* The action is of that form.
LEMMA StoresOne ==
  ASSUME IInv, NEW i \in Ingesters, StoreReading(i)
  PROVE  \E s, at, m : Stores(i, s, at, m)
<1> DEFINE s == ingest[i].sensor
           at == Message(i).at
           m == Message(i).m
<1>1. ingest[i] # Idle /\ ingest[i] \in Reading /\ Message(i) \in RawReading
  BY Held DEF StoreReading, IInv, ShapeInv
<1>2. s \in Sensors /\ at \in Times /\ m \in Measurements /\ ingest[i].row \in SensorModel
  BY <1>1 DEF Reading, RawReading
<1>3. outbox' = Announce(outbox, s, at, m)
  BY DEF StoreReading, Announce
<1>4. outbox \in Seq(Events)
  BY DEF IInv, ShapeInv
<1>5. /\ ~\E r \in readings : r.sensor = s /\ r.at = at
      /\ readings' = readings \cup {[sensor |-> s, at |-> at, m |-> m]}
      /\ sensors' = [sensors EXCEPT ![s] = record(ingest[i].row, at)]
      /\ lost' = (lost \/ sensors[s] # ingest[i].row)
      /\ EndDelivery(i)
      /\ UNCHANGED <<now, raw, projected, rollups, latest, job, removed>>
  BY DEF StoreReading, add_many, Merge, Overwrites, device, readSide
<1> HIDE DEF s, at, m
<1>6. record(ingest[i].row, at) \in SensorModel /\ record(ingest[i].row, at) # NoRow
  <2>1. at \in 0 .. MaxTime /\ 0 \in 0 .. MaxTime /\ ~(-1 \in 0 .. MaxTime)
    BY <1>2, ConstantsAssumption DEF Times
  <2> QED
    BY <1>2, <2>1 DEF record, SensorModel, NoRow, Never
<1>7. /\ Prefix(outbox, outbox') /\ Len(outbox) \in Nat /\ Len(outbox') \in Nat
      /\ Len(outbox) + 1 <= Len(outbox')
      /\ outbox'[Len(outbox) + 1].type = "received" /\ outbox'[Len(outbox) + 1].sensor = s
      /\ outbox'[Len(outbox) + 1].at = at /\ outbox'[Len(outbox) + 1].m = m
      /\ \A k \in Len(outbox) + 2 .. Len(outbox') :
           outbox'[k].type \in AlertTypes /\ outbox'[k].sensor = s
  BY <1>2, <1>3, <1>4, StoredLog
<1>8. ingest[i].sensor = s
  BY DEF s
<1>9. Stores(i, s, at, m)
  BY <1>1, <1>2, <1>5, <1>6, <1>7, <1>8 DEF Stores
<1> QED
  BY <1>9

\* The event of the reading is new, and the only one of its key.
LEMMA StoreKeepsStored ==
  ASSUME IInv, NEW i \in Ingesters, NEW s, NEW at, NEW m, Stores(i, s, at, m)
  PROVE  StoredInv'
<1> DEFINE L == Len(outbox)
<1>1. /\ \A k \in 1 .. L : outbox'[k] = outbox[k] /\ k \in 1 .. Len(outbox')
      /\ L + 1 \in 1 .. Len(outbox') /\ L \in Nat
      /\ \A k \in 1 .. Len(outbox') : k \in 1 .. L \/ k = L + 1 \/ k \in L + 2 .. Len(outbox')
  BY DEF Stores, Prefix
<1>2. \A k \in 1 .. Len(outbox') : outbox'[k].type = "received" => k \in 1 .. L \/ k = L + 1
  BY <1>1 DEF Stores, AlertTypes
<1>3. \A k \in 1 .. L : outbox[k].type = "received" => ~(outbox[k].sensor = s /\ outbox[k].at = at)
  BY DEF Stores, IInv, StoredInv
<1>4. /\ outbox'[L + 1].type = "received" /\ outbox'[L + 1].sensor = s
      /\ outbox'[L + 1].at = at /\ outbox'[L + 1].m = m
      /\ readings' = readings \cup {[sensor |-> s, at |-> at, m |-> m]}
  BY DEF Stores
<1> HIDE DEF L
<1>5. \A k \in 1 .. Len(outbox') : outbox'[k].type = "received" =>
        [sensor |-> outbox'[k].sensor, at |-> outbox'[k].at, m |-> outbox'[k].m] \in readings'
  BY <1>1, <1>2, <1>4 DEF IInv, StoredInv, L
<1>6. \A r \in readings' : \E k \in 1 .. Len(outbox') :
        Rec(outbox', k, r.sensor) /\ outbox'[k].at = r.at /\ outbox'[k].m = r.m
  <2> TAKE r \in readings'
  <2>1. CASE r \in readings
    <3>1. PICK k \in 1 .. L : Rec(outbox, k, r.sensor) /\ outbox[k].at = r.at /\ outbox[k].m = r.m
      BY <2>1 DEF IInv, StoredInv, L
    <3> QED
      BY <1>1, <3>1 DEF Rec
  <2>2. CASE r = [sensor |-> s, at |-> at, m |-> m]
    BY <1>1, <1>4, <2>2 DEF Rec
  <2> QED
    BY <1>4, <2>1, <2>2
<1>7. \A j, k \in 1 .. Len(outbox') :
        (/\ outbox'[j].type = "received" /\ outbox'[k].type = "received"
         /\ outbox'[j].sensor = outbox'[k].sensor /\ outbox'[j].at = outbox'[k].at)
          => j = k
  BY <1>1, <1>2, <1>3, <1>4 DEF IInv, StoredInv, L
<1> QED
  BY <1>5, <1>6, <1>7 DEF StoredInv

\* The alerts come after their reading.
LEMMA StoreKeepsPreceded ==
  ASSUME IInv, NEW i \in Ingesters, NEW s, NEW at, NEW m, Stores(i, s, at, m)
  PROVE  PrecededInv'
<1> DEFINE L == Len(outbox)
<1> SUFFICES ASSUME NEW k \in 1 .. Len(outbox'), outbox'[k].type # "received"
             PROVE  \E j \in 1 .. k - 1 : Rec(outbox', j, outbox'[k].sensor)
  BY DEF PrecededInv
<1>1. /\ L \in Nat /\ (k \in 1 .. L \/ k \in L + 2 .. Len(outbox'))
      /\ \A j \in 1 .. L : outbox'[j] = outbox[j]
  BY DEF Stores, Prefix
<1>2. CASE k \in 1 .. L
  <2>1. PICK j \in 1 .. k - 1 : Rec(outbox, j, outbox[k].sensor)
    BY <1>1, <1>2 DEF IInv, PrecededInv
  <2>2. j \in 1 .. L
    BY <1>1, <1>2
  <2> QED
    BY <1>1, <1>2, <2>1, <2>2 DEF Rec
<1>3. CASE k \in L + 2 .. Len(outbox')
  <2>1. L + 1 \in 1 .. k - 1
    BY <1>1, <1>3
  <2>2. outbox'[L + 1].type = "received" /\ outbox'[L + 1].sensor = s /\ outbox'[k].sensor = s
    BY <1>3 DEF Stores
  <2> QED
    BY <2>1, <2>2 DEF Rec
<1> QED
  BY <1>1, <1>2, <1>3

\* The row of the sensor whose reading was stored agrees with the log, if what the
\* ingester had read was still the row: a newer reading ends the silence, an older
\* one changes nothing.
LEMMA StoreKeepsRow ==
  ASSUME IInv, NEW i \in Ingesters, NEW s, NEW at, NEW m, Stores(i, s, at, m),
         ~lost', s \notin removed
  PROVE  RowAgrees(s)'
<1> DEFINE L == Len(outbox)
           M == Len(outbox')
           row == sensors[s]
           new == record(row, at)
<1>1. /\ ~lost /\ row = ingest[i].row /\ row \in SensorModel /\ s \in Sensors
      /\ sensors'[s] = new /\ L \in Nat /\ M \in Nat /\ L + 1 <= M /\ Prefix(outbox, outbox')
      /\ at \in Times
  BY DEF Stores, IInv, ShapeInv
<1>2. row # NoRow /\ RowAgrees(s)
  <2>1. row # NoRow
    BY <1>1, ConstantsAssumption DEF SensorModel, NoRow
  <2> QED
    BY <1>1, <2>1 DEF IInv, SilenceInv
<1>3. /\ row.last_seen_at \in Nat /\ row.offline_announced_at \in Nat /\ at \in Nat /\ at # Never
  BY <1>1, ConstantsAssumption DEF SensorModel, Times, Never
<1>4. row.last_seen_at # at
  <2>1. row.last_seen_at # Never => \E r \in readings : r.sensor = s /\ r.at = row.last_seen_at
    BY <1>1, <1>2 DEF IInv, SeenInv, Seen
  <2> QED
    BY <1>3, <2>1 DEF Stores
<1>5. /\ \A k \in 1 .. L : outbox'[k] = outbox[k]
      /\ \A k \in 1 .. M : k \in 1 .. L \/ k = L + 1 \/ k \in L + 2 .. M
      /\ L + 1 \in L + 1 .. M /\ L + 1 \in 1 .. M /\ L <= M
      /\ \A k \in L + 1 .. M : k = L + 1 \/ k \in L + 2 .. M
      /\ \A k \in 1 .. L : k \in 1 .. M
  BY <1>1 DEF Prefix
<1>6. /\ Rec(outbox', L + 1, s) /\ outbox'[L + 1].at = at
      /\ \A k \in L + 1 .. M : ~Off(outbox', k, s)
      /\ \A k \in L + 2 .. M : ~Rec(outbox', k, s)
  BY <1>5 DEF Stores, Rec, Off, AlertTypes
<1>7. /\ \A k \in 1 .. L : /\ Rec(outbox', k, s) <=> Rec(outbox, k, s)
                           /\ Off(outbox', k, s) <=> Off(outbox, k, s)
  BY <1>5 DEF Rec, Off
<1> HIDE DEF L, M, row, new
<1>8. NewestReading(outbox, s, L, row.last_seen_at) /\ OfflineAt(outbox', s, L, row.offline_announced_at)
  BY <1>1, <1>2, PrefixSame DEF RowAgrees, L, row
<1>9. \A j, k \in 1 .. M : j # k /\ Off(outbox', j, s) /\ Off(outbox', k, s) => outbox'[j].seen # outbox'[k].seen
  <2>1. \A k \in 1 .. M : Off(outbox', k, s) => k \in 1 .. L /\ Off(outbox, k, s) /\ outbox'[k] = outbox[k]
    BY <1>1, <1>5, <1>6, <1>7
  <2> QED
    BY <1>2, <2>1 DEF RowAgrees, L
<1>10. \A k \in 1 .. M : Off(outbox', k, s) =>
         /\ k \in 1 .. L /\ outbox'[k].seen <= row.last_seen_at /\ outbox'[k].seen \in Nat
         /\ outbox'[k].seen = row.last_seen_at => row.offline_announced_at # Never
  <2>1. \A k \in 1 .. M : Off(outbox', k, s) => k \in 1 .. L /\ Off(outbox, k, s) /\ outbox'[k] = outbox[k]
    BY <1>1, <1>5, <1>6, <1>7
  <2>2. \A k \in 1 .. L : outbox[k].seen \in Nat
    BY Entry DEF IInv, ShapeInv, L
  <2> QED
    BY <1>2, <2>1, <2>2 DEF RowAgrees, L, row
<1>11. CASE at > row.last_seen_at
  <2>1. new.last_seen_at = at /\ new.offline_announced_at = Never
    BY <1>3, <1>11 DEF record, new
  <2>2. \A k \in 1 .. L : Rec(outbox', k, s) => outbox'[k].at < at /\ outbox'[k].at <= at
    <3>1. \A k \in 1 .. L : outbox[k].at \in Nat
      BY Entry DEF IInv, ShapeInv, L
    <3> QED
      BY <1>3, <1>5, <1>7, <1>8, <1>11, <3>1 DEF NewestReading
  <2>3. NewestReading(outbox', s, M, at)
    BY <1>3, <1>5, <1>6, <2>2 DEF NewestReading
  <2>4. Newer(outbox', L + 1, s)
    <3>1. \A k \in 1 .. (L + 1) - 1 : k \in 1 .. L
      BY <1>1
    <3> QED
      BY <1>6, <2>2, <3>1 DEF Newer
  <2>5. OfflineAt(outbox', s, M, Never)
    BY <1>1, <1>5, <1>6, <2>4, OfflineBack
  <2>6. \A k \in 1 .. M : Off(outbox', k, s) => outbox'[k].seen <= at /\ outbox'[k].seen # at
    BY <1>3, <1>10, <1>11
  <2> QED
    BY <1>1, <1>9, <2>1, <2>3, <2>5, <2>6 DEF RowAgrees, M
<1>12. CASE ~(at > row.last_seen_at)
  <2>1. new = row /\ at < row.last_seen_at /\ row.last_seen_at # Never
    BY <1>3, <1>4, <1>12 DEF record, new, Never
  <2>2. PICK k \in 1 .. L : Rec(outbox, k, s) /\ outbox[k].at = row.last_seen_at
    BY <1>8, <2>1 DEF NewestReading
  <2>3. NewestReading(outbox', s, M, row.last_seen_at)
    <3>1. \A h \in 1 .. M : Rec(outbox', h, s) => outbox'[h].at <= row.last_seen_at
      BY <1>3, <1>5, <1>6, <1>7, <1>8, <2>1 DEF NewestReading
    <3>2. k \in 1 .. M /\ Rec(outbox', k, s) /\ outbox'[k].at = row.last_seen_at
      BY <1>5, <1>7, <2>2
    <3> QED
      BY <3>1, <3>2 DEF NewestReading
  <2>4. \A j \in L + 1 .. M : ~Newer(outbox', j, s)
    <3>1. ~Newer(outbox', L + 1, s)
      <4>1. k \in 1 .. (L + 1) - 1
        BY <1>1, <2>2
      <4>2. Rec(outbox', k, s) /\ ~(outbox'[k].at < outbox'[L + 1].at)
        BY <1>3, <1>5, <1>6, <1>7, <2>1, <2>2
      <4> QED
        BY <4>1, <4>2 DEF Newer
    <3> QED
      BY <1>5, <1>6, <3>1 DEF Newer
  <2>5. OfflineAt(outbox', s, M, row.offline_announced_at)
    BY <1>1, <1>5, <1>6, <1>8, <2>4, OfflineQuiet
  <2> QED
    BY <1>1, <1>9, <1>10, <2>1, <2>3, <2>5 DEF RowAgrees, M
<1> QED
  BY <1>11, <1>12

\* Storing a reading keeps the invariant.
LEMMA StoreReadingKeeps == ASSUME IInv, NEW i \in Ingesters, StoreReading(i) PROVE IInv'
<1>1. PICK s, at, m : Stores(i, s, at, m)
  BY StoresOne
<1> DEFINE L == Len(outbox)
           new == record(ingest[i].row, at)
<1>2. /\ s \in Sensors /\ at \in Times /\ m \in Measurements /\ ingest[i].row \in SensorModel
      /\ new \in SensorModel /\ new # NoRow /\ ingest[i] # Idle /\ ingest[i].sensor = s
      /\ readings' = readings \cup {[sensor |-> s, at |-> at, m |-> m]}
      /\ Prefix(outbox, outbox') /\ lost' = (lost \/ sensors[s] # ingest[i].row)
      /\ UNCHANGED <<now, raw, projected, rollups, latest, job, removed>>
  BY <1>1 DEF Stores
<1>3. /\ sensors' \in [Sensors -> {NoRow} \cup SensorModel] /\ sensors'[s] = new
      /\ \A t \in Sensors \ {s} : sensors'[t] = sensors[t]
  BY <1>1 DEF Stores, IInv, ShapeInv
<1> HIDE DEF new
<1>4. /\ offset' \in [Sensors -> Nat] /\ \A t \in Sensors : offset'[t] <= Len(raw[t])
      /\ ingest' \in [Ingesters -> {Idle} \cup Reading]
      /\ \A h \in Ingesters : ingest'[h] = IF h = i THEN Idle ELSE ingest[h]
  BY <1>1, Ended DEF IInv, Stores
<1>5. ShapeInv'
  <2>1. readings' \subseteq SensorReadingModel
    BY <1>2 DEF IInv, ShapeInv, SensorReadingModel
  <2>2. outbox' \in Seq(Events) /\ projected' \in 0 .. Len(outbox')
    BY <1>2 DEF IInv, ShapeInv, Prefix
  <2>3. \A h \in Ingesters : ingest'[h] # Idle =>
          ingest'[h].n \in 1 .. Len(raw'[ingest'[h].sensor]) /\ Message(h)' \in RawReading
    BY <1>2, <1>4 DEF IInv, ShapeInv, Message
  <2>4. lost' \in BOOLEAN
    BY <1>2 DEF IInv, ShapeInv
  <2> QED
    BY <1>2, <1>3, <1>4, <2>1, <2>2, <2>3, <2>4 DEF IInv, ShapeInv
<1>6. SeenInv'
  <2>1. new.last_seen_at # Never => \E r \in readings' : r.sensor = s /\ r.at = new.last_seen_at
    <3>1. CASE new = ingest[i].row
      BY <1>2, <3>1 DEF IInv, SeenInv, Seen
    <3>2. CASE new.last_seen_at = at
      <4> DEFINE r == [sensor |-> s, at |-> at, m |-> m]
      <4>1. r \in readings' /\ r.sensor = s /\ r.at = at
        BY <1>2
      <4> QED
        BY <3>2, <4>1
    <3> QED
      BY <3>1, <3>2 DEF record, new
  <2>2. \A t \in Sensors : sensors'[t] # NoRow => Seen(t, sensors[t])'
    <3> TAKE t \in Sensors
    <3>1. CASE t = s
      BY <1>3, <2>1, <3>1 DEF Seen
    <3>2. CASE t # s
      BY <1>2, <1>3, <3>2 DEF IInv, SeenInv, Seen
    <3> QED
      BY <3>1, <3>2
  <2>3. \A h \in Ingesters : ingest'[h] # Idle => Seen(ingest[h].sensor, ingest[h].row)'
    BY <1>2, <1>4 DEF IInv, SeenInv, Seen
  <2>4. \A j \in SilenceJobs : job'[j] # Idle =>
          \A t \in DOMAIN job'[j].rows :
            /\ Seen(t, job[j].rows[t])'
            /\ job'[j].rows[t].last_seen_at # Never
            /\ job'[j].rows[t].offline_announced_at = Never
    BY <1>2 DEF IInv, SeenInv, Seen
  <2> QED
    BY <2>2, <2>3, <2>4 DEF SeenInv
<1>7. KnownInv'
  <2> SUFFICES ASSUME NEW t \in Sensors \ removed', sensors'[t] = NoRow
               PROVE  /\ \A k \in 1 .. Len(outbox') : outbox'[k].sensor # t
                      /\ \A h \in Ingesters : ingest'[h] # Idle => ingest'[h].sensor # t
                      /\ \A j \in SilenceJobs : job'[j] # Idle => t \notin DOMAIN job'[j].rows
    BY DEF KnownInv
  <2>1. t # s /\ sensors[t] = NoRow /\ t \in Sensors \ removed
    BY <1>2, <1>3
  <2>2. \A k \in 1 .. Len(outbox') :
          (k \in 1 .. Len(outbox) /\ outbox'[k] = outbox[k]) \/ outbox'[k].sensor = s
    BY <1>1 DEF Stores, Prefix
  <2> QED
    BY <1>2, <1>4, <2>1, <2>2 DEF IInv, KnownInv
<1>8. SilenceInv'
  <2> SUFFICES ASSUME ~lost', NEW t \in Sensors \ removed', sensors'[t] # NoRow PROVE RowAgrees(t)'
    BY DEF SilenceInv
  <2>1. CASE t = s
    BY <1>1, <1>2, <2>1, StoreKeepsRow
  <2>2. CASE t # s
    <3>1. /\ RowAgrees(t) /\ sensors'[t] = sensors[t]
      BY <1>2, <1>3, <2>2 DEF IInv, SilenceInv
    <3>2. /\ Len(outbox) \in Nat /\ Len(outbox') \in Nat /\ Len(outbox) <= Len(outbox')
          /\ \A k \in 1 .. Len(outbox) : outbox'[k] = outbox[k]
          /\ \A k \in 1 .. Len(outbox') : k \in 1 .. Len(outbox) \/ k \in Len(outbox) + 1 .. Len(outbox')
          /\ \A k \in 1 .. Len(outbox) : k \in 1 .. Len(outbox')
      BY <1>1 DEF Stores, Prefix
    <3>3. \A k \in Len(outbox) + 1 .. Len(outbox') : outbox'[k].sensor = s
      BY <1>1, <3>2 DEF Stores
    <3>4. \A k \in Len(outbox) + 1 .. Len(outbox') : ~Rec(outbox', k, t) /\ ~Off(outbox', k, t) /\ ~Newer(outbox', k, t)
      BY <2>2, <3>3 DEF Rec, Off, Newer
    <3>5. \A k \in 1 .. Len(outbox) : /\ Rec(outbox', k, t) <=> Rec(outbox, k, t)
                                      /\ Off(outbox', k, t) <=> Off(outbox, k, t)
      BY <3>2 DEF Rec, Off
    <3>6. NewestReading(outbox', t, Len(outbox'), sensors[t].last_seen_at)
      BY <3>1, <3>2, <3>4, <3>5 DEF RowAgrees, NewestReading
    <3>7. OfflineAt(outbox', t, Len(outbox'), sensors[t].offline_announced_at)
      <4>1. OfflineAt(outbox', t, Len(outbox), sensors[t].offline_announced_at)
        BY <1>2, <3>1, <3>2, PrefixSame DEF RowAgrees
      <4> QED
        BY <3>2, <3>4, <4>1, OfflineQuiet
    <3> QED
      BY <3>1, <3>2, <3>4, <3>5, <3>6, <3>7 DEF RowAgrees
  <2> QED
    BY <2>1, <2>2
<1>9. StoredInv' /\ PrecededInv'
  BY <1>1, StoreKeepsStored, StoreKeepsPreceded
<1>10. LatestInv' /\ RollupInv'
  BY <1>2, ReadSideFrame
<1> QED
  BY <1>5, <1>6, <1>7, <1>8, <1>9, <1>10 DEF IInv

-----------------------------------------------------------------------------
(* Silences are announced *)

\* The log q is o with one event for every sensor of rows.
Follows(o, q, listed, t) ==
    /\ Prefix(o, q) /\ Len(o) \in Nat /\ Len(q) \in Nat
    /\ \A k \in Len(o) + 1 .. Len(q) :
         /\ q[k].type = "offline" /\ q[k].sensor \in DOMAIN listed /\ q[k].at = t
         /\ q[k].seen = listed[q[k].sensor].last_seen_at
    /\ \A a, b \in Len(o) + 1 .. Len(q) : q[a].sensor = q[b].sensor => a = b
    /\ \A s \in DOMAIN listed : \E k \in Len(o) + 1 .. Len(q) : q[k].sensor = s

\* What announcing the silent sensors of rows at moment t does, in one place.
Silences(listed, t) ==
    /\ DOMAIN listed \subseteq Sensors /\ t \in Times
    /\ \A s \in DOMAIN listed :
         /\ listed[s] \in SensorModel /\ Seen(s, listed[s]) /\ listed[s].last_seen_at # Never
         /\ listed[s].offline_announced_at = Never
         /\ mark_offline(listed[s], t) \in SensorModel /\ mark_offline(listed[s], t) # NoRow
         /\ mark_offline(listed[s], t).last_seen_at = listed[s].last_seen_at
         /\ mark_offline(listed[s], t).offline_announced_at = t
    /\ sensors' = [s \in Sensors |-> IF s \in DOMAIN listed THEN mark_offline(listed[s], t) ELSE sensors[s]]
    /\ lost' = (lost \/ \E s \in DOMAIN listed : sensors[s] # listed[s])
    /\ Follows(outbox, outbox', listed, t)
    /\ UNCHANGED <<now, raw, offset, readings, projected, rollups, latest, ingest, removed>>

\* The log o after the events of the sensors, in order.
Listed(o, listed, order, n, t, m) ==
    o \o [k \in 1 .. n |-> Event("offline", order[k], t, listed[order[k]].last_seen_at, m)]

\* Every sensor of the list has one event.
LEMMA ListedLog ==
  ASSUME NEW listed, DOMAIN listed \subseteq Sensors, listed \in [DOMAIN listed -> SensorModel], NEW t \in Times,
         NEW n \in Nat, NEW order \in Bijection(1 .. n, DOMAIN listed), NEW m \in Payload,
         NEW o \in Seq(Events)
  PROVE  Follows(o, Listed(o, listed, order, n, t, m), listed, t)
<1> DEFINE D == DOMAIN listed
           q == Listed(o, listed, order, n, t, m)
           es == [k \in 1 .. n |-> Event("offline", order[k], t, listed[order[k]].last_seen_at, m)]
<1>1. /\ order \in [1 .. n -> D] /\ (\A a, b \in 1 .. n : order[a] = order[b] => a = b)
      /\ \A s \in D : \E k \in 1 .. n : order[k] = s
  BY DEF Bijection, Injection, Surjection, IsInjective
<1>2. \A k \in 1 .. n : /\ es[k] \in Events /\ es[k].type = "offline" /\ es[k].sensor = order[k]
                        /\ es[k].at = t /\ es[k].seen = listed[order[k]].last_seen_at
  BY <1>1 DEF Event, Events, Types, SensorModel
<1>3. es \in Seq(Events) /\ Len(es) = n
  <2>1. es \in [1 .. n -> Events]
    BY <1>2
  <2> HIDE DEF es
  <2>2. es \in Seq(Events)
    BY <2>1
  <2> QED
    BY <2>1, <2>2
<1>4. q = o \o es
  BY DEF Listed
<1> HIDE DEF es, q
<1>5. /\ Prefix(o, q) /\ Len(o) \in Nat /\ Len(q) = Len(o) + n
      /\ \A k \in Len(o) + 1 .. Len(o) + n : k - Len(o) \in 1 .. n /\ q[k] = es[k - Len(o)]
  <2>1. Prefix(o, o \o es) /\ Len(o \o es) = Len(o) + Len(es)
    BY <1>3, Appended
  <2>2. \A k \in Len(o) + 1 .. Len(o) + Len(es) :
          k - Len(o) \in 1 .. Len(es) /\ (o \o es)[k] = es[k - Len(o)]
    BY <1>3, Appended
  <2>3. Len(o) \in Nat
    OBVIOUS
  <2> QED
    BY <1>3, <1>4, <2>1, <2>2, <2>3
<1>6. \A k \in Len(o) + 1 .. Len(q) :
        /\ k - Len(o) \in 1 .. n /\ q[k].sensor = order[k - Len(o)]
        /\ q[k].type = "offline" /\ q[k].sensor \in D /\ q[k].at = t
        /\ q[k].seen = listed[q[k].sensor].last_seen_at
  BY <1>1, <1>2, <1>5
<1>7. \A a, b \in Len(o) + 1 .. Len(q) : q[a].sensor = q[b].sensor => a = b
  <2> TAKE a, b \in Len(o) + 1 .. Len(q)
  <2> HAVE q[a].sensor = q[b].sensor
  <2>1. /\ a - Len(o) \in 1 .. n /\ b - Len(o) \in 1 .. n
        /\ order[a - Len(o)] = order[b - Len(o)]
    BY <1>6
  <2>2. a - Len(o) = b - Len(o)
    BY <1>1, <2>1
  <2> QED
    BY <1>5, <2>2
<1>8. \A s \in D : \E k \in Len(o) + 1 .. Len(q) : q[k].sensor = s
  <2> TAKE s \in D
  <2>1. PICK k \in 1 .. n : order[k] = s
    BY <1>1
  <2>2. Len(o) + k \in Len(o) + 1 .. Len(q) /\ (Len(o) + k) - Len(o) = k
    BY <1>5, <2>1
  <2> QED
    BY <1>6, <2>1, <2>2
<1> QED
  BY <1>5, <1>6, <1>7, <1>8 DEF Follows, q

\* The action is of that form.
LEMMA AnnouncesSilences ==
  ASSUME IInv, NEW j \in SilenceJobs, AnnounceOffline(j)
  PROVE  Silences(job[j].rows, job[j].now) /\ job' = [job EXCEPT ![j] = Idle]
<1> DEFINE listed == job[j].rows
           t == job[j].now
           m == CHOOSE m \in Measurements : TRUE
           D == DOMAIN listed
           n == Cardinality(D)
<1>1. job[j] # Idle /\ job[j] \in Listing /\ D \subseteq Sensors /\ listed \in [D -> SensorModel]
  BY Held DEF AnnounceOffline, IInv
<1>2. t \in Times
  BY <1>1 DEF Listing
<1>3. n \in Nat /\ m \in Payload /\ outbox \in Seq(Events)
  <2>1. IsFiniteSet(D)
    BY <1>1, ConstantsAssumption, FS_Subset
  <2>2. n \in Nat
    BY <2>1, FS_CardinalityType
  <2> QED
    BY <2>2 DEF Payload, IInv, ShapeInv
<1>4. \E order \in OldestFirst(listed) : outbox' = Listed(outbox, listed, order, n, t, m)
  BY DEF AnnounceOffline, Listed
<1>5. /\ sensors' = [s \in Sensors |-> IF s \in D THEN mark_offline(listed[s], t) ELSE sensors[s]]
      /\ lost' = (lost \/ \E s \in D : sensors[s] # listed[s])
      /\ job' = [job EXCEPT ![j] = Idle]
      /\ UNCHANGED <<now, raw, offset, readings, projected, rollups, latest, ingest, removed>>
  BY DEF AnnounceOffline, Overwrites, device, readSide
<1>6. \A s \in D : /\ Seen(s, listed[s]) /\ listed[s].last_seen_at # Never /\ listed[s].offline_announced_at = Never
  BY <1>1 DEF IInv, SeenInv
<1>7. \A order \in OldestFirst(listed) : order \in Bijection(1 .. n, D)
  BY DEF OldestFirst
<1> HIDE DEF listed, t, m, n
<1>8. ASSUME NEW s \in D
      PROVE  /\ mark_offline(listed[s], t) \in SensorModel /\ mark_offline(listed[s], t) # NoRow
             /\ mark_offline(listed[s], t).last_seen_at = listed[s].last_seen_at
             /\ mark_offline(listed[s], t).offline_announced_at = t
             /\ listed[s] \in SensorModel
  <2>1. listed[s] \in SensorModel /\ t \in 0 .. MaxTime /\ ~(-1 \in 0 .. MaxTime)
    BY <1>1, <1>2, ConstantsAssumption DEF Times
  <2> QED
    BY <2>1 DEF mark_offline, SensorModel, NoRow
<1>9. PICK order \in OldestFirst(listed) : outbox' = Listed(outbox, listed, order, n, t, m)
  BY <1>4
<1>10. order \in Bijection(1 .. n, D)
  BY <1>7
<1>11. Follows(outbox, outbox', listed, t)
  BY <1>1, <1>2, <1>3, <1>9, <1>10, ListedLog
<1>12. Silences(listed, t)
  BY <1>1, <1>2, <1>5, <1>6, <1>8, <1>11 DEF Silences
<1> QED
  BY <1>5, <1>12 DEF listed, t

\* The row of an announced sensor agrees with the log, if what the job had listed
\* was still the row: its silence was not announced before.
LEMMA AnnounceKeepsRow ==
  ASSUME IInv, NEW listed, NEW t, Silences(listed, t), ~lost', NEW s \in DOMAIN listed, s \notin removed
  PROVE  RowAgrees(s)'
<1> DEFINE L == Len(outbox)
           M == Len(outbox')
           new == mark_offline(listed[s], t)
<1>1. /\ ~lost /\ sensors[s] = listed[s] /\ listed[s] \in SensorModel /\ s \in Sensors
      /\ sensors'[s] = new /\ new.last_seen_at = listed[s].last_seen_at /\ new.offline_announced_at = t
      /\ listed[s].offline_announced_at = Never /\ t \in Times
      /\ L \in Nat /\ M \in Nat /\ L <= M /\ Prefix(outbox, outbox')
  BY DEF Silences, Follows, Prefix
<1>2. RowAgrees(s) /\ listed[s].last_seen_at \in Nat /\ t # Never
  <2>1. sensors[s] # NoRow
    BY <1>1, ConstantsAssumption DEF SensorModel, NoRow
  <2> QED
    BY <1>1, <2>1, ConstantsAssumption DEF IInv, SilenceInv, SensorModel, Times, Never
<1>3. PICK k \in L + 1 .. M : outbox'[k].sensor = s
  BY DEF Silences, Follows
<1>4. /\ \A i \in 1 .. L : outbox'[i] = outbox[i] /\ i \in 1 .. M
      /\ \A i \in 1 .. M : i \in 1 .. L \/ i \in L + 1 .. M
      /\ k \in 1 .. M /\ \A i \in k + 1 .. M : i \in L + 1 .. M /\ i # k
  BY <1>1, <1>3 DEF Prefix
<1>5. /\ \A i \in L + 1 .. M : ~Rec(outbox', i, s) /\ (Off(outbox', i, s) <=> i = k)
      /\ outbox'[k].at = t /\ outbox'[k].seen = listed[s].last_seen_at
  BY <1>3 DEF Silences, Follows, Rec, Off
<1>6. \A i \in 1 .. L : /\ Rec(outbox', i, s) <=> Rec(outbox, i, s)
                        /\ Off(outbox', i, s) <=> Off(outbox, i, s)
  BY <1>4 DEF Rec, Off
<1> HIDE DEF L, M, new
<1>7. NewestReading(outbox', s, M, listed[s].last_seen_at)
  <2>1. NewestReading(outbox, s, L, listed[s].last_seen_at)
    BY <1>1, <1>2 DEF RowAgrees, L
  <2> QED
    BY <1>4, <1>5, <1>6, <2>1 DEF NewestReading
<1>8. \A i \in 1 .. L : Off(outbox', i, s) =>
        outbox'[i].seen <= listed[s].last_seen_at /\ outbox'[i].seen # listed[s].last_seen_at
  BY <1>1, <1>2, <1>4, <1>6 DEF RowAgrees, L
<1>9. \A i \in 1 .. M : Off(outbox', i, s) => outbox'[i].seen <= listed[s].last_seen_at
  BY <1>2, <1>4, <1>5, <1>8
<1>10. \A h, i \in 1 .. M : h # i /\ Off(outbox', h, s) /\ Off(outbox', i, s) => outbox'[h].seen # outbox'[i].seen
  <2>1. \A h, i \in 1 .. L : h # i /\ Off(outbox', h, s) /\ Off(outbox', i, s) => outbox'[h].seen # outbox'[i].seen
    BY <1>2, <1>4, <1>6 DEF RowAgrees, L
  <2> QED
    BY <1>4, <1>5, <1>8, <2>1
<1>11. OfflineAt(outbox', s, M, t)
  <2>1. Off(outbox', k, s) /\ \A i \in k + 1 .. M : ~Off(outbox', i, s) /\ ~Newer(outbox', i, s)
    BY <1>3, <1>4, <1>5 DEF Newer
  <2> QED
    BY <1>1, <1>2, <1>4, <1>5, <2>1, OfflineNow
<1> QED
  BY <1>1, <1>2, <1>7, <1>9, <1>10, <1>11 DEF RowAgrees, M

\* Announcing silences keeps the invariant.
LEMMA AnnounceOfflineKeeps == ASSUME IInv, NEW j \in SilenceJobs, AnnounceOffline(j) PROVE IInv'
<1>1. PICK listed, t : Silences(listed, t) /\ listed = job[j].rows
  BY AnnouncesSilences
<1> DEFINE L == Len(outbox)
           M == Len(outbox')
<1>2. /\ DOMAIN listed \subseteq Sensors /\ Prefix(outbox, outbox') /\ L \in Nat /\ M \in Nat /\ L <= M
      /\ UNCHANGED <<now, raw, offset, readings, projected, rollups, latest, ingest, removed>>
      /\ lost' = (lost \/ \E s \in DOMAIN listed : sensors[s] # listed[s])
  BY <1>1 DEF Silences, Follows, Prefix
<1>3. /\ job' \in [SilenceJobs -> {Idle} \cup Listing]
      /\ \A h \in SilenceJobs : job'[h] = IF h = j THEN Idle ELSE job[h]
  BY AnnouncesSilences DEF IInv, ShapeInv
<1>4. /\ \A s \in DOMAIN listed : /\ sensors'[s] \in SensorModel /\ sensors'[s] # NoRow
                                  /\ sensors'[s].last_seen_at = listed[s].last_seen_at
                                  /\ listed[s].last_seen_at # Never /\ Seen(s, listed[s])
      /\ \A s \in Sensors \ DOMAIN listed : sensors'[s] = sensors[s]
  BY <1>1 DEF Silences, Follows
<1>5. /\ sensors' \in [Sensors -> {NoRow} \cup SensorModel]
  <2>1. DOMAIN sensors' = Sensors /\ sensors' = [s \in Sensors |-> sensors'[s]]
    BY <1>1 DEF Silences, Follows
  <2>2. \A s \in Sensors : sensors'[s] \in {NoRow} \cup SensorModel
    BY <1>4 DEF IInv, ShapeInv
  <2> QED
    BY <2>1, <2>2
<1>6. /\ \A k \in 1 .. L : outbox'[k] = outbox[k] /\ k \in 1 .. M
      /\ \A k \in 1 .. M : k \in 1 .. L \/ k \in L + 1 .. M
      /\ \A k \in L + 1 .. M : outbox'[k].type = "offline" /\ outbox'[k].sensor \in DOMAIN listed
  BY <1>1, <1>2 DEF Silences, Follows, Prefix
<1>7. ShapeInv'
  <2>1. outbox' \in Seq(Events) /\ projected' \in 0 .. Len(outbox')
    BY <1>2 DEF IInv, ShapeInv, Prefix
  <2>2. lost' \in BOOLEAN
    BY <1>2 DEF IInv, ShapeInv
  <2> QED
    BY <1>2, <1>3, <1>5, <2>1, <2>2 DEF IInv, ShapeInv, Message
<1> HIDE DEF L, M
<1>8. StoredInv'
  <2>1. \A k \in 1 .. M : outbox'[k].type = "received" => k \in 1 .. L
    BY <1>6
  <2>2. \A k \in 1 .. M : outbox'[k].type = "received" =>
          [sensor |-> outbox'[k].sensor, at |-> outbox'[k].at, m |-> outbox'[k].m] \in readings'
    BY <1>2, <1>6, <2>1 DEF IInv, StoredInv, L
  <2>3. \A r \in readings' : \E k \in 1 .. M :
          Rec(outbox', k, r.sensor) /\ outbox'[k].at = r.at /\ outbox'[k].m = r.m
    <3> TAKE r \in readings'
    <3>1. PICK k \in 1 .. L : Rec(outbox, k, r.sensor) /\ outbox[k].at = r.at /\ outbox[k].m = r.m
      BY <1>2 DEF IInv, StoredInv, L
    <3> QED
      BY <1>6, <3>1 DEF Rec
  <2>4. \A h, k \in 1 .. M :
          (/\ outbox'[h].type = "received" /\ outbox'[k].type = "received"
           /\ outbox'[h].sensor = outbox'[k].sensor /\ outbox'[h].at = outbox'[k].at)
            => h = k
    BY <1>6, <2>1 DEF IInv, StoredInv, L
  <2> QED
    BY <2>2, <2>3, <2>4 DEF StoredInv, M
<1>9. SeenInv'
  <2>1. \A s \in Sensors : sensors'[s] # NoRow => Seen(s, sensors[s])'
    <3> TAKE s \in Sensors
    <3>1. CASE s \in DOMAIN listed
      BY <1>2, <1>4, <3>1 DEF Seen
    <3>2. CASE s \notin DOMAIN listed
      BY <1>2, <1>4, <3>2 DEF IInv, SeenInv, Seen
    <3> QED
      BY <3>1, <3>2
  <2> QED
    BY <1>2, <1>3, <2>1 DEF IInv, SeenInv, Seen
<1>10. PrecededInv'
  <2> SUFFICES ASSUME NEW k \in 1 .. M, outbox'[k].type # "received"
               PROVE  \E i \in 1 .. k - 1 : Rec(outbox', i, outbox'[k].sensor)
    BY DEF PrecededInv, M
  <2>1. CASE k \in 1 .. L
    <3>1. PICK i \in 1 .. k - 1 : Rec(outbox, i, outbox[k].sensor)
      BY <1>6, <2>1 DEF IInv, PrecededInv, L
    <3>2. i \in 1 .. L
      BY <1>2, <2>1
    <3> QED
      BY <1>6, <2>1, <3>1, <3>2 DEF Rec
  <2>2. CASE k \in L + 1 .. M
    <3> DEFINE s == outbox'[k].sensor
    <3>1. s \in DOMAIN listed
      BY <1>6, <2>2
    <3>2. PICK r \in readings : r.sensor = s
      BY <1>4, <3>1 DEF Seen
    <3>3. PICK i \in 1 .. L : Rec(outbox, i, s)
      BY <3>2 DEF IInv, StoredInv, L
    <3>4. i \in 1 .. k - 1
      BY <1>2, <2>2, <3>3
    <3> QED
      BY <1>6, <3>3, <3>4 DEF Rec
  <2> QED
    BY <1>6, <2>1, <2>2
<1>11. KnownInv'
  <2> SUFFICES ASSUME NEW s \in Sensors \ removed', sensors'[s] = NoRow
               PROVE  /\ \A k \in 1 .. M : outbox'[k].sensor # s
                      /\ \A h \in Ingesters : ingest'[h] # Idle => ingest'[h].sensor # s
                      /\ \A h \in SilenceJobs : job'[h] # Idle => s \notin DOMAIN job'[h].rows
    BY DEF KnownInv, M
  <2>1. s \notin DOMAIN listed /\ sensors[s] = NoRow /\ s \in Sensors \ removed
    BY <1>2, <1>4
  <2>2. \A k \in 1 .. M : outbox'[k].sensor # s
    BY <1>6, <2>1 DEF IInv, KnownInv, L
  <2> QED
    BY <1>2, <1>3, <2>1, <2>2 DEF IInv, KnownInv
<1>12. SilenceInv'
  <2> SUFFICES ASSUME ~lost', NEW s \in Sensors \ removed', sensors'[s] # NoRow PROVE RowAgrees(s)'
    BY DEF SilenceInv
  <2>1. CASE s \in DOMAIN listed
    BY <1>1, <1>2, <2>1, AnnounceKeepsRow
  <2>2. CASE s \notin DOMAIN listed
    <3>1. /\ RowAgrees(s) /\ sensors'[s] = sensors[s]
      BY <1>2, <1>4, <2>2 DEF IInv, SilenceInv
    <3>2. \A k \in L + 1 .. M : ~Rec(outbox', k, s) /\ ~Off(outbox', k, s) /\ ~Newer(outbox', k, s)
      BY <1>6, <2>2 DEF Rec, Off, Newer
    <3>3. \A k \in 1 .. L : /\ Rec(outbox', k, s) <=> Rec(outbox, k, s)
                            /\ Off(outbox', k, s) <=> Off(outbox, k, s)
      BY <1>6 DEF Rec, Off
    <3>4. NewestReading(outbox', s, M, sensors[s].last_seen_at)
      BY <1>6, <3>1, <3>2, <3>3 DEF RowAgrees, NewestReading, L
    <3>5. OfflineAt(outbox', s, M, sensors[s].offline_announced_at)
      <4>1. OfflineAt(outbox', s, L, sensors[s].offline_announced_at)
        BY <1>2, <3>1, PrefixSame DEF RowAgrees, L
      <4> QED
        BY <1>2, <3>2, <4>1, OfflineQuiet
    <3>6. /\ \A k \in 1 .. M : Off(outbox', k, s) => k \in 1 .. L /\ Off(outbox, k, s) /\ outbox'[k] = outbox[k]
      BY <1>6, <3>2, <3>3
    <3> QED
      BY <3>1, <3>4, <3>5, <3>6 DEF RowAgrees, L, M
  <2> QED
    BY <2>1, <2>2
<1>13. LatestInv' /\ RollupInv'
  BY <1>2, ReadSideFrame
<1> QED
  BY <1>7, <1>8, <1>9, <1>10, <1>11, <1>12, <1>13 DEF IInv

-----------------------------------------------------------------------------
(* An event is projected *)

\* One more event adds at most itself to a window.
LEMMA WindowStep ==
  ASSUME NEW o, NEW p \in Nat, NEW w
  PROVE  Window(o, p + 1, w) =
           IF Rec(o, p + 1, w[1]) /\ window_start(o[p + 1].at) = w[2]
           THEN Window(o, p, w) \cup {o[p + 1]} ELSE Window(o, p, w)
<1>1. \A k \in 1 .. p + 1 : k \in 1 .. p \/ k = p + 1
  OBVIOUS
<1>2. p + 1 \in 1 .. p + 1 /\ \A k \in 1 .. p : k \in 1 .. p + 1
  OBVIOUS
<1>3. ASSUME NEW e
      PROVE  e \in Window(o, p + 1, w) <=>
               e \in Window(o, p, w)
                 \/ (e = o[p + 1] /\ Rec(o, p + 1, w[1]) /\ window_start(o[p + 1].at) = w[2])
  BY <1>1, <1>2 DEF Window
<1> QED
  BY <1>3

\* What the projection has seen of a sensor that has an alert or a silence in the
\* log: at least one reading.
LEMMA HasLatest ==
  ASSUME IInv, projected < Len(outbox), outbox[projected + 1].type # "received"
  PROVE  LET row == latest[outbox[projected + 1].sensor] IN row # NoLatest /\ row.recorded_at # Never
<1> DEFINE s == outbox[projected + 1].sensor
<1>1. projected \in Nat /\ projected + 1 \in 1 .. Len(outbox) /\ outbox \in Seq(Events) /\ s \in Sensors
  BY Entry DEF IInv, ShapeInv
<1>2. PICK j \in 1 .. (projected + 1) - 1 : Rec(outbox, j, s)
  BY <1>1 DEF IInv, PrecededInv
<1>3. j \in 1 .. projected /\ j \in 1 .. Len(outbox)
  BY <1>1, <1>2
<1>4. outbox[j].at \in Nat /\ outbox[j].at # 0
  BY <1>1, <1>3, Entry DEF Never
<1>5. latest[s].recorded_at \in Nat /\ outbox[j].at <= latest[s].recorded_at
  BY <1>1, <1>2, <1>3 DEF IInv, LatestInv, LatestRow, NewestReading
<1>6. latest[s].recorded_at # 0
  BY <1>4, <1>5
<1> QED
  BY <1>6 DEF NoLatest, Never

\* The latest row of a sensor follows its events.
LEMMA ProjectKeepsLatest == IInv /\ Project => LatestInv'
<1> SUFFICES ASSUME IInv, Project PROVE LatestInv'
  OBVIOUS
<1> DEFINE p == projected
           e == outbox[p + 1]
           s == e.sensor
           row == latest[s]
           new == IF e.type = "received" THEN UPSERT_LATEST(row, e.at)
                  ELSE IF e.type = "offline" THEN ANNOUNCE_OFFLINE(row, e.at) ELSE RECORD_ALERT(row, e.at)
<1>1. /\ p \in Nat /\ p < Len(outbox) /\ projected' = p + 1 /\ p + 1 \in 1 .. Len(outbox)
      /\ outbox' = outbox /\ outbox \in Seq(Events)
  BY DEF Project, writeSide, IInv, ShapeInv
<1>2. /\ e.type \in Types /\ s \in Sensors /\ e.at \in Times /\ e.at \in Nat /\ e.at # 0
  BY <1>1, Entry DEF Never
<1>3. latest' = [latest EXCEPT ![s] = new]
  BY DEF Project
<1>4. /\ row \in LatestRow /\ row.recorded_at \in Nat /\ row.last_alert_at \in Nat
      /\ (row.recorded_at = 0 => row = NoLatest)
      /\ NewestReading(outbox, s, p, row.recorded_at)
      /\ NewestAlert(outbox, s, p, row.last_alert_at)
      /\ OfflineAt(outbox, s, p, row.offline_at)
  BY <1>2 DEF IInv, LatestInv, LatestRow, Never
<1>5. e.type # "received" => row # NoLatest /\ row.recorded_at # 0
  BY <1>1, HasLatest DEF Never
<1>6. /\ \A k \in 1 .. p + 1 : k \in 1 .. p \/ k = p + 1
      /\ \A k \in 1 .. p : k \in 1 .. p + 1
      /\ p + 1 \in 1 .. p + 1 /\ p + 1 \in Nat /\ p <= p + 1
      /\ \A k \in p + 1 .. p + 1 : k = p + 1
      /\ \A k \in (p + 1) + 1 .. p + 1 : FALSE
      /\ \A k \in 1 .. (p + 1) - 1 : k \in 1 .. p
  BY <1>1
<1>7. 0 \in 0 .. MaxTime /\ e.at \in 0 .. MaxTime
  BY <1>2, ConstantsAssumption DEF Times
<1>8. \A t : /\ Rec(outbox, p + 1, t) <=> e.type = "received" /\ t = s
             /\ Off(outbox, p + 1, t) <=> e.type = "offline" /\ t = s
             /\ Alarm(outbox, p + 1, t) <=> e.type \in AlertTypes /\ t = s
  BY DEF Rec, Off, Alarm
<1> HIDE DEF e, s, row, new, p
<1>9. /\ new \in LatestRow /\ (new.recorded_at = 0 => new = NoLatest)
      /\ NewestReading(outbox, s, p + 1, new.recorded_at)
      /\ NewestAlert(outbox, s, p + 1, new.last_alert_at)
      /\ OfflineAt(outbox, s, p + 1, new.offline_at)
  <2>1. CASE e.type = "received" /\ e.at > row.recorded_at
    <3>1. /\ new = [row EXCEPT !.recorded_at = e.at, !.offline_at = 0] /\ new \in LatestRow
          /\ new.recorded_at = e.at /\ new.offline_at = 0 /\ new.last_alert_at = row.last_alert_at
      BY <1>4, <1>7, <2>1 DEF new, UPSERT_LATEST, LatestRow, Never
    <3>2. /\ Rec(outbox, p + 1, s) /\ ~Off(outbox, p + 1, s) /\ ~Alarm(outbox, p + 1, s)
          /\ outbox[p + 1].at = e.at
      BY <1>8, <2>1 DEF AlertTypes, e
    <3>3. \A k \in 1 .. p : outbox[k].at \in Nat
      <4> TAKE k \in 1 .. p
      <4>1. k \in 1 .. Len(outbox)
        BY <1>1
      <4> QED
        BY <1>1, <4>1, Entry
    <3>4. \A k \in 1 .. p : Rec(outbox, k, s) => outbox[k].at < e.at /\ outbox[k].at <= e.at
      BY <1>2, <1>4, <2>1, <3>3 DEF NewestReading
    <3>5. NewestReading(outbox, s, p + 1, e.at)
      BY <1>2, <1>6, <3>2, <3>4 DEF NewestReading
    <3>6. NewestAlert(outbox, s, p + 1, row.last_alert_at)
      BY <1>4, <1>6, <3>2 DEF NewestAlert
    <3>7. Newer(outbox, p + 1, s)
      BY <1>6, <3>2, <3>4 DEF Newer
    <3>8. OfflineAt(outbox, s, p + 1, 0)
      <4>1. p + 1 \in p + 1 .. p + 1
        BY <1>1
      <4> QED
        BY <1>1, <1>6, <3>2, <3>7, <4>1, OfflineBack DEF Never
    <3> QED
      BY <1>2, <3>1, <3>5, <3>6, <3>8
  <2>2. CASE e.type = "received" /\ ~(e.at > row.recorded_at)
    <3>1. new = row /\ row.recorded_at # 0 /\ e.at <= row.recorded_at
      BY <1>2, <1>4, <2>2 DEF new, UPSERT_LATEST
    <3>2. /\ Rec(outbox, p + 1, s) /\ ~Off(outbox, p + 1, s) /\ ~Alarm(outbox, p + 1, s)
          /\ outbox[p + 1].at = e.at
      BY <1>8, <2>2 DEF AlertTypes, e
    <3>3. PICK k \in 1 .. p : Rec(outbox, k, s) /\ outbox[k].at = row.recorded_at
      BY <1>4, <3>1 DEF NewestReading, Never
    <3>4. NewestReading(outbox, s, p + 1, row.recorded_at)
      BY <1>4, <1>6, <3>1, <3>2 DEF NewestReading
    <3>5. NewestAlert(outbox, s, p + 1, row.last_alert_at)
      BY <1>4, <1>6, <3>2 DEF NewestAlert
    <3>6. ~Newer(outbox, p + 1, s)
      <4>1. k \in 1 .. (p + 1) - 1 /\ ~(outbox[k].at < outbox[p + 1].at)
        BY <1>1, <1>2, <1>4, <3>1, <3>2, <3>3
      <4> QED
        BY <3>3, <4>1 DEF Newer
    <3>7. OfflineAt(outbox, s, p + 1, row.offline_at)
      BY <1>1, <1>4, <1>6, <3>2, <3>6, OfflineQuiet
    <3> QED
      BY <1>4, <3>1, <3>4, <3>5, <3>7
  <2>3. CASE e.type = "offline"
    <3>1. /\ new = [row EXCEPT !.offline_at = e.at] /\ new \in LatestRow
          /\ new.recorded_at = row.recorded_at /\ new.offline_at = e.at /\ new.last_alert_at = row.last_alert_at
      BY <1>4, <1>5, <1>7, <2>3 DEF new, ANNOUNCE_OFFLINE, LatestRow
    <3>2. /\ ~Rec(outbox, p + 1, s) /\ Off(outbox, p + 1, s) /\ ~Alarm(outbox, p + 1, s)
          /\ outbox[p + 1].at = e.at
      BY <1>8, <2>3 DEF AlertTypes, e
    <3>3. NewestReading(outbox, s, p + 1, row.recorded_at)
      BY <1>4, <1>6, <3>2 DEF NewestReading
    <3>4. NewestAlert(outbox, s, p + 1, row.last_alert_at)
      BY <1>4, <1>6, <3>2 DEF NewestAlert
    <3>5. OfflineAt(outbox, s, p + 1, e.at)
      <4>1. outbox[p + 1].at # Never
        BY <1>2, <3>2 DEF Never
      <4> QED
        BY <1>6, <3>2, <4>1, OfflineNow
    <3> QED
      BY <1>5, <2>3, <3>1, <3>3, <3>4, <3>5
  <2>4. CASE e.type \in AlertTypes
    <3>1. e.type # "received" /\ e.type # "offline"
      BY <2>4 DEF AlertTypes
    <3>2. /\ ~Rec(outbox, p + 1, s) /\ ~Off(outbox, p + 1, s) /\ Alarm(outbox, p + 1, s)
          /\ outbox[p + 1].at = e.at
      BY <1>8, <2>4, <3>1 DEF e
    <3>3. /\ new \in LatestRow /\ new.recorded_at = row.recorded_at /\ new.offline_at = row.offline_at
          /\ new.last_alert_at = IF row.last_alert_at <= e.at THEN e.at ELSE row.last_alert_at
      BY <1>4, <1>5, <1>7, <3>1 DEF new, RECORD_ALERT, LatestRow
    <3>4. NewestReading(outbox, s, p + 1, row.recorded_at)
      BY <1>4, <1>6, <3>2 DEF NewestReading
    <3>5. NewestAlert(outbox, s, p + 1, new.last_alert_at)
      <4>1. \A k \in 1 .. p : outbox[k].at \in Nat
        <5> TAKE k \in 1 .. p
        <5>1. k \in 1 .. Len(outbox)
          BY <1>1
        <5> QED
          BY <1>1, <5>1, Entry
      <4>2. CASE row.last_alert_at <= e.at
        <5>1. new.last_alert_at = e.at
          BY <3>3, <4>2
        <5>2. \A k \in 1 .. p + 1 : Alarm(outbox, k, s) => outbox[k].at <= e.at
          BY <1>2, <1>4, <1>6, <3>2, <4>1, <4>2 DEF NewestAlert
        <5> QED
          BY <1>6, <3>2, <5>1, <5>2 DEF NewestAlert
      <4>3. CASE ~(row.last_alert_at <= e.at)
        <5>1. new.last_alert_at = row.last_alert_at /\ e.at <= row.last_alert_at
          BY <1>2, <1>4, <3>3, <4>3
        <5> QED
          BY <1>4, <1>6, <3>2, <5>1 DEF NewestAlert
      <4> QED
        BY <4>2, <4>3
    <3>6. OfflineAt(outbox, s, p + 1, row.offline_at)
      <4>1. ~Newer(outbox, p + 1, s)
        BY <3>2 DEF Newer
      <4> QED
        BY <1>1, <1>4, <1>6, <3>2, <4>1, OfflineQuiet
    <3> QED
      BY <1>5, <3>1, <3>3, <3>4, <3>5, <3>6
  <2> QED
    BY <1>2, <2>1, <2>2, <2>3, <2>4 DEF Types
<1>10. ASSUME NEW t \in Sensors, t # s
       PROVE  /\ NewestReading(outbox, t, p + 1, latest[t].recorded_at)
              /\ NewestAlert(outbox, t, p + 1, latest[t].last_alert_at)
              /\ OfflineAt(outbox, t, p + 1, latest[t].offline_at)
  <2>1. ~Rec(outbox, p + 1, t) /\ ~Off(outbox, p + 1, t) /\ ~Alarm(outbox, p + 1, t) /\ ~Newer(outbox, p + 1, t)
    BY <1>8, <1>10 DEF Newer
  <2>2. /\ NewestReading(outbox, t, p, latest[t].recorded_at)
        /\ NewestAlert(outbox, t, p, latest[t].last_alert_at)
        /\ OfflineAt(outbox, t, p, latest[t].offline_at)
    BY DEF IInv, LatestInv, p
  <2>3. OfflineAt(outbox, t, p + 1, latest[t].offline_at)
    BY <1>1, <1>6, <2>1, <2>2, OfflineQuiet
  <2> QED
    BY <1>6, <2>1, <2>2, <2>3 DEF NewestReading, NewestAlert
<1>11. /\ latest' \in [Sensors -> LatestRow] /\ latest'[s] = new
       /\ \A t \in Sensors : t # s => latest'[t] = latest[t]
  BY <1>2, <1>3, <1>9 DEF IInv, LatestInv
<1>12. \A t \in Sensors : latest[t].recorded_at = 0 => latest[t] = NoLatest
  BY DEF IInv, LatestInv, Never
<1>13. ASSUME NEW t \in Sensors
       PROVE  /\ latest'[t].recorded_at = Never => latest'[t] = NoLatest
              /\ NewestReading(outbox', t, projected', latest'[t].recorded_at)
              /\ NewestAlert(outbox', t, projected', latest'[t].last_alert_at)
              /\ OfflineAt(outbox', t, projected', latest'[t].offline_at)
  <2>1. CASE t = s
    BY <1>1, <1>9, <1>11, <2>1 DEF Never
  <2>2. CASE t # s
    BY <1>1, <1>10, <1>11, <1>12, <2>2 DEF Never
  <2> QED
    BY <2>1, <2>2
<1> QED
  BY <1>11, <1>13 DEF LatestInv

\* The rollup of a window follows its readings.
LEMMA ProjectKeepsRollups == IInv /\ Project => RollupInv'
<1> SUFFICES ASSUME IInv, Project PROVE RollupInv'
  OBVIOUS
<1> DEFINE p == projected
           e == outbox[p + 1]
           v == e.m.moisture
           c == <<e.sensor, window_start(e.at)>>
           Exact(roll, in) ==
             /\ roll \in Rollup /\ IsFiniteSet(in) /\ roll.count = Cardinality(in)
             /\ roll.sum = Total(in)
             /\ \A x \in in : roll.min <= x.m.moisture /\ x.m.moisture <= roll.max
             /\ in # {} => /\ \E x \in in : x.m.moisture = roll.min
                           /\ \E x \in in : x.m.moisture = roll.max
<1>1. /\ p \in Nat /\ p < Len(outbox) /\ projected' = p + 1 /\ p + 1 \in 1 .. Len(outbox)
      /\ outbox' = outbox /\ outbox \in Seq(Events)
  BY DEF Project, writeSide, IInv, ShapeInv
<1>2. \A w \in Windows : Exact(rollups[w], Window(outbox, p, w))
  BY DEF IInv, RollupInv
<1>3. CASE e.type # "received"
  <2>1. rollups' = rollups
    BY <1>3 DEF Project
  <2>2. \A w \in Windows : Window(outbox, p + 1, w) = Window(outbox, p, w)
    <3>1. \A t : ~Rec(outbox, p + 1, t)
      BY <1>3 DEF Rec
    <3> QED
      BY <1>1, <3>1, WindowStep
  <2> QED
    BY <1>1, <2>1, <2>2 DEF IInv, RollupInv
<1>4. CASE e.type = "received"
  <2>1. rollups' = [rollups EXCEPT ![c] = UPSERT_ROLLUP(@, v)]
    BY <1>4 DEF Project
  <2>2. \A k \in 1 .. Len(outbox) : outbox[k].type = "received" => outbox[k].m.moisture \in Int
    <3> TAKE k \in 1 .. Len(outbox)
    <3> HAVE outbox[k].type = "received"
    <3>1. [sensor |-> outbox[k].sensor, at |-> outbox[k].at, m |-> outbox[k].m] \in SensorReadingModel
      BY DEF IInv, StoredInv, ShapeInv
    <3>2. outbox[k].m \in Measurements
      BY <3>1 DEF SensorReadingModel
    <3> QED
      BY <3>2, ConstantsAssumption
  <2>3. v \in Int
    BY <1>1, <1>4, <2>2
  <2>4. ASSUME NEW w \in Windows, NEW x \in Window(outbox, p, w) PROVE x.m.moisture \in Int /\ x # e
    <3>1. PICK k \in 1 .. p : Rec(outbox, k, w[1]) /\ x = outbox[k]
      BY DEF Window
    <3>2. k \in 1 .. Len(outbox) /\ k # p + 1 /\ outbox[k].type = "received"
      BY <1>1, <3>1 DEF Rec
    <3>3. ~(outbox[k].sensor = e.sensor /\ outbox[k].at = e.at)
      BY <1>1, <1>4, <3>2 DEF IInv, StoredInv
    <3> QED
      BY <2>2, <3>1, <3>2, <3>3
  <2>5. ASSUME NEW w \in Windows, w = c PROVE Exact(rollups'[w], Window(outbox, p + 1, w))
    <3> DEFINE in == Window(outbox, p, w)
               roll == rollups[w]
               new == UPSERT_ROLLUP(roll, v)
    <3>1. rollups'[w] = new /\ roll \in Rollup
      BY <2>1, <2>5 DEF IInv, RollupInv
    <3>2. Window(outbox, p + 1, w) = in \cup {e}
      <4>1. Rec(outbox, p + 1, w[1]) /\ window_start(outbox[p + 1].at) = w[2]
        BY <1>4, <2>5 DEF Rec
      <4> QED
        BY <1>1, <4>1, WindowStep
    <3>3. Exact(roll, in) /\ e \notin in /\ \A x \in in : x.m.moisture \in Int
      BY <1>2, <2>4
    <3> HIDE DEF in, roll, e
    <3>4. IsFiniteSet(in \cup {e}) /\ Cardinality(in \cup {e}) = Cardinality(in) + 1
      BY <3>3, FS_AddElement
    <3>5. Total(in \cup {e}) = Total(in) + v
      BY <2>3, <3>3, TotalGrows
    <3>6. /\ roll.count \in Nat /\ roll.sum \in Int /\ roll.min \in Int /\ roll.max \in Int
          /\ (roll.count = 0 <=> in = {})
      BY <3>1, <3>3, FS_EmptySet DEF Rollup
    <3>7. /\ new.count = roll.count + 1 /\ new.sum = roll.sum + v
          /\ new.min = IF roll.count = 0 \/ v < roll.min THEN v ELSE roll.min
          /\ new.max = IF roll.count = 0 \/ v > roll.max THEN v ELSE roll.max
      BY DEF UPSERT_ROLLUP
    <3>8. new \in Rollup
      BY <2>3, <3>6 DEF UPSERT_ROLLUP, Rollup
    <3> HIDE DEF new, v
    <3>9. \A x \in in \cup {e} : new.min <= x.m.moisture /\ x.m.moisture <= new.max
      <4> TAKE x \in in \cup {e}
      <4>1. CASE x \in in
        <5>1. roll.min <= x.m.moisture /\ x.m.moisture <= roll.max /\ x.m.moisture \in Int /\ roll.count # 0
          BY <3>3, <3>6, <4>1
        <5> QED
          BY <2>3, <3>6, <3>7, <5>1
      <4>2. CASE x = e
        <5>1. x.m.moisture = v
          BY <4>2 DEF v
        <5> QED
          BY <2>3, <3>6, <3>7, <5>1
      <4> QED
        BY <4>1, <4>2
    <3>10. \E x \in in \cup {e} : x.m.moisture = new.min
      <4>1. CASE new.min = v
        BY <4>1 DEF v
      <4>2. CASE new.min = roll.min /\ roll.count # 0
        BY <3>3, <3>6, <4>2
      <4> QED
        BY <3>7, <4>1, <4>2
    <3>11. \E x \in in \cup {e} : x.m.moisture = new.max
      <4>1. CASE new.max = v
        BY <4>1 DEF v
      <4>2. CASE new.max = roll.max /\ roll.count # 0
        BY <3>3, <3>6, <4>2
      <4> QED
        BY <3>7, <4>1, <4>2
    <3>12. new.count = Cardinality(in \cup {e}) /\ new.sum = Total(in \cup {e})
      BY <3>3, <3>4, <3>5, <3>7
    <3>13. Exact(new, in \cup {e})
      BY <3>4, <3>8, <3>9, <3>10, <3>11, <3>12
    <3> QED
      BY <3>1, <3>2, <3>13
  <2>6. ASSUME NEW w \in Windows, w # c PROVE Exact(rollups'[w], Window(outbox, p + 1, w))
    <3>1. rollups'[w] = rollups[w]
      BY <2>1, <2>6 DEF IInv, RollupInv
    <3>2. ~(Rec(outbox, p + 1, w[1]) /\ window_start(outbox[p + 1].at) = w[2])
      BY <2>6 DEF Rec, Windows
    <3>3. Window(outbox, p + 1, w) = Window(outbox, p, w)
      BY <1>1, <3>2, WindowStep
    <3> QED
      BY <1>2, <3>1, <3>3
  <2>7. \A w \in Windows : Exact(rollups'[w], Window(outbox, p + 1, w))
    BY <2>5, <2>6
  <2>8. rollups' \in [Windows -> Rollup]
    <3>1. DOMAIN rollups' = Windows /\ rollups' = [w \in Windows |-> rollups'[w]]
      BY <2>1 DEF IInv, RollupInv
    <3>2. \A w \in Windows : rollups'[w] \in Rollup
      BY <2>7
    <3> QED
      BY <3>1, <3>2
  <2> QED
    BY <1>1, <2>7, <2>8 DEF RollupInv
<1> QED
  BY <1>3, <1>4

\* Projecting an event keeps the invariant.
LEMMA ProjectKeeps == IInv /\ Project => IInv'
<1> SUFFICES ASSUME IInv, Project PROVE IInv'
  OBVIOUS
<1>1. /\ UNCHANGED <<now, raw, offset, sensors, readings, outbox, ingest, job, removed, lost>>
      /\ projected' = projected + 1 /\ projected < Len(outbox)
  BY DEF Project, device, writeSide, workers, history
<1>2. ShapeInv'
  <2>1. projected' \in 0 .. Len(outbox')
    BY <1>1 DEF IInv, ShapeInv
  <2> QED
    BY <1>1, <2>1 DEF IInv, ShapeInv, Message
<1>3. LatestInv' /\ RollupInv'
  BY ProjectKeepsLatest, ProjectKeepsRollups
<1> QED
  BY <1>1, <1>2, <1>3, Frames DEF IInv

-----------------------------------------------------------------------------
(* The theorems *)

\* Nothing is stored, announced or projected at the start.
LEMMA InitEstablishes == Init => IInv
<1> SUFFICES ASSUME Init PROVE IInv
  OBVIOUS
<1>1. ShapeInv
  <2>1. now \in Times /\ 0 \in 0 .. MaxTime
    BY ConstantsAssumption DEF Init, Times
  <2>2. raw \in [Sensors -> Seq({NoMessage} \cup RawReading)] /\ outbox \in Seq(Events)
    BY DEF Init
  <2>3. /\ offset \in [Sensors -> Nat] /\ (\A s \in Sensors : offset[s] <= Len(raw[s]))
        /\ projected \in 0 .. Len(outbox)
    BY DEF Init
  <2>4. /\ sensors \in [Sensors -> {NoRow} \cup SensorModel] /\ readings \subseteq SensorReadingModel
        /\ job \in [SilenceJobs -> {Idle} \cup Listing] /\ removed \subseteq Sensors /\ lost \in BOOLEAN
    BY DEF Init
  <2>5. ingest \in [Ingesters -> {Idle} \cup Reading] /\ \A i \in Ingesters : ingest[i] = Idle
    BY DEF Init
  <2> QED
    BY <2>1, <2>2, <2>3, <2>4, <2>5 DEF ShapeInv
<1>2. StoredInv /\ SeenInv /\ PrecededInv /\ KnownInv /\ SilenceInv
  BY DEF Init, StoredInv, SeenInv, PrecededInv, KnownInv, SilenceInv
<1>3. LatestInv
  <2>1. NoLatest \in LatestRow /\ NoLatest.recorded_at = Never /\ NoLatest.offline_at = Never /\ NoLatest.last_alert_at = Never
    BY ConstantsAssumption DEF NoLatest, LatestRow, Never
  <2>2. \A s \in Sensors : latest[s] = NoLatest
    BY DEF Init
  <2>3. latest \in [Sensors -> LatestRow] /\ projected = 0
    BY <2>1 DEF Init
  <2>4. \A k \in 1 .. projected : FALSE
    BY <2>3
  <2>5. \A s \in Sensors : /\ NewestReading(outbox, s, projected, Never)
                           /\ NewestAlert(outbox, s, projected, Never)
                           /\ OfflineAt(outbox, s, projected, Never)
    BY <2>4 DEF NewestReading, NewestAlert, OfflineAt
  <2> QED
    BY <2>1, <2>2, <2>3, <2>5 DEF LatestInv
<1>4. RollupInv
  <2>1. NoRollup \in Rollup /\ NoRollup.count = 0 /\ NoRollup.sum = 0
    BY DEF NoRollup, Rollup
  <2>2. \A w \in Windows : rollups[w] = NoRollup
    BY DEF Init, Windows
  <2>3. rollups \in [Windows -> Rollup]
    BY <2>1 DEF Init, Windows
  <2>4. \A w \in Windows : Window(outbox, projected, w) = {}
    BY DEF Init, Window
  <2> QED
    BY <2>1, <2>2, <2>3, <2>4, FS_EmptySet, TotalOfNone DEF RollupInv
<1> QED
  BY <1>1, <1>2, <1>3, <1>4 DEF IInv

\* Every step keeps the invariant.
LEMMA StepKeeps == IInv /\ [Next]_vars => IInv'
<1> SUFFICES ASSUME IInv, [Next]_vars PROVE IInv'
  OBVIOUS
<1>1. CASE UNCHANGED vars
  <2>1. UNCHANGED <<now, raw, offset, sensors, readings, outbox, projected, rollups, latest, ingest, job, removed, lost>>
    BY <1>1 DEF vars, device, writeSide, readSide, workers, history
  <2>2. ShapeInv'
    BY <2>1 DEF IInv, ShapeInv, Message
  <2> QED
    BY <2>1, <2>2, Frames DEF IInv
<1>2. CASE Tick
  BY <1>2, TickKeeps
<1>3. ASSUME NEW s \in Sensors, Report(s) \/ AddSensor(s) \/ RemoveSensor(s) PROVE IInv'
  BY <1>3, ReportKeeps, AddSensorKeeps, RemoveSensorKeeps
<1>4. ASSUME NEW i \in Ingesters, IngestStep(i) PROVE IInv'
  BY <1>4, DropMessageKeeps, ReadSensorKeeps, StoreReadingKeeps, SkipDuplicateKeeps
     DEF IngestStep
<1>5. ASSUME NEW j \in SilenceJobs, JobStep(j) \/ TickFails(j) PROVE IInv'
  BY <1>5, ListSilentKeeps, AnnounceOfflineKeeps, TickFailsKeeps DEF JobStep
<1>6. CASE Project
  BY <1>6, ProjectKeeps
<1> QED
  BY <1>1, <1>2, <1>3, <1>4, <1>5, <1>6 DEF Next

\* The invariant holds in every behaviour.
THEOREM Inductive == Spec => []IInv
BY InitEstablishes, StepKeeps, PTL DEF Spec

\* What the invariant says of announcements: as many received events as readings.
LEMMA SaysAnnounced == IInv => AnnouncedOnce
<1> SUFFICES ASSUME IInv PROVE AnnouncedOnce
  OBVIOUS
<1>1. TypeOK
  <2>1. \A s \in Sensors : /\ \A k \in DOMAIN raw[s] : raw[s][k] \in {NoMessage} \cup RawReading
                           /\ offset[s] \in 0 .. Len(raw[s])
                           /\ sensors[s] \in {NoRow} \cup SensorModel
    BY DEF IInv, ShapeInv
  <2>2. \A i \in Ingesters : ingest[i] # Idle => ingest[i].row \in SensorModel
    BY Held DEF IInv, Reading
  <2>3. \A j \in SilenceJobs : job[j] # Idle => job[j].rows \in [DOMAIN job[j].rows -> SensorModel]
    BY Held DEF IInv
  <2> QED
    BY <2>1, <2>2, <2>3 DEF IInv, ShapeInv, TypeOK
<1>2. DOMAIN outbox = 1 .. Len(outbox) /\ Len(outbox) \in Nat
  BY DEF IInv, ShapeInv
<1>3. StoredIffAnnounced
  <2> DEFINE A == Announced("received")
             f == [k \in A |-> [sensor |-> outbox[k].sensor, at |-> outbox[k].at, m |-> outbox[k].m]]
  <2>1. A \subseteq 1 .. Len(outbox) /\ \A k \in A : outbox[k].type = "received"
    BY <1>2 DEF Announced
  <2>2. IsFiniteSet(A)
    <3>1. IsFiniteSet(1 .. Len(outbox))
      BY <1>2, FS_Interval
    <3> HIDE DEF A
    <3> QED
      BY <2>1, <3>1, FS_Subset
  <2>3. \A r \in readings : \E k \in A :
          outbox[k].sensor = r.sensor /\ outbox[k].at = r.at /\ outbox[k].m = r.m
    BY <1>2 DEF IInv, StoredInv, Announced, Rec
  <2>4. f \in [A -> readings]
    BY <2>1 DEF IInv, StoredInv
  <2>5. \A j, k \in A : f[j] = f[k] => j = k
    <3> TAKE j, k \in A
    <3> HAVE f[j] = f[k]
    <3>1. f[j].sensor = f[k].sensor /\ f[j].at = f[k].at
      OBVIOUS
    <3>2. outbox[j].sensor = outbox[k].sensor /\ outbox[j].at = outbox[k].at
      BY <3>1
    <3> QED
      BY <2>1, <3>2 DEF IInv, StoredInv
  <2>6. \A r \in readings : \E k \in A : f[k] = r
    <3> TAKE r \in readings
    <3>1. PICK k \in A : outbox[k].sensor = r.sensor /\ outbox[k].at = r.at /\ outbox[k].m = r.m
      BY <2>3
    <3>2. r \in [sensor : Sensors, at : Times, m : Measurements]
      BY DEF IInv, ShapeInv, SensorReadingModel
    <3>3. r = [sensor |-> r.sensor, at |-> r.at, m |-> r.m]
      BY <3>2
    <3> QED
      BY <3>1, <3>3
  <2> HIDE DEF A, f
  <2>7. f \in Bijection(A, readings)
    BY <2>4, <2>5, <2>6 DEF Bijection, Injection, Surjection, IsInjective
  <2>8. Cardinality(readings) = Cardinality(A)
    BY <2>2, <2>7, FS_Bijection DEF ExistsBijection
  <2> QED
    BY <2>3, <2>8 DEF StoredIffAnnounced, A
<1>4. OncePerSilence
  <2> SUFFICES ASSUME ~lost, NEW s \in Sensors \ removed,
                      NEW j \in Announced("offline"), NEW k \in Announced("offline"), j # k,
                      outbox[j].sensor = s, outbox[k].sensor = s
               PROVE  outbox[j].seen # outbox[k].seen
    BY DEF OncePerSilence
  <2>1. j \in 1 .. Len(outbox) /\ k \in 1 .. Len(outbox) /\ Off(outbox, j, s) /\ Off(outbox, k, s)
    BY <1>2 DEF Announced, Off
  <2>2. sensors[s] # NoRow
    BY <2>1 DEF IInv, KnownInv
  <2> QED
    BY <2>1, <2>2 DEF IInv, SilenceInv, RowAgrees
<1> QED
  BY <1>1, <1>3, <1>4 DEF AnnouncedOnce

\* A largest, or a smallest, member is the one Max, or Min, picks.
LEMMA Extremes ==
  ASSUME NEW S, S \subseteq Int, NEW x \in S
  PROVE  /\ (\A y \in S : y <= x) => Max(S) = x
         /\ (\A y \in S : x <= y) => Min(S) = x
<1>1. ASSUME \A y \in S : y <= x PROVE Max(S) = x
  <2>1. \A y \in S : x >= y
    BY <1>1
  <2>2. Max(S) \in S /\ \A y \in S : Max(S) >= y
    BY <2>1 DEF Max
  <2>3. Max(S) <= x /\ Max(S) >= x /\ Max(S) \in Int /\ x \in Int
    BY <1>1, <2>2
  <2> QED
    BY <2>3
<1>2. ASSUME \A y \in S : x <= y PROVE Min(S) = x
  <2>1. Min(S) \in S /\ \A y \in S : Min(S) =< y
    BY <1>2 DEF Min
  <2>2. x <= Min(S) /\ Min(S) <= x /\ Min(S) \in Int /\ x \in Int
    BY <1>2, <2>1
  <2> QED
    BY <2>2
<1> QED
  BY <1>1, <1>2

\* What the invariant says of the read side.
LEMMA SaysExact == IInv => ReadSideExact
<1> SUFFICES ASSUME IInv PROVE ReadSideExact
  OBVIOUS
<1>1. /\ outbox \in Seq(Events) /\ projected \in Nat /\ projected <= Len(outbox) /\ Len(outbox) \in Nat
      /\ \A k \in 1 .. projected : k \in 1 .. Len(outbox)
  BY DEF IInv, ShapeInv
<1>2. RollupsExact
  <2> SUFFICES ASSUME NEW w \in DOMAIN rollups
               PROVE  LET in == {e \in Applied("received", w[1]) : window_start(e.at) = w[2]}
                          values == {e.m.moisture : e \in in} IN
                      /\ rollups[w].count = Cardinality(in)
                      /\ rollups[w].sum = MapThenSumSet(LAMBDA e : e.m.moisture, in)
                      /\ in # {} => rollups[w].min = Min(values) /\ rollups[w].max = Max(values)
    BY DEF RollupsExact
  <2> DEFINE in == {e \in Applied("received", w[1]) : window_start(e.at) = w[2]}
             values == {e.m.moisture : e \in in}
             roll == rollups[w]
  <2>1. w \in Windows
    BY DEF IInv, RollupInv
  <2>2. in = Window(outbox, projected, w)
    BY DEF Applied, Window, Rec
  <2>3. \A e \in in : e.m.moisture \in Int
    <3> TAKE e \in in
    <3>1. PICK k \in 1 .. projected : Rec(outbox, k, w[1]) /\ e = outbox[k]
      BY <2>2 DEF Window
    <3>2. [sensor |-> outbox[k].sensor, at |-> outbox[k].at, m |-> outbox[k].m] \in SensorReadingModel
      BY <1>1, <3>1 DEF IInv, StoredInv, ShapeInv, Rec
    <3>3. outbox[k].m \in Measurements
      BY <3>2 DEF SensorReadingModel
    <3> QED
      BY <3>1, <3>3, ConstantsAssumption
  <2> HIDE DEF in
  <2>4. /\ roll.count = Cardinality(in) /\ roll.sum = Total(in)
        /\ \A e \in in : roll.min <= e.m.moisture /\ e.m.moisture <= roll.max
        /\ in # {} => /\ \E e \in in : e.m.moisture = roll.min
                      /\ \E e \in in : e.m.moisture = roll.max
    BY <2>1, <2>2 DEF IInv, RollupInv
  <2>5. values \subseteq Int /\ \A y \in values : roll.min <= y /\ y <= roll.max
    BY <2>3, <2>4
  <2>6. in # {} => roll.min \in values /\ roll.max \in values
    BY <2>4
  <2> HIDE DEF values, roll
  <2>7. in # {} => roll.min = Min(values) /\ roll.max = Max(values)
    BY <2>5, <2>6, Extremes
  <2> QED
    BY <2>4, <2>7 DEF Total, in, values, roll
<1>3. LatestIsNewest
  <2> SUFFICES ASSUME NEW s \in Sensors
               PROVE  /\ latest[s].recorded_at = Max({Never} \cup {e.at : e \in Applied("received", s)})
                      /\ latest[s].last_alert_at =
                           Max({Never} \cup {e.at : e \in UNION {Applied(t, s) : t \in AlertTypes}})
    BY DEF LatestIsNewest, AlertTypes
  <2> DEFINE R == {e.at : e \in Applied("received", s)}
             A == {e.at : e \in UNION {Applied(t, s) : t \in AlertTypes}}
             row == latest[s]
  <2>1. /\ row.recorded_at \in Int /\ row.last_alert_at \in Int
        /\ row.recorded_at >= 0 /\ row.last_alert_at >= 0
        /\ NewestReading(outbox, s, projected, row.recorded_at)
        /\ NewestAlert(outbox, s, projected, row.last_alert_at)
    BY ConstantsAssumption DEF IInv, LatestInv, LatestRow
  <2>2. \A k \in 1 .. projected : outbox[k].at \in Int
    BY <1>1, Entry
  <2>3. \A x : x \in R <=> \E k \in 1 .. projected : Rec(outbox, k, s) /\ x = outbox[k].at
    BY DEF Applied, Rec
  <2>4. \A x : x \in A <=> \E k \in 1 .. projected : Alarm(outbox, k, s) /\ x = outbox[k].at
    BY DEF Applied, Alarm
  <2> HIDE DEF R, A, row
  <2>5. /\ {0} \cup R \subseteq Int /\ row.recorded_at \in {0} \cup R
        /\ \A y \in {0} \cup R : y <= row.recorded_at
    BY <2>1, <2>2, <2>3 DEF NewestReading, Never
  <2>6. /\ {0} \cup A \subseteq Int /\ row.last_alert_at \in {0} \cup A
        /\ \A y \in {0} \cup A : y <= row.last_alert_at
    BY <2>1, <2>2, <2>4 DEF NewestAlert, Never
  <2>7. row.recorded_at = Max({0} \cup R) /\ row.last_alert_at = Max({0} \cup A)
    BY <2>5, <2>6, Extremes
  <2> QED
    BY <2>7 DEF R, A, row, Never
<1>4. ReadSideAgrees
  <2> SUFFICES ASSUME projected = Len(outbox), ~lost, NEW s \in Registered \ removed
               PROVE  /\ latest[s].recorded_at = sensors[s].last_seen_at
                      /\ latest[s].offline_at = sensors[s].offline_announced_at
    BY DEF ReadSideAgrees
  <2>1. s \in Sensors /\ sensors[s] # NoRow /\ sensors[s] \in SensorModel
    BY DEF Registered, IInv, ShapeInv
  <2>2. RowAgrees(s)
    BY <2>1 DEF IInv, SilenceInv
  <2>3. /\ NewestReading(outbox, s, projected, latest[s].recorded_at)
        /\ OfflineAt(outbox, s, projected, latest[s].offline_at)
        /\ latest[s].recorded_at \in Nat
    BY <2>1, ConstantsAssumption DEF IInv, LatestInv, LatestRow
  <2>4. /\ NewestReading(outbox, s, projected, sensors[s].last_seen_at)
        /\ OfflineAt(outbox, s, projected, sensors[s].offline_announced_at)
        /\ sensors[s].last_seen_at \in Nat
    BY <2>1, <2>2, ConstantsAssumption DEF RowAgrees, SensorModel
  <2>5. latest[s].offline_at = sensors[s].offline_announced_at
    BY <1>1, <2>3, <2>4, OfflineOne
  <2>6. latest[s].recorded_at = sensors[s].last_seen_at
    BY <1>1, <2>3, <2>4 DEF NewestReading, Never
  <2> QED
    BY <2>5, <2>6
<1> QED
  BY <1>2, <1>3, <1>4 DEF ReadSideExact

\* Every reading is announced exactly once with its row, however often it was
\* delivered and whoever died before the acknowledgement, and a silence is
\* announced once however many ticks it lasts, unless list_silent's unlocked read
\* raced another save of the sensor.
THEOREM FactsAnnouncedOnce == Spec => []AnnouncedOnce
BY Inductive, SaysAnnounced, PTL

\* The rollups are the exact count, sum, minimum and maximum of the readings
\* projected, in whatever order they came; a latest row shows the newest reading
\* and alert; and once all is projected both sides agree on who is offline.
THEOREM ReadSideRight == Spec => []ReadSideExact
BY Inductive, SaysExact, PTL

-----------------------------------------------------------------------------
(***************************************************************************)
(* TelemetryPartitions: the months in which the readings are stored.       *)
(***************************************************************************)

\* Every set of natural numbers that is not empty has a smallest member: the
\* induction that the lemmas about add_months rest on.
LEMMA Smallest ==
  ASSUME NEW T, T \subseteq Nat, T # {}
  PROVE  \E x \in T : \A y \in T : x <= y
<1>1. IsWellFoundedOn(OpToRel(<, Nat), Nat)
  BY NatLessThanWellFounded, Zenon
<1>2. PICK x \in T : \A y \in T : ~ (<<y, x>> \in OpToRel(<, Nat))
  BY <1>1, WFMin, Zenon
<1>3. \A y \in T : ~(y < x)
  BY <1>2 DEF OpToRel
<1> QED
  BY <1>3

-----------------------------------------------------------------------------
(* The calendar *)

\* Months before the first year too: the far end of the window may lie there.
Calendar == Int \X (1 .. MONTHS_PER_YEAR)

\* The number of a month, counted from the start of year zero.
Number(m) == m[1] * MONTHS_PER_YEAR + m[2]

\* A later year is at least a year's worth of months away.
LEMMA YearsApart ==
  ASSUME NEW x \in Int, NEW y \in Int, x > y
  PROVE  x * MONTHS_PER_YEAR >= y * MONTHS_PER_YEAR + MONTHS_PER_YEAR
<1>1. MONTHS_PER_YEAR \in Nat \ {0}
  BY PartitionsAssumption
<1>2. PICK d \in Nat : x = y + 1 + d
  <2>1. x - y - 1 \in Nat /\ x = y + 1 + (x - y - 1)
    OBVIOUS
  <2> QED
    BY <2>1
<1>3. x * MONTHS_PER_YEAR = y * MONTHS_PER_YEAR + MONTHS_PER_YEAR + d * MONTHS_PER_YEAR
  BY <1>1, <1>2
<1>4. d * MONTHS_PER_YEAR >= 0
  BY <1>1
<1>5. x * MONTHS_PER_YEAR \in Int /\ y * MONTHS_PER_YEAR \in Int /\ d * MONTHS_PER_YEAR \in Int
  BY <1>1
<1> QED
  BY <1>1, <1>3, <1>4, <1>5

\* Comparing months is comparing their numbers, and a month is its number.
LEMMA LaterIsGreater ==
  ASSUME NEW a \in Calendar, NEW b \in Calendar
  PROVE  /\ Number(a) \in Int /\ (Later(a, b) <=> Number(a) > Number(b)) /\ (Number(a) = Number(b) => a = b)
<1>1. /\ MONTHS_PER_YEAR \in Nat \ {0} /\ a[1] \in Int /\ b[1] \in Int
      /\ a[2] \in 1 .. MONTHS_PER_YEAR /\ b[2] \in 1 .. MONTHS_PER_YEAR
      /\ a = <<a[1], a[2]>> /\ b = <<b[1], b[2]>>
  BY PartitionsAssumption DEF Calendar
<1> DEFINE u == a[1] * MONTHS_PER_YEAR
           v == b[1] * MONTHS_PER_YEAR
<1>2. u \in Int /\ v \in Int
  BY <1>1
<1>3. /\ a[1] > b[1] => u >= v + MONTHS_PER_YEAR
      /\ b[1] > a[1] => v >= u + MONTHS_PER_YEAR
      /\ a[1] = b[1] => u = v
  BY <1>1, YearsApart
<1>4. Number(a) = u + a[2] /\ Number(b) = v + b[2]
  BY DEF Number
<1> HIDE DEF u, v
<1> QED
  BY <1>1, <1>2, <1>3, <1>4 DEF Later

\* One month on, one month back.
LEMMA OneMonth ==
  ASSUME NEW m \in Calendar
  PROVE  /\ next_month(m) \in Calendar /\ Number(next_month(m)) = Number(m) + 1
         /\ previous_month(m) \in Calendar /\ Number(previous_month(m)) = Number(m) - 1
<1>1. MONTHS_PER_YEAR \in Nat \ {0} /\ m[1] \in Int /\ m[2] \in 1 .. MONTHS_PER_YEAR
  BY PartitionsAssumption DEF Calendar
<1>2. /\ (m[1] + 1) * MONTHS_PER_YEAR = m[1] * MONTHS_PER_YEAR + MONTHS_PER_YEAR
      /\ (m[1] - 1) * MONTHS_PER_YEAR = m[1] * MONTHS_PER_YEAR - MONTHS_PER_YEAR
      /\ m[1] * MONTHS_PER_YEAR \in Int
  BY <1>1
<1>3. next_month(m) \in Calendar /\ Number(next_month(m)) = Number(m) + 1
  <2>1. CASE m[2] = MONTHS_PER_YEAR
    <3>1. next_month(m) = <<m[1] + 1, 1>>
      BY <2>1 DEF next_month
    <3> QED
      BY <1>1, <1>2, <2>1, <3>1 DEF Calendar, Number
  <2>2. CASE m[2] # MONTHS_PER_YEAR
    <3>1. next_month(m) = <<m[1], m[2] + 1>> /\ m[2] + 1 \in 1 .. MONTHS_PER_YEAR
      BY <1>1, <2>2 DEF next_month
    <3> QED
      BY <1>1, <1>2, <3>1 DEF Calendar, Number
  <2> QED
    BY <2>1, <2>2
<1>4. previous_month(m) \in Calendar /\ Number(previous_month(m)) = Number(m) - 1
  BY <1>1, <1>2 DEF previous_month, Calendar, Number
<1> QED
  BY <1>3, <1>4

\* The loop's body.
OneStep(m, count) == IF count >= 0 THEN next_month(m) ELSE previous_month(m)

\* f holds the results of the loop after 0, 1, ..., n rounds.
Loop(f, m, count, n) == f = [k \in 0 .. n |-> IF k = 0 THEN m ELSE OneStep(f[k - 1], count)]

\* The loop's results, from the first to the n-th, exist.
LEMMA LoopExists ==
  ASSUME NEW m, NEW count, NEW n \in Nat
  PROVE  \E f : Loop(f, m, count, n)
<1> DEFINE Runs(j) == \E f : f = [k \in 0 .. j |-> IF k = 0 THEN m ELSE OneStep(f[k - 1], count)]
           T == {j \in Nat : ~Runs(j)}
<1> SUFFICES ASSUME T # {} PROVE FALSE
  BY DEF Loop
<1>1. PICK j \in T : \A i \in T : j <= i
  BY Smallest
<1>2. CASE j = 0
  <2> DEFINE g == [k \in 0 .. 0 |-> m]
  <2>1. g = [k \in 0 .. 0 |-> IF k = 0 THEN m ELSE OneStep(g[k - 1], count)]
    OBVIOUS
  <2>2. Runs(0)
    BY <2>1
  <2> QED
    BY <1>2, <2>2
<1>3. CASE j # 0
  <2>1. j \in Nat /\ j - 1 \in Nat /\ Runs(j - 1)
    <3> HIDE DEF Runs
    <3>1. j \in Nat /\ j - 1 \in Nat /\ ~(j <= j - 1)
      BY <1>1, <1>3
    <3>2. j - 1 \notin T
      BY <1>1, <3>1
    <3> QED
      BY <3>1, <3>2
  <2>2. PICK g : g = [k \in 0 .. j - 1 |-> IF k = 0 THEN m ELSE OneStep(g[k - 1], count)]
    BY <2>1
  <2> DEFINE h == [k \in 0 .. j |-> IF k = j THEN OneStep(g[j - 1], count) ELSE g[k]]
  <2>3. ASSUME NEW k \in 0 .. j PROVE h[k] = IF k = 0 THEN m ELSE OneStep(h[k - 1], count)
    <3>1. CASE k = j
      <4>1. h[k] = OneStep(g[j - 1], count) /\ h[k - 1] = g[j - 1]
        BY <1>3, <2>1, <3>1
      <4> QED
        BY <1>3, <3>1, <4>1
    <3>2. CASE k # j /\ k # 0
      <4>1. k \in 0 .. j - 1 /\ k - 1 \in 0 .. j - 1 /\ h[k] = g[k] /\ h[k - 1] = g[k - 1]
        BY <2>1, <3>2
      <4>2. g[k] = OneStep(g[k - 1], count)
        BY <2>2, <3>2, <4>1
      <4> QED
        BY <3>2, <4>1, <4>2
    <3>3. CASE k = 0
      <4>1. 0 \in 0 .. j - 1 /\ h[0] = g[0]
        BY <1>3, <2>1
      <4>2. g[0] = m
        BY <2>2, <4>1
      <4> QED
        BY <3>3, <4>1, <4>2
    <3> QED
      BY <3>1, <3>2, <3>3
  <2>4. h = [k \in 0 .. j |-> IF k = 0 THEN m ELSE OneStep(h[k - 1], count)]
    BY <2>3
  <2> HIDE DEF h
  <2>5. Runs(j)
    BY <2>4
  <2> QED
    BY <2>5
<1> QED
  BY <1>2, <1>3

\* add_months is the loop's last result.
LEMMA AddIsLoop ==
  ASSUME NEW m, NEW count \in Int
  PROVE  \E f : LET n == IF count >= 0 THEN count ELSE -count IN
                /\ Loop(f, m, count, n)
                /\ add_months(m, count) = f[n]
<1> DEFINE n == IF count >= 0 THEN count ELSE -count
           step == CHOOSE f : f = [k \in 0 .. n |-> IF k = 0 THEN m ELSE OneStep(f[k - 1], count)]
<1>1. n \in Nat
  OBVIOUS
<1>2. \E f : Loop(f, m, count, n)
  BY <1>1, LoopExists
<1>3. Loop(step, m, count, n)
  BY <1>2 DEF Loop
<1>4. add_months(m, count) = step[n]
  BY DEF add_months, OneStep
<1> QED
  BY <1>3, <1>4

\* Adding months to a month yields the month that many later, or earlier.
LEMMA AddMonths ==
  ASSUME NEW m \in Calendar, NEW count \in Int
  PROVE  add_months(m, count) \in Calendar /\ Number(add_months(m, count)) = Number(m) + count
<1> DEFINE n == IF count >= 0 THEN count ELSE -count
           Dist(k) == IF count >= 0 THEN k ELSE -k
<1>1. PICK f : /\ Loop(f, m, count, n)
               /\ add_months(m, count) = f[n]
  BY AddIsLoop
<1>2. n \in Nat /\ Number(m) \in Int
  BY LaterIsGreater
<1> DEFINE Right(k) == f[k] \in Calendar /\ Number(f[k]) = Number(m) + Dist(k)
           T == {k \in 0 .. n : ~Right(k)}
<1>3. T = {}
  <2> SUFFICES ASSUME T # {} PROVE FALSE
    OBVIOUS
  <2>1. PICK k \in T : \A i \in T : k <= i
    <3>1. T \subseteq Nat
      BY <1>2
    <3> QED
      BY <3>1, Smallest
  <2>2. k # 0
    <3>1. f[0] = m
      BY <1>1, <1>2 DEF Loop
    <3>2. Right(0)
      BY <1>2, <3>1
    <3> QED
      BY <2>1, <3>2
  <2>3. k \in 1 .. n /\ k - 1 \in 0 .. n /\ f[k] = OneStep(f[k - 1], count)
    <3> HIDE DEF n, Right
    <3>1. k \in 0 .. n
      BY <2>1
    <3>2. f[k] = OneStep(f[k - 1], count)
      BY <1>1, <2>2, <3>1 DEF Loop
    <3> QED
      BY <1>2, <2>2, <3>1, <3>2
  <2>4. Right(k - 1)
    <3> HIDE DEF n, Right
    <3>1. k - 1 \notin T
      BY <1>2, <2>1, <2>3
    <3> QED
      BY <2>3, <3>1
  <2>5. Right(k)
    <3> HIDE DEF n
    <3>1. /\ next_month(f[k - 1]) \in Calendar /\ Number(next_month(f[k - 1])) = Number(f[k - 1]) + 1
          /\ previous_month(f[k - 1]) \in Calendar
          /\ Number(previous_month(f[k - 1])) = Number(f[k - 1]) - 1
      BY <2>4, OneMonth
    <3>2. k \in Int
      BY <1>2, <2>3
    <3> QED
      BY <1>2, <2>3, <2>4, <3>1, <3>2 DEF OneStep
  <2> QED
    BY <2>1, <2>5
<1>4. Right(n)
  BY <1>2, <1>3
<1> QED
  BY <1>1, <1>4

\* The months of the model are months of the calendar; the catch-all is none.
LEMMA MonthsInCalendar == Months \subseteq Calendar /\ Default \notin Calendar
BY PartitionsAssumption DEF Months, Calendar, Default

\* The job creates this month and the months ahead, and no gap between them.
LEMMA CreatesAhead ==
  ASSUME NEW m \in Calendar
  PROVE  /\ months_to_create(m) \subseteq Calendar
         /\ \A q \in Calendar : Number(m) <= Number(q) /\ Number(q) <= Number(m) + MONTHS_AHEAD
                                  => q \in months_to_create(m)
<1>1. MONTHS_AHEAD \in Nat
  BY PartitionsAssumption
<1>2. months_to_create(m) \subseteq Calendar
  BY <1>1, AddMonths DEF months_to_create
<1>3. ASSUME NEW q \in Calendar, Number(m) <= Number(q), Number(q) <= Number(m) + MONTHS_AHEAD
      PROVE  q \in months_to_create(m)
  <2>1. Number(m) \in Int /\ Number(q) \in Int
    BY LaterIsGreater
  <2> DEFINE k == Number(q) - Number(m)
  <2>2. k \in 0 .. MONTHS_AHEAD /\ k \in Int /\ Number(m) + k = Number(q)
    BY <1>1, <1>3, <2>1
  <2> HIDE DEF k
  <2>3. add_months(m, k) \in Calendar /\ Number(add_months(m, k)) = Number(q)
    BY <2>2, AddMonths
  <2>4. add_months(m, k) = q
    BY <2>3, LaterIsGreater
  <2> QED
    BY <2>2, <2>4 DEF months_to_create
<1> QED
  BY <1>2, <1>3

\* A partition is expired when its month is more than the window away.
LEMMA ExpiredIsPast ==
  ASSUME NEW present, present \subseteq Calendar, NEW m \in Calendar, NEW q \in present
  PROVE  q \in expired_partitions(present, m) <=> Later(m, add_months(q, RETENTION_MONTHS))
<1>1. RETENTION_MONTHS \in Int /\ -RETENTION_MONTHS \in Int
  BY PartitionsAssumption
<1>2. q \in Calendar /\ Number(q) \in Int /\ Number(m) \in Int
  BY LaterIsGreater
<1>3. /\ retention_cutoff(m) \in Calendar /\ Number(retention_cutoff(m)) = Number(m) + (-RETENTION_MONTHS)
      /\ add_months(q, RETENTION_MONTHS) \in Calendar
      /\ Number(add_months(q, RETENTION_MONTHS)) = Number(q) + RETENTION_MONTHS
      /\ next_month(q) \in Calendar /\ Number(next_month(q)) = Number(q) + 1
  BY <1>1, <1>2, AddMonths, OneMonth DEF retention_cutoff
<1>4. /\ Later(next_month(q), retention_cutoff(m)) <=> Number(q) + 1 > Number(m) + (-RETENTION_MONTHS)
      /\ Later(m, add_months(q, RETENTION_MONTHS)) <=> Number(m) > Number(q) + RETENTION_MONTHS
  BY <1>3, LaterIsGreater
<1> QED
  BY <1>1, <1>2, <1>4 DEF expired_partitions

-----------------------------------------------------------------------------
(* The inductive invariant *)

\* The rows and the history are about months of the model, the partitions about
\* months of the calendar, and no more strays were written than the bound.
Shapes ==
    /\ partitions \subseteq Calendar /\ strays \in Nat /\ strays <= MaxStray
    /\ \A r \in rows : r.month \in Months
    /\ \A a \in accepted : a.month \in Months

\* What the last tick created ahead is still there, less the months that passed.
CreatedAhead ==
    gap <= MONTHS_AHEAD =>
      \A m \in Calendar :
        Number(today) <= Number(m) /\ Number(m) <= Number(today) + MONTHS_AHEAD - gap
          => m \in partitions

\* What every step keeps.
PartitionsInv == Shapes /\ CreatedAhead /\ PartitionsTypeOK /\ OwnMonth /\ WindowKept

\* Nothing is written at the start.
LEMMA PartitionsInitInv == PartitionsInit => PartitionsInv
<1> SUFFICES ASSUME PartitionsInit PROVE PartitionsInv
  OBVIOUS
<1>1. today \in Months /\ gap \in Nat /\ ~(gap <= MONTHS_AHEAD) /\ strays \in Nat
  BY PartitionsAssumption DEF PartitionsInit, Months
<1> QED
  BY <1>1, PartitionsAssumption
     DEF PartitionsInit, PartitionsInv, Shapes, CreatedAhead, PartitionsTypeOK,
         OwnMonth, WindowKept

\* A month passes: what was created ahead covers one month less.
LEMMA NextMonthKeeps == PartitionsInv /\ NextMonth => PartitionsInv'
<1> SUFFICES ASSUME PartitionsInv, NextMonth PROVE PartitionsInv'
  OBVIOUS
<1>1. /\ today \in Calendar /\ today' = next_month(today) /\ today' \in Months
      /\ Number(today) \in Int /\ Number(today') = Number(today) + 1 /\ today' \in Calendar
  BY MonthsInCalendar, OneMonth, LaterIsGreater
     DEF PartitionsInv, PartitionsTypeOK, NextMonth
<1>2. gap \in Nat /\ gap' = gap + 1 /\ MONTHS_AHEAD \in Nat /\ RETENTION_MONTHS \in Int
  BY PartitionsAssumption DEF PartitionsInv, PartitionsTypeOK, NextMonth
<1>3. /\ UNCHANGED <<partitions, rows, accepted, late, strays>>
  BY DEF NextMonth
<1>4. Shapes' /\ PartitionsTypeOK' /\ OwnMonth'
  BY <1>1, <1>2, <1>3 DEF PartitionsInv, Shapes, PartitionsTypeOK, OwnMonth
<1>5. CreatedAhead'
  <2> SUFFICES ASSUME gap' <= MONTHS_AHEAD, NEW m \in Calendar,
                      Number(today') <= Number(m), Number(m) <= Number(today') + MONTHS_AHEAD - gap'
               PROVE  m \in partitions'
    BY DEF CreatedAhead
  <2>1. Number(m) \in Int
    BY LaterIsGreater
  <2>2. /\ gap <= MONTHS_AHEAD /\ Number(today) <= Number(m)
        /\ Number(m) <= Number(today) + MONTHS_AHEAD - gap
    BY <1>1, <1>2, <2>1
  <2> QED
    BY <1>3, <2>2 DEF PartitionsInv, CreatedAhead
<1>6. WindowKept'
  <2> SUFFICES ASSUME NEW a \in accepted,
                      ~Later(today', add_months(a.month, RETENTION_MONTHS))
               PROVE  \E r \in rows : r.month = a.month /\ r.reading = a.reading
    BY <1>3 DEF WindowKept
  <2>1. add_months(a.month, RETENTION_MONTHS) \in Calendar
    BY <1>2, AddMonths, MonthsInCalendar DEF PartitionsInv, Shapes
  <2>2. ~Later(today, add_months(a.month, RETENTION_MONTHS))
    BY <1>1, <2>1, LaterIsGreater
  <2> QED
    BY <2>2 DEF PartitionsInv, WindowKept
<1> QED
  BY <1>4, <1>5, <1>6 DEF PartitionsInv

\* A reading is written: of this month, or a stray one.
LEMMA InsertKeeps ==
  ASSUME PartitionsInv, NEW month \in Months, NEW r, Insert(month, r),
         UNCHANGED <<today, partitions, gap>>,
         strays' \in Nat, strays' <= MaxStray,
         strays' = MaxStray => strays = MaxStray /\ month = today
  PROVE  PartitionsInv'
<1> DEFINE part == IF month \in partitions THEN month ELSE Default
           new == [month |-> month, reading |-> r, part |-> part]
           reading == [month |-> month, reading |-> r]
<1>1. /\ rows' = rows \cup {new} /\ accepted' = accepted \cup {reading}
      /\ late' = (late \/ gap > MONTHS_AHEAD)
      /\ ~\E row \in rows : row.month = month /\ row.reading = r
  BY DEF Insert
<1>2. /\ new.month = month /\ new.reading = r /\ new.part = part
      /\ reading.month = month /\ reading.reading = r
      /\ part \in {Default, month} /\ (part # Default => month \in partitions)
      /\ (month \in partitions => part = month)
  OBVIOUS
<1>3. month \in Calendar /\ month # Default /\ today \in Calendar
  BY MonthsInCalendar DEF PartitionsInv, PartitionsTypeOK
<1> HIDE DEF new, reading, part
<1>4. Shapes' /\ CreatedAhead' /\ PartitionsTypeOK'
  BY <1>1, <1>2 DEF PartitionsInv, Shapes, CreatedAhead, PartitionsTypeOK
<1>5. OwnMonth'
  <2> SUFFICES ASSUME strays' = MaxStray, ~late' PROVE \A q \in rows' : q.part # Default
    BY DEF OwnMonth
  <2>1. ~late /\ ~(gap > MONTHS_AHEAD) /\ strays = MaxStray /\ month = today
    BY <1>1
  <2>2. month \in partitions
    <3>1. gap \in Nat /\ MONTHS_AHEAD \in Nat /\ Number(today) \in Int
      BY <1>3, PartitionsAssumption, LaterIsGreater DEF PartitionsInv, PartitionsTypeOK
    <3>2. gap <= MONTHS_AHEAD /\ Number(today) <= Number(today) + MONTHS_AHEAD - gap
      BY <2>1, <3>1
    <3> QED
      BY <1>3, <2>1, <3>1, <3>2 DEF PartitionsInv, CreatedAhead
  <2> QED
    BY <1>1, <1>2, <1>3, <2>1, <2>2 DEF PartitionsInv, OwnMonth
<1>6. WindowKept'
  BY <1>1, <1>2 DEF PartitionsInv, WindowKept
<1> QED
  BY <1>4, <1>5, <1>6 DEF PartitionsInv

\* The tick: it drops only months the window has left behind.
LEMMA RunOnceKeeps == PartitionsInv /\ RunOnce => PartitionsInv'
<1> SUFFICES ASSUME PartitionsInv, RunOnce PROVE PartitionsInv'
  OBVIOUS
<1> DEFINE present == ensure_telemetry_partitions
           expired == expired_partitions(present, today)
<1>1. /\ partitions' = present \ expired /\ rows' = {r \in rows : r.part \notin expired}
      /\ gap' = 0 /\ UNCHANGED <<today, accepted, late, strays>>
  BY DEF RunOnce, drop_expired_partitions
<1>2. today \in Calendar /\ Default \notin Calendar
  BY MonthsInCalendar DEF PartitionsInv, PartitionsTypeOK
<1>3. /\ present = partitions \cup months_to_create(today)
      /\ present \subseteq Calendar /\ expired \subseteq present
  BY <1>2, CreatesAhead
     DEF PartitionsInv, Shapes, ensure_telemetry_partitions, Missing, expired_partitions
<1>4. \A q \in present : q \in expired <=> Later(today, add_months(q, RETENTION_MONTHS))
  BY <1>2, <1>3, ExpiredIsPast
<1> HIDE DEF present, expired
<1>5. Shapes'
  BY <1>1, <1>3 DEF PartitionsInv, Shapes
<1>6. PartitionsTypeOK'
  <2>1. \A r \in rows' : r \in rows /\ r.part \notin expired
    BY <1>1
  <2>2. \A r \in rows' : r.part \in {Default, r.month} /\ (r.part # Default => r.month \in partitions')
    BY <1>1, <1>3, <2>1 DEF PartitionsInv, PartitionsTypeOK
  <2> QED
    BY <1>1, <2>1, <2>2 DEF PartitionsInv, PartitionsTypeOK
<1>7. OwnMonth'
  BY <1>1 DEF PartitionsInv, OwnMonth
<1>8. CreatedAhead'
  <2> SUFFICES ASSUME NEW m \in Calendar,
                      Number(today) <= Number(m), Number(m) <= Number(today) + MONTHS_AHEAD - 0
               PROVE  m \in partitions'
    BY <1>1 DEF CreatedAhead
  <2>1. MONTHS_AHEAD \in Nat /\ RETENTION_MONTHS \in Nat /\ RETENTION_MONTHS \in Int /\ Number(m) \in Int /\ Number(today) \in Int
    BY <1>2, PartitionsAssumption, LaterIsGreater
  <2>2. m \in present
    BY <1>2, <1>3, <2>1, CreatesAhead
  <2>3. /\ add_months(m, RETENTION_MONTHS) \in Calendar
        /\ Number(add_months(m, RETENTION_MONTHS)) = Number(m) + RETENTION_MONTHS
    BY <2>1, AddMonths
  <2>4. ~Later(today, add_months(m, RETENTION_MONTHS))
    BY <1>2, <2>1, <2>3, LaterIsGreater
  <2> QED
    BY <1>1, <1>4, <2>2, <2>4
<1>9. WindowKept'
  <2> SUFFICES ASSUME NEW a \in accepted,
                      ~Later(today, add_months(a.month, RETENTION_MONTHS))
               PROVE  \E r \in rows' : r.month = a.month /\ r.reading = a.reading
    BY <1>1 DEF WindowKept
  <2>1. PICK r \in rows : r.month = a.month /\ r.reading = a.reading
    BY DEF PartitionsInv, WindowKept
  <2>2. r.part \notin expired
    BY <1>2, <1>3, <1>4, <2>1 DEF PartitionsInv, PartitionsTypeOK
  <2> QED
    BY <1>1, <2>1, <2>2
<1> QED
  BY <1>5, <1>6, <1>7, <1>8, <1>9 DEF PartitionsInv

\* Every step keeps the invariant.
LEMMA PartitionsStepInv == PartitionsInv /\ [PartitionsNext]_partitionsVars => PartitionsInv'
<1> SUFFICES ASSUME PartitionsInv, [PartitionsNext]_partitionsVars PROVE PartitionsInv'
  OBVIOUS
<1>1. CASE UNCHANGED partitionsVars
  BY <1>1
     DEF partitionsVars, PartitionsInv, Shapes, CreatedAhead, PartitionsTypeOK,
         OwnMonth, WindowKept
<1>2. CASE NextMonth
  BY <1>2, NextMonthKeeps
<1>3. CASE Stop \/ Restart
  BY <1>3
     DEF Stop, Restart, PartitionsInv, Shapes, CreatedAhead, PartitionsTypeOK, OwnMonth,
         WindowKept
<1>4. ASSUME NEW r \in Readings, Write(r) PROVE PartitionsInv'
  <2>1. /\ Insert(today, r) /\ UNCHANGED <<today, partitions, gap>> /\ today \in Months
        /\ strays' = strays /\ strays \in Nat /\ strays <= MaxStray
    BY <1>4 DEF Write, PartitionsInv, PartitionsTypeOK, Shapes
  <2> QED
    BY <2>1, InsertKeeps
<1>5. ASSUME NEW r \in Readings, NEW m \in Months, WriteStray(m, r) PROVE PartitionsInv'
  <2>1. /\ Insert(m, r) /\ UNCHANGED <<today, partitions, gap>>
        /\ strays' = strays - 1 /\ strays \in Nat /\ strays <= MaxStray /\ strays > 0
    BY <1>5 DEF WriteStray, PartitionsInv, Shapes
  <2>2. strays' \in Nat /\ strays' <= MaxStray /\ strays' # MaxStray
    BY <2>1, PartitionsAssumption
  <2> QED
    BY <2>1, <2>2, InsertKeeps
<1>6. CASE RunOnce
  BY <1>6, RunOnceKeeps
<1> QED
  BY <1>1, <1>2, <1>3, <1>4, <1>5, <1>6 DEF PartitionsNext

\* A reading is stored once, in its own month's partition while the job keeps up,
\* and stays for as long as the retention window covers it: for every length of
\* the year, every window, every number of months ahead and every outage.
THEOREM NeverDropped == PartitionsSpec => []ReadingsKept
<1>1. PartitionsInv => ReadingsKept
  BY DEF PartitionsInv, ReadingsKept
<1> QED
  BY PartitionsInitInv, PartitionsStepInv, <1>1, PTL DEF PartitionsSpec
=============================================================================
