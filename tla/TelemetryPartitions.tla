------------------------- MODULE TelemetryPartitions -------------------------
(***************************************************************************)
(* The monthly partitions of write_telemetry.sensor_readings: the calendar *)
(* arithmetic, the readings that find their partition or the catch-all     *)
(* one, and the job that creates the months ahead and drops those past the *)
(* retention window.                                                       *)
(*                                                                         *)
(* One tick is one transaction.  PostgreSQL refuses to create a month's    *)
(* partition while the catch-all partition holds rows of that month, and   *)
(* the refusal rolls back the whole tick, drops included.                  *)
(***************************************************************************)
EXTENDS Integers, FiniteSets

CONSTANTS
    MONTHS_PER_YEAR,
    MONTHS_AHEAD,      \* Settings.telemetry_partition_months_ahead
    RETENTION_MONTHS,  \* Settings.telemetry_retention_months
    Readings,          \* readings of one month
    MaxYears,          \* bound: the clock
    MaxOutages,        \* bound: months in which the job does not run
    MaxStray           \* bound: readings stamped by a badly set clock

ASSUME PartitionsAssumption ==
    /\ MONTHS_PER_YEAR \in Nat \ {0} /\ MONTHS_AHEAD \in Nat /\ RETENTION_MONTHS \in Nat
    /\ MaxYears \in Nat \ {0} /\ MaxOutages \in Nat /\ MaxStray \in Nat

VARIABLES
    today,        \* the current month
    running,      \* whether the worker that runs the job is up
    partitions,   \* the months that have a partition
    rows,         \* sensor_readings: the month, the reading, where it is
    accepted,     \* history: every reading that was written
    gap,          \* history: months since the last successful tick
    late,         \* history: a reading came when that was more than it creates ahead
    strays, outages

partitionsVars == <<today, running, partitions, rows, accepted, gap, late, strays, outages>>

Months == (1 .. MaxYears) \X (1 .. MONTHS_PER_YEAR)
Default == <<0, 0>>   \* the catch-all partition has no month

next_month(m) ==
    IF m[2] = MONTHS_PER_YEAR THEN <<m[1] + 1, 1>> ELSE <<m[1], m[2] + 1>>

previous_month(m) ==
    IF m[2] = 1 THEN <<m[1] - 1, MONTHS_PER_YEAR>> ELSE <<m[1], m[2] - 1>>

add_months(m, count) ==
    LET n == IF count >= 0 THEN count ELSE -count
        step[k \in 0 .. n] ==
          IF k = 0 THEN m
          ELSE IF count >= 0 THEN next_month(step[k - 1]) ELSE previous_month(step[k - 1])
    IN step[n]

Later(a, b) == a[1] > b[1] \/ (a[1] = b[1] /\ a[2] > b[2])

months_to_create(start) == {add_months(start, k) : k \in 0 .. MONTHS_AHEAD}

retention_cutoff(start) == add_months(start, -RETENTION_MONTHS)

\* Mutant: only what lies entirely inside the window is kept.
expired_partitions_from_cutoff(present, start) ==
    {m \in present : ~Later(m, retention_cutoff(start))}

\* Mutant: a partition is retired the month after the one it could be.
expired_partitions_late(present, start) ==
    {m \in present : Later(retention_cutoff(start), next_month(m))}

\* Only a month that lies entirely before the cutoff; never the catch-all.
expired_partitions(present, start) ==
    {m \in present : ~Later(next_month(m), retention_cutoff(start))}

\* Alembic 0003 creates the table and its catch-all partition, and no month.
PartitionsInit ==
    /\ today = <<1, 1>>
    /\ running = TRUE
    /\ partitions = {}
    /\ rows = {} /\ accepted = {}
    /\ gap = MONTHS_AHEAD + 1 /\ late = FALSE /\ strays = MaxStray /\ outages = MaxOutages

-----------------------------------------------------------------------------
\* The partitions statements_for names that existing_partitions does not list.
Missing == months_to_create(today) \ partitions

\* PostgreSQL checks the catch-all partition for rows of the new one.
Refused == \E r \in rows : r.part = Default /\ r.month \in Missing

NextMonth ==
    /\ next_month(today) \in Months
    /\ ~running \/ gap = 0 \/ Refused   \* a running job ticks many times in a month
    /\ today' = next_month(today)
    /\ gap' = gap + 1
    /\ UNCHANGED <<running, partitions, rows, accepted, late, strays, outages>>

Stop ==
    /\ running /\ outages > 0
    /\ running' = FALSE /\ outages' = outages - 1
    /\ UNCHANGED <<today, partitions, rows, accepted, gap, late, strays>>

Restart ==
    /\ ~running /\ running' = TRUE
    /\ UNCHANGED <<today, partitions, rows, accepted, gap, late, strays, outages>>

\* An insert goes to the partition of its month, or to the catch-all.
Insert(month, r) ==
    LET part == IF month \in partitions THEN month ELSE Default
        reading == [month |-> month, reading |-> r] IN
    /\ ~\E row \in rows : row.month = month /\ row.reading = r
    /\ rows' = rows \cup {[month |-> month, reading |-> r, part |-> part]}
    /\ accepted' = accepted \cup {reading}
    /\ late' = (late \/ gap > MONTHS_AHEAD)

Write(r) ==
    /\ Insert(today, r)
    /\ UNCHANGED <<today, running, partitions, gap, strays, outages>>

\* A replayed capture, a badly set clock.
WriteStray(month, r) ==
    /\ strays > 0 /\ month # today
    /\ Insert(month, r)
    /\ strays' = strays - 1
    /\ UNCHANGED <<today, running, partitions, gap, outages>>

-----------------------------------------------------------------------------
(* TelemetryPartitionJob.run_once *)

ensure_telemetry_partitions == partitions \cup Missing

\* DROP TABLE takes the month's rows with it.
drop_expired_partitions(expired) == rows' = {r \in rows : r.part \notin expired}

RunOnce ==
    LET present == ensure_telemetry_partitions
        expired == expired_partitions(present, today) IN
    /\ running /\ ~Refused   \* else the tick is logged and changes nothing
    /\ partitions' = present \ expired
    /\ drop_expired_partitions(expired)
    /\ gap' = 0
    /\ UNCHANGED <<today, running, accepted, late, strays, outages>>

PartitionsNext ==
    \/ NextMonth \/ Stop \/ Restart
    \/ \E r \in Readings : Write(r) \/ \E m \in Months : WriteStray(m, r)
    \/ RunOnce

PartitionsSpec == PartitionsInit /\ [][PartitionsNext]_partitionsVars

\* The loop ticks on its interval, a stopped worker is started again, time passes.
PartitionsFairSpec == PartitionsSpec /\ WF_partitionsVars(RunOnce) /\ WF_partitionsVars(Restart) /\ WF_partitionsVars(NextMonth)

-----------------------------------------------------------------------------
(* Properties *)

\* Rows are where PostgreSQL puts them: in their month's partition, which exists,
\* or in the catch-all; and a reading is stored once.
PartitionsTypeOK ==
    /\ today \in Months /\ gap \in Nat
    /\ \A r \in rows : r.part \in {Default, r.month} /\ (r.part # Default => r.month \in partitions)
    /\ \A r, q \in rows : r.month = q.month /\ r.reading = q.reading => r = q

\* Retention drops whole months and never one the window still covers: a reading
\* of the last RETENTION_MONTHS months, or of a month to come, stays.
WindowKept ==
    \A a \in accepted :
      Later(today, add_months(a.month, RETENTION_MONTHS))
        \/ \E r \in rows : r.month = a.month /\ r.reading = a.reading

\* While the job has ticked within the months it creates ahead and no clock was
\* wrong, every reading lands in its own month and the catch-all stays empty.
OwnMonth ==
    strays = MaxStray /\ ~late
      => \A r \in rows : r.part # Default

\* The months a tick should drop by now.
Overstayed == {m \in partitions : Later(today, add_months(m, RETENTION_MONTHS))}

\* Months past the window are dropped in the end, all of them, after an outage of
\* several months too, unless the catch-all partition keeps the tick from committing.
EventuallyRetired == Overstayed # {} ~> (Overstayed = {} \/ Refused)

\* A reading is stored once, where its month belongs, for as long as the window
\* covers it, whatever the job created, missed or dropped.
ReadingsKept == PartitionsTypeOK /\ OwnMonth /\ WindowKept

\* A job that is started again catches up.  telemetry_partitions.py:15-18 says "if
\* this job is stopped for a month, readings still arrive, they simply share one
\* partition until it runs again.  That is a missing optimisation".  The rows of a
\* month the job missed are in the catch-all, PostgreSQL refuses the partition of
\* that month for as long as they are, and with it the whole tick: the months
\* after it and the retention of the old ones.
RunsAgain == running /\ partitions # {} => ~Refused
=============================================================================
