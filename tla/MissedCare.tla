------------------------------ MODULE MissedCare ------------------------------
(***************************************************************************)
(* One plant's watering schedule, its grace window, and the five things    *)
(* that write them concurrently:                                           *)
(*                                                                         *)
(*   - the household's commands (water, skip, remove the plant), each one  *)
(*     transaction that holds the schedule row FOR UPDATE throughout;      *)
(*   - the command dispatcher, which deletes the schedule, under the same   *)
(*     lock, when the onboarding saga that had it created is rolled back   *)
(*     (nothing creates it again: the saga's intent key is taken);         *)
(*   - the adaptive-watering consumer, which pulls a far watering forward  *)
(*     on a dry reading, under the same lock;                              *)
(*   - the missed-care consumer, which opens and closes the window from    *)
(*     WateringDue and WateringCompleted, delivered in order by the relay; *)
(*   - the missed-care tick, one transaction of three statements that read *)
(*     at different moments (READ COMMITTED): the due schedules, without a *)
(*     lock; the overdue windows, without a lock; and the schedule of each *)
(*     of those, locked.                                                   *)
(*                                                                         *)
(* A repository's save is SQLAlchemy's merge: the row is read again and    *)
(* the columns that differ from the aggregate are overwritten.  Saving an  *)
(* aggregate read before another writer's commit undoes that commit;       *)
(* saving an unchanged one writes nothing, and saving one whose row is     *)
(* gone inserts it again.                                                  *)
(*                                                                         *)
(* delays names the imperfections of this deployment: "consumer" (an event *)
(* may still be in the topic when the clock moves or the tick runs),       *)
(* "tick" (the worker may be down while the clock moves) and "race" (the   *)
(* tick's and the consumer's transactions overlap others).  A property     *)
(* that needs one of them to be absent says so.                            *)
(***************************************************************************)
EXTENDS Integers, Sequences

CONSTANTS Interval,    \* the schedule's watering interval
          GRACE_PERIOD,
          WATERING_HORIZON,
          MIN_WATERING_INTERVAL,
          Deployments, \* the sets of imperfections considered
          MaxTime,     \* bound: the clock
          MaxChanges   \* bound: commands and dry readings that change the schedule

ASSUME ConstantsAssumption ==
  /\ Interval \in Nat \ {0}
  /\ GRACE_PERIOD \in Nat \ {0}
  /\ WATERING_HORIZON \in Nat
  /\ MIN_WATERING_INTERVAL \in Nat
  /\ Deployments \subseteq SUBSET {"consumer", "tick", "race"}
  /\ MaxTime \in Nat
  /\ MaxChanges \in Nat

VARIABLES delays,      \* the imperfections of this deployment
          now,         \* the wall clock
          schedule,    \* write_care.care_schedules: next_watering_at and version
          window,      \* write_care.missed_care_windows: state and due_at
          plant,       \* write_garden.plants: removed and last_watered_at
          topic,       \* care.events of this plant not yet consumed by missed-care
          seen,        \* the window as the consumer's transaction in progress read it
          tick,        \* the tick's transaction in progress
          changes,     \* how many commands and readings changed the schedule
          completed,   \* history: the moments the plant was watered
          dues,        \* history: WateringDue as recorded, with the version it was for
          misses       \* history: CareMissed as recorded, with the window it closed

vars == <<delays, now, schedule, window, plant, topic, seen, tick, changes,
          completed, dues, misses>>

history == <<completed, dues, misses>>

Never == -1

NoWindow == [state |-> "none", due |-> Never]
NoSchedule == [next |-> Never, version |-> 0]
Idle == [phase |-> "idle", now |-> Never, read |-> NoSchedule,
         overwrites |-> FALSE, overdue |-> NoWindow]
Nothing == [state |-> "unread", due |-> Never]

WateringDue(due) == [type |-> "WateringDue", at |-> due]
WateringCompleted(at) == [type |-> "WateringCompleted", at |-> at]

PendingFor(due) == [state |-> "pending", due |-> due]
GraceDeadline(w) == w.due + GRACE_PERIOD

Init ==
  /\ delays \in Deployments
  /\ now = 0
  /\ \E first \in 0..Interval : schedule = [next |-> first, version |-> 1]
  /\ window = NoWindow
  /\ plant = [removed |-> FALSE, watered |-> Never]
  /\ topic = <<>>
  /\ seen = Nothing
  /\ tick = Idle
  /\ changes = 0
  /\ completed = {} /\ dues = <<>> /\ misses = <<>>

-----------------------------------------------------------------------------
(* The aggregate: what each operation of CareSchedule leaves in the row. *)

\* Mutants: a watering, and a miss, that does not move the schedule.
CompleteWateringInPlace(s) == [s EXCEPT !.version = s.version + 1]
MarkMissedInPlace(s) == [s EXCEPT !.version = s.version + 1]

CompleteWatering(s) == [next |-> now + Interval, version |-> s.version + 1]
Skip(s) == [next |-> s.next + Interval, version |-> s.version + 1]
Reschedule(s, at) == [next |-> at, version |-> s.version + 1]
MarkMissed(s) == [next |-> s.next + Interval, version |-> s.version + 1]

\* The tick's transaction has overwritten the schedule row and not committed.
ScheduleLocked == tick.overwrites

\* The tick's transaction has written the window row and not committed.
WindowLocked == tick.phase = "opened" /\ tick.read # NoSchedule

MayOverlap == "race" \in delays \/ (tick = Idle /\ seen = Nothing)

MayChange == changes < MaxChanges /\ ~ScheduleLocked /\ MayOverlap

-----------------------------------------------------------------------------
(* The household's commands and the dry reading. *)

WateringTooSoon ==
  plant.watered # Never /\ now - plant.watered < MIN_WATERING_INTERVAL

WaterPlant ==
  /\ MayChange /\ schedule # NoSchedule
  /\ ~plant.removed /\ ~WateringTooSoon
  /\ schedule' = CompleteWatering(schedule)
  /\ plant' = [plant EXCEPT !.watered = now]
  /\ topic' = Append(topic, WateringCompleted(now))
  /\ completed' = completed \cup {now}
  /\ changes' = changes + 1
  /\ UNCHANGED <<now, window, seen, tick, dues, misses>>

SkipWatering ==
  /\ MayChange /\ schedule # NoSchedule
  /\ schedule' = Skip(schedule)
  /\ changes' = changes + 1
  /\ UNCHANGED <<now, window, plant, topic, seen, tick, completed, dues, misses>>

\* A reading below the low threshold.
DryReading ==
  /\ MayChange /\ schedule # NoSchedule
  /\ schedule.next - now > WATERING_HORIZON
  /\ schedule' = Reschedule(schedule, now)
  /\ changes' = changes + 1
  /\ UNCHANGED <<now, window, plant, topic, seen, tick, history>>

\* The undo of the onboarding's command; the window and the plant stay, and no
\* event says that the schedule went.
DeleteCareSchedule ==
  /\ MayChange /\ schedule # NoSchedule
  /\ schedule' = NoSchedule
  /\ changes' = changes + 1
  /\ UNCHANGED <<now, window, plant, topic, seen, tick, history>>

RemovePlant ==
  /\ MayOverlap
  /\ ~plant.removed
  /\ plant' = [plant EXCEPT !.removed = TRUE]
  /\ UNCHANGED <<now, schedule, window, topic, seen, tick, changes, history>>

-----------------------------------------------------------------------------
(* The missed-care consumer: one transaction reads the window, decides and *)
(* writes it together with the delivery's ledger row.                      *)

ConsumeRead ==
  /\ seen = Nothing /\ topic # <<>> /\ MayOverlap
  /\ seen' = window
  /\ UNCHANGED <<now, schedule, window, plant, topic, tick, changes, history>>

OnWateringDue(w, due) == IF w = PendingFor(due) THEN window ELSE PendingFor(due)

\* Mutant: satisfied only at the due moment.
OnWateringCompletedNoGrace(w, at) ==
  IF w.state = "pending" /\ at <= w.due THEN [w EXCEPT !.state = "satisfied"] ELSE window

OnWateringCompleted(w, at) ==
  IF w.state = "pending" /\ at <= GraceDeadline(w)
  THEN [w EXCEPT !.state = "satisfied"]
  ELSE window

ConsumeWrite ==
  /\ seen # Nothing /\ ~WindowLocked
  /\ window' = IF Head(topic).type = "WateringDue"
               THEN OnWateringDue(seen, Head(topic).at)
               ELSE OnWateringCompleted(seen, Head(topic).at)
  /\ topic' = Tail(topic)
  /\ seen' = Nothing
  /\ UNCHANGED <<now, schedule, plant, tick, changes, history>>

-----------------------------------------------------------------------------
(* The tick: escalate_overdue, its three reads being three steps. *)

\* The schedule list_due_without_pending_window returns at moment t, if any.
DueWithoutPendingWindow(t) ==
  IF schedule # NoSchedule /\ ~plant.removed /\ schedule.next <= t /\ window.state # "pending"
  THEN schedule ELSE NoSchedule

TickReadDue ==
  /\ tick = Idle
  /\ MayOverlap
  /\ "consumer" \in delays \/ topic = <<>>
  /\ tick' = [Idle EXCEPT !.phase = "due", !.now = now,
                          !.read = DueWithoutPendingWindow(now)]
  /\ UNCHANGED <<now, schedule, window, plant, topic, seen, changes, history>>

\* The window the tick's transaction sees after saving the one it opened.
WindowInTick == IF tick.read = NoSchedule THEN window ELSE PendingFor(tick.read.next)

\* Mutants: the due moment taken for the deadline; only windows of plants still
\* in the garden.
OverdueNoGrace(w, t) == IF w.state = "pending" /\ w.due <= t THEN w ELSE NoWindow

OverdueActiveOnly(w, t) ==
  IF w.state = "pending" /\ GraceDeadline(w) <= t /\ ~plant.removed THEN w ELSE NoWindow

\* The pending window whose grace period is over at moment t, if it is one.
Overdue(w, t) == IF w.state = "pending" /\ GraceDeadline(w) <= t THEN w ELSE NoWindow

\* The rest of _open_windows_for_due, whose save puts back a schedule that has
\* changed since it was read, and the query of the overdue windows.
TickOpenWindow ==
  /\ tick.phase = "due"
  /\ tick' = [tick EXCEPT !.phase = "opened",
                          !.overwrites = tick.read \notin {NoSchedule, schedule},
                          !.overdue = Overdue(WindowInTick, tick.now)]
  /\ UNCHANGED <<now, schedule, window, plant, topic, seen, changes, history>>

\* The schedule the tick's transaction sees.
ScheduleInTick == IF tick.overwrites THEN tick.read ELSE schedule

\* _escalate_expired and the commit.  The window of the miss replaces the row; an
\* overdue window whose schedule is gone is passed over.
TickCommit ==
  /\ tick.phase = "opened"
  /\ IF tick.overdue = NoWindow \/ ScheduleInTick = NoSchedule
     THEN /\ schedule' = ScheduleInTick
          /\ window' = WindowInTick
          /\ UNCHANGED misses
     ELSE /\ schedule' = MarkMissed(ScheduleInTick)
          /\ window' = [tick.overdue EXCEPT !.state = "missed"]
          /\ misses' = Append(misses, [due |-> tick.overdue.due, at |-> tick.now])
  /\ IF tick.read = NoSchedule
     THEN UNCHANGED <<topic, dues>>
     ELSE /\ topic' = Append(topic, WateringDue(tick.read.next))
          /\ dues' = Append(dues, tick.read)
  /\ tick' = Idle
  /\ UNCHANGED <<now, plant, seen, changes, completed>>

\* The tick would change something.
TickHasWork ==
  \/ DueWithoutPendingWindow(now) # NoSchedule
  \/ Overdue(window, now) # NoWindow /\ schedule # NoSchedule

-----------------------------------------------------------------------------
Advance ==
  /\ now < MaxTime
  /\ "consumer" \in delays \/ (topic = <<>> /\ seen = Nothing)
  /\ "tick" \in delays \/ ~TickHasWork
  /\ tick = Idle \/ "race" \in delays
  /\ now' = now + 1
  /\ UNCHANGED <<schedule, window, plant, topic, seen, tick, changes, history>>

Household == WaterPlant \/ SkipWatering \/ RemovePlant \/ DeleteCareSchedule
Consumer == ConsumeRead \/ ConsumeWrite
Tick == TickReadDue \/ TickOpenWindow \/ TickCommit

Next == (Household \/ DryReading \/ Consumer \/ Tick \/ Advance) /\ UNCHANGED delays

Spec == Init /\ [][Next]_vars

(***************************************************************************)
(* Fairness.  The tick is called every missed_care_check_interval_seconds  *)
(* for as long as the worker runs and a failed one is retried; the broker  *)
(* delivers what the consumer has not acknowledged.  Nothing obliges the   *)
(* household, the sensor or the clock of a bounded run to move.            *)
(***************************************************************************)
FairSpec == Spec /\ WF_vars(Tick /\ UNCHANGED delays) /\ WF_vars(Consumer /\ UNCHANGED delays)

-----------------------------------------------------------------------------
Schedules == [next : Nat, version : Nat \ {0}]
Windows == {NoWindow} \cup [state : {"pending", "satisfied", "missed"}, due : Nat]

(* Every row and every transaction in progress holds what its columns hold:
   the consumer never holds a window with no event to handle, and the tick
   escalates only a window that was pending when it read it. *)
TypeOK ==
  /\ now \in 0..MaxTime
  /\ schedule \in Schedules \cup {NoSchedule}
  /\ window \in Windows
  /\ plant \in [removed : BOOLEAN, watered : {Never} \cup 0..MaxTime]
  /\ seen \in Windows \cup {Nothing}
  /\ seen # Nothing => topic # <<>>
  /\ tick.phase \in {"idle", "due", "opened"}
  /\ tick.read \in Schedules \cup {NoSchedule}
  /\ tick.overdue = NoWindow \/ (tick.overdue \in Windows /\ tick.overdue.state = "pending")
  /\ changes \in 0..MaxChanges

(* What the repository says of missed care without a condition.  TLC refutes
   each of the four in one of the deployments; the properties below state the
   condition under which it holds. *)

(* A watering inside the grace period satisfies the window: no CareMissed is
   recorded for a due moment after which, and before whose grace deadline, the
   plant was watered. *)
OnTimeAlwaysCounts ==
  \A i \in DOMAIN misses, t \in completed :
    ~(misses[i].due < t /\ t < misses[i].due + GRACE_PERIOD)

(* A missed watering "is recorded once": one due moment never has two
   CareMissed events, each of which shifts the schedule by an interval and is
   shown to the household. *)
MissedAtMostOnce == \A i, j \in DOMAIN misses : i # j => misses[i].due # misses[j].due

(* The version turns a lost update into a conflict: the schedule never asks for
   a watering due before the last one the household completed. *)
WateringNeverUndone ==
  plant.watered # Never /\ schedule # NoSchedule => schedule.next >= plant.watered

IsOverdue == window.state = "pending" /\ GraceDeadline(window) <= now

(* The tick escalates every expired pending window: again and again there is a
   moment at which none is past its grace period. *)
EveryOverdueWindowCloses == []<>~IsOverdue

(* "The watering is completed before the deadline" and counts.  Watering,
   delivery and escalation are three transactions of three processes: a late
   tick does no harm, an event that is still in the topic or a transaction that
   overlaps another does. *)
OnTimeNeverMissed == delays \subseteq {"tick"} => OnTimeAlwaysCounts

(* A due moment is missed once, in a deployment without delays. *)
MissedOnce == delays = {} => MissedAtMostOnce

(* One arrival of the schedule's moment has one WateringDue: two ticks never
   report the same version of the schedule, however late and overlapping they
   are, as long as the consumer has closed the window before. *)
DueOnce ==
  "consumer" \notin delays =>
  \A i, j \in DOMAIN dues : i # j => dues[i].version # dues[j].version

(* A miss is never premature and never unannounced: whatever the delays, its
   tick ran at or after the grace deadline and a WateringDue for that moment
   was recorded by then. *)
MissesAreEarned ==
  \A i \in DOMAIN misses :
    /\ misses[i].at >= misses[i].due + GRACE_PERIOD
    /\ \E j \in DOMAIN dues : dues[j].next = misses[i].due

(* A watering is never lost from the plan, unless a tick overlaps it. *)
WateringKept == "race" \notin delays => WateringNeverUndone

(* A late arrival does not erase a miss: a missed window is only ever replaced
   by the window of another due moment, in a deployment without delays. *)
MissStands ==
  [][window.state = "missed" /\ window' # window /\ delays = {}
       => window'.state # "satisfied" /\ window'.due # window.due]_vars

(* A late tick only delays the escalation: whatever the delays, there is again
   and again a moment at which no pending window is past its grace period, for
   as long as the plant has a schedule. *)
OverdueWindowCloses == []<>~(IsOverdue /\ schedule # NoSchedule)

(* One arrival of a due moment is announced once and missed once, however the
   tick, the consumer and the household's commands follow one another. *)
OncePerDueMoment == TypeOK /\ MissedOnce /\ DueOnce

(* A window ends, and for good: the tick closes every overdue window in the end
   and no late watering turns a miss into a satisfied window. *)
WindowsEnd == MissStands /\ OverdueWindowCloses
===============================================================================
