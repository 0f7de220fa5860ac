---------------------------- MODULE MissedCareProofs ----------------------------
(***************************************************************************)
(* Proofs about MissedCare for every interval, grace period, horizon and   *)
(* set of deployments.                                                     *)
(***************************************************************************)
EXTENDS MissedCare, TLAPS

Events == [type : {"WateringDue", "WateringCompleted"}, at : Nat]
Misses == [due : Nat, at : Nat]
Ticks == [phase : {"idle", "due", "opened"}, now : {Never} \cup Nat,
          read : Schedules \cup {NoSchedule}, overwrites : BOOLEAN, overdue : Windows]

\* The rows, the transactions in progress and the histories have their types; a
\* tick that is not under way holds nothing.
TypeInv ==
  /\ TypeOK
  /\ delays \in SUBSET {"consumer", "tick", "race"}
  /\ topic \in Seq(Events)
  /\ tick \in Ticks /\ (tick.phase = "idle" => tick = Idle)
  /\ tick # Idle => tick.now \in Nat /\ tick.now <= now
  /\ tick.phase = "due" => tick.overdue = NoWindow /\ ~tick.overwrites
  /\ tick.overwrites => tick.read # NoSchedule
  /\ completed \subseteq 0 .. now
  /\ dues \in Seq(Schedules) /\ misses \in Seq(Misses)
  /\ \A i \in DOMAIN misses : misses[i].at <= now

\* The tick that commits found a window overdue and its schedule still there.
Escalates == tick.overdue # NoWindow /\ ScheduleInTick # NoSchedule

-----------------------------------------------------------------------------
\* A WateringDue for the moment is recorded.
Announced(due) == \E j \in DOMAIN dues : dues[j].next = due

\* Every pending window and every WateringDue in the topic is of a moment recorded
\* as due, or, for the tick's own, is recorded in the transaction that commits it.
EarnedInv ==
  /\ window.state = "pending" => Announced(window.due)
  /\ \A i \in DOMAIN topic : topic[i].type = "WateringDue" => Announced(topic[i].at)
  /\ tick.overdue # NoWindow
       => /\ tick.overdue.due + GRACE_PERIOD <= tick.now
          /\ \/ Announced(tick.overdue.due)
             \/ tick.read # NoSchedule /\ tick.overdue = PendingFor(tick.read.next)
  /\ MissesAreEarned

-----------------------------------------------------------------------------
\* Where no transactions overlap, what a tick or the consumer has read is still so.
CurrentInv ==
  "race" \notin delays =>
    /\ tick # Idle => seen = Nothing /\ tick.now = now
    /\ tick.read # NoSchedule => /\ tick.read = schedule /\ schedule.next <= now
                                 /\ window.state # "pending" /\ ~plant.removed
    /\ ~tick.overwrites
    /\ seen # Nothing => seen = window
    /\ tick.overdue # NoWindow => tick.overdue = Overdue(WindowInTick, tick.now)

\* Where no transactions overlap, a schedule never asks for a watering before one
\* that was completed.
KeptInv ==
  "race" \notin delays =>
    /\ schedule # NoSchedule => \A t \in completed : schedule.next >= t
    /\ plant.watered # Never => plant.watered \in completed

-----------------------------------------------------------------------------
OnTime(due, t) == due < t /\ t < due + GRACE_PERIOD

\* Nothing is in the topic while a tick runs, a WateringDue is the oldest event, and
\* a window that a watering was on time for has that watering still to come.
TopicInv ==
  "consumer" \notin delays /\ "race" \notin delays =>
    /\ tick # Idle => topic = <<>>
    /\ \A i \in DOMAIN topic : topic[i].type = "WateringDue" => i = 1

OnTimeInv ==
  delays \subseteq {"tick"} =>
    /\ \A t \in completed : window.state = "pending" /\ OnTime(window.due, t)
         => \E i \in DOMAIN topic : topic[i] = WateringCompleted(t)
    /\ \A t \in completed : \A k \in DOMAIN topic :
         topic[k].type = "WateringDue" /\ OnTime(topic[k].at, t)
           => \E i \in DOMAIN topic : topic[i] = WateringCompleted(t)
    /\ tick.overdue # NoWindow => \A t \in completed : ~OnTime(tick.overdue.due, t)
    /\ OnTimeNeverMissed

-----------------------------------------------------------------------------
\* In a deployment without delays the clock never leaves a due moment behind by more
\* than the grace period, so no window is opened overdue, and the moments that were
\* missed lie before everything a schedule can still ask for.
PromptInv ==
  delays = {} =>
    /\ \A i \in DOMAIN topic : topic[i].type = "WateringDue" => window = PendingFor(topic[i].at)
    /\ schedule # NoSchedule =>
         /\ ~plant.removed /\ (window.state # "pending" \/ \E i \in DOMAIN topic : topic[i].type = "WateringCompleted")
              => schedule.next + GRACE_PERIOD > now
         /\ window.state = "pending" => /\ schedule.next >= window.due /\ now >= window.due
                                        /\ window.due + GRACE_PERIOD >= now

MissedInv ==
  delays = {} =>
    /\ schedule # NoSchedule => \A i \in DOMAIN misses : misses[i].due < schedule.next
    /\ window.state = "pending" => \A i \in DOMAIN misses : misses[i].due # window.due
    /\ window.state = "missed" => \E i \in DOMAIN misses : misses[i].due = window.due
    /\ MissedOnce

-----------------------------------------------------------------------------
\* Where the consumer keeps up, a version of the schedule that was reported is
\* followed by a later one, or its window is pending as soon as the topic is empty.
ReportedInv ==
  "consumer" \notin delays =>
    /\ schedule # NoSchedule => \A j \in DOMAIN dues : dues[j].version <= schedule.version
    /\ (\E j \in DOMAIN dues : dues[j].version = schedule.version)
         => IF topic = <<>> THEN window.state = "pending" ELSE topic[Len(topic)].type = "WateringDue"
    /\ \A i \in DOMAIN topic : topic[i].type = "WateringDue" => tick = Idle
    /\ tick.read # NoSchedule
         => /\ schedule # NoSchedule => schedule.version >= tick.read.version
            /\ \A j \in DOMAIN dues : dues[j].version < tick.read.version
    /\ seen # Nothing /\ topic[1].type = "WateringDue" => seen = window
    /\ DueOnce

-----------------------------------------------------------------------------
(* What the steps do to the sequences and the records. *)

\* An event appended to the topic is its last one.
LEMMA AppendIs ==
  ASSUME NEW S, NEW s \in Seq(S), NEW e \in S
  PROVE  /\ Append(s, e) \in Seq(S) /\ Append(s, e) # <<>>
         /\ Len(Append(s, e)) = Len(s) + 1
         /\ DOMAIN Append(s, e) = DOMAIN s \cup {Len(s) + 1}
         /\ \A i \in DOMAIN s : Append(s, e)[i] = s[i]
         /\ Append(s, e)[Len(s) + 1] = e
  OBVIOUS

\* Without its oldest event the topic holds the others, one place earlier.
LEMMA TailIs ==
  ASSUME NEW S, NEW s \in Seq(S), s # <<>>
  PROVE  /\ Tail(s) \in Seq(S) /\ Len(Tail(s)) = Len(s) - 1
         /\ Head(s) = s[1] /\ 1 \in DOMAIN s /\ Head(s) \in S
         /\ \A i \in DOMAIN Tail(s) : i + 1 \in DOMAIN s /\ Tail(s)[i] = s[i + 1]
         /\ \A i \in DOMAIN s : i # 1 => i - 1 \in DOMAIN Tail(s) /\ Tail(s)[i - 1] = s[i]
  OBVIOUS

\* The constant rows.
LEMMA Constants ==
  /\ NoWindow \in Windows /\ NoWindow.state = "none" /\ NoWindow.due = -1
  /\ Nothing \notin Windows
  /\ NoSchedule \notin Schedules /\ NoSchedule.next = -1 /\ NoSchedule.version = 0
  /\ Idle \in Ticks /\ Idle.phase = "idle" /\ Idle.read = NoSchedule
  /\ Idle.overdue = NoWindow /\ Idle.overwrites = FALSE /\ Idle.now = -1
  /\ \A d \in Nat : PendingFor(d) \in Windows /\ PendingFor(d).state = "pending" /\ PendingFor(d).due = d
  /\ \A w \in Windows : w.state = "pending" => w.due \in Nat /\ w = PendingFor(w.due)
  /\ \A w \in Windows : w = NoWindow \/ (w.state \in {"pending", "satisfied", "missed"} /\ w.due \in Nat)
<1>1. /\ NoWindow \in Windows /\ NoWindow.state = "none" /\ NoWindow.due = -1
      /\ Nothing \notin Windows
      /\ NoSchedule \notin Schedules /\ NoSchedule.next = -1 /\ NoSchedule.version = 0
  BY DEF NoWindow, Windows, Nothing, NoSchedule, Schedules, Never
<1>2. /\ Idle \in Ticks /\ Idle.phase = "idle" /\ Idle.read = NoSchedule
      /\ Idle.overdue = NoWindow /\ Idle.overwrites = FALSE /\ Idle.now = -1
  BY <1>1 DEF Idle, Ticks, Never
<1>3. \A d \in Nat : PendingFor(d) \in Windows /\ PendingFor(d).state = "pending" /\ PendingFor(d).due = d
  BY DEF PendingFor, Windows
<1>4. \A w \in Windows : w.state = "pending" => w.due \in Nat /\ w = PendingFor(w.due)
  BY DEF PendingFor, Windows, NoWindow
<1>5. \A w \in Windows : w = NoWindow \/ (w.state \in {"pending", "satisfied", "missed"} /\ w.due \in Nat)
  BY DEF Windows
<1> QED
  BY <1>1, <1>2, <1>3, <1>4, <1>5

\* The tick's window and schedule are windows and schedules.
LEMMA InTick ==
  ASSUME TypeInv
  PROVE  /\ WindowInTick \in Windows /\ ScheduleInTick \in Schedules \cup {NoSchedule}
         /\ tick.read # NoSchedule => /\ tick.read \in Schedules /\ tick.read.next \in Nat
                                      /\ WindowInTick = PendingFor(tick.read.next)
         /\ tick.read = NoSchedule => WindowInTick = window
         /\ Overdue(WindowInTick, tick.now) \in Windows
         /\ Overdue(WindowInTick, tick.now) # NoWindow
              => /\ Overdue(WindowInTick, tick.now) = WindowInTick
                 /\ WindowInTick.state = "pending"
                 /\ WindowInTick.due + GRACE_PERIOD <= tick.now
         /\ tick.overdue # NoWindow => /\ tick.overdue.state = "pending" /\ tick.overdue.due \in Nat
                                       /\ tick.overdue \in Windows
<1>1. /\ tick.read # NoSchedule => tick.read \in Schedules /\ tick.read.next \in Nat
      /\ schedule \in Schedules \cup {NoSchedule} /\ window \in Windows /\ tick \in Ticks
      /\ tick.overwrites => tick.read # NoSchedule
  BY DEF TypeInv, TypeOK, Ticks, Schedules
<1>2. WindowInTick \in Windows /\ ScheduleInTick \in Schedules \cup {NoSchedule}
  BY <1>1, Constants DEF WindowInTick, ScheduleInTick
<1>3. /\ tick.read # NoSchedule => WindowInTick = PendingFor(tick.read.next)
      /\ tick.read = NoSchedule => WindowInTick = window
  BY DEF WindowInTick
<1>4. /\ Overdue(WindowInTick, tick.now) \in Windows
      /\ Overdue(WindowInTick, tick.now) # NoWindow
              => /\ Overdue(WindowInTick, tick.now) = WindowInTick
                 /\ WindowInTick.state = "pending"
                 /\ WindowInTick.due + GRACE_PERIOD <= tick.now
  BY <1>2, Constants DEF Overdue, GraceDeadline
<1>5. tick.overdue # NoWindow => /\ tick.overdue.state = "pending" /\ tick.overdue.due \in Nat
                                 /\ tick.overdue \in Windows
  BY Constants DEF TypeInv, TypeOK
<1> QED
  BY <1>1, <1>2, <1>3, <1>4, <1>5

\* WaterPlant moves the schedule an interval ahead of now and reports the watering.
LEMMA WaterPlantIs ==
  ASSUME TypeInv, WaterPlant
  PROVE  /\ schedule' \in Schedules
         /\ schedule'.next = now + Interval /\ schedule'.version = schedule.version + 1
         /\ plant' \in [removed : BOOLEAN, watered : {Never} \cup 0..MaxTime]
         /\ plant'.watered = now /\ plant'.removed = plant.removed
         /\ topic' = Append(topic, WateringCompleted(now)) /\ WateringCompleted(now) \in Events
         /\ WateringCompleted(now).type = "WateringCompleted"
         /\ completed' = completed \cup {now} /\ changes' = changes + 1 /\ changes' \in 0 .. MaxChanges
         /\ now' = now /\ window' = window /\ seen' = seen /\ tick' = tick
         /\ dues' = dues /\ misses' = misses
         /\ MayOverlap /\ ~tick.overwrites /\ schedule # NoSchedule
<1> USE ConstantsAssumption
<1>1. schedule \in Schedules /\ now \in 0 .. MaxTime /\ changes \in 0 .. MaxChanges
      /\ plant \in [removed : BOOLEAN, watered : {Never} \cup 0..MaxTime]
  BY DEF TypeInv, TypeOK, WaterPlant
<1>2. /\ schedule' \in Schedules
      /\ schedule'.next = now + Interval /\ schedule'.version = schedule.version + 1
  BY <1>1 DEF WaterPlant, CompleteWatering, Schedules
<1>3. /\ plant' \in [removed : BOOLEAN, watered : {Never} \cup 0..MaxTime]
      /\ plant'.watered = now /\ plant'.removed = plant.removed
  BY <1>1 DEF WaterPlant
<1>4. WateringCompleted(now) \in Events /\ WateringCompleted(now).type = "WateringCompleted"
  BY <1>1 DEF WateringCompleted, Events
<1>5. changes' = changes + 1 /\ changes' \in 0 .. MaxChanges
  BY <1>1 DEF WaterPlant, MayChange
<1> QED
  BY <1>2, <1>3, <1>4, <1>5 DEF WaterPlant, MayChange, ScheduleLocked

\* SkipWatering and DryReading move the schedule, and nothing else: an interval on,
\* or to now.
LEMMA RescheduleIs ==
  ASSUME TypeInv, SkipWatering \/ DryReading
  PROVE  /\ schedule' \in Schedules /\ schedule'.version = schedule.version + 1
         /\ schedule'.next = schedule.next + Interval \/ schedule'.next = now
         /\ changes' \in 0 .. MaxChanges
         /\ now' = now /\ window' = window /\ plant' = plant /\ topic' = topic /\ seen' = seen
         /\ tick' = tick /\ completed' = completed /\ dues' = dues /\ misses' = misses
         /\ MayOverlap /\ ~tick.overwrites /\ schedule # NoSchedule
<1> USE ConstantsAssumption
<1>1. schedule \in Schedules /\ now \in 0 .. MaxTime /\ changes \in 0 .. MaxChanges
  BY DEF TypeInv, TypeOK, SkipWatering, DryReading
<1>2. MayChange /\ changes' = changes + 1
  BY DEF SkipWatering, DryReading
<1>3. changes' \in 0 .. MaxChanges
  BY <1>1, <1>2 DEF MayChange
<1>4. /\ schedule' \in Schedules /\ schedule'.version = schedule.version + 1
      /\ schedule'.next = schedule.next + Interval \/ schedule'.next = now
  BY <1>1 DEF SkipWatering, DryReading, Skip, Reschedule, Schedules
<1> QED
  BY <1>2, <1>3, <1>4 DEF SkipWatering, DryReading, MayChange, ScheduleLocked, history

\* DeleteCareSchedule takes the schedule away, and nothing else.
LEMMA DeleteIs ==
  ASSUME TypeInv, DeleteCareSchedule
  PROVE  /\ schedule # NoSchedule /\ schedule' = NoSchedule /\ changes' \in 0 .. MaxChanges
         /\ now' = now /\ window' = window /\ plant' = plant /\ topic' = topic /\ seen' = seen
         /\ tick' = tick /\ completed' = completed /\ dues' = dues /\ misses' = misses
         /\ MayOverlap /\ ~tick.overwrites
<1>1. changes \in 0 .. MaxChanges /\ changes < MaxChanges /\ changes' = changes + 1
  BY DEF TypeInv, TypeOK, DeleteCareSchedule, MayChange
<1>2. changes' \in 0 .. MaxChanges
  BY <1>1, ConstantsAssumption
<1> QED
  BY <1>2 DEF DeleteCareSchedule, MayChange, ScheduleLocked, history

\* ConsumeWrite handles the oldest event with the window as it was read.
LEMMA ConsumeWriteIs ==
  ASSUME TypeInv, ConsumeWrite
  PROVE  /\ topic # <<>> /\ topic' = Tail(topic) /\ topic[1] \in Events /\ topic[1].at \in Nat
         /\ seen \in Windows /\ seen' = Nothing /\ window' \in Windows
         /\ topic[1].type = "WateringDue"
              => \/ window' = PendingFor(topic[1].at)
                 \/ seen = PendingFor(topic[1].at) /\ window' = window
         /\ topic[1].type = "WateringCompleted"
              => \/ /\ seen.state = "pending" /\ topic[1].at <= seen.due + GRACE_PERIOD
                    /\ window'.state = "satisfied" /\ window'.due = seen.due
                 \/ /\ window' = window
                    /\ seen.state = "pending" => topic[1].at > seen.due + GRACE_PERIOD
         /\ now' = now /\ schedule' = schedule /\ plant' = plant /\ tick' = tick /\ changes' = changes
         /\ completed' = completed /\ dues' = dues /\ misses' = misses
<1> USE ConstantsAssumption
<1>1. topic # <<>> /\ topic \in Seq(Events) /\ window \in Windows /\ seen \in Windows
  BY DEF TypeInv, TypeOK, ConsumeWrite
<1>2. Head(topic) = topic[1] /\ topic[1] \in Events
  BY <1>1, TailIs
<1>3. topic[1].at \in Nat /\ topic[1].type \in {"WateringDue", "WateringCompleted"}
  BY <1>2 DEF Events
<1>4. CASE topic[1].type = "WateringDue"
  <2>1. window' = OnWateringDue(seen, topic[1].at)
    BY <1>2, <1>4 DEF ConsumeWrite
  <2>2. \/ window' = PendingFor(topic[1].at)
        \/ seen = PendingFor(topic[1].at) /\ window' = window
    BY <2>1 DEF OnWateringDue
  <2>3. window' \in Windows
    BY <1>1, <1>3, <2>2, Constants
  <2> QED
    BY <1>1, <1>2, <1>3, <1>4, <2>2, <2>3 DEF ConsumeWrite, history
<1>5. CASE topic[1].type = "WateringCompleted"
  <2>1. window' = OnWateringCompleted(seen, topic[1].at)
    BY <1>2, <1>5 DEF ConsumeWrite
  <2>2. CASE seen.state = "pending" /\ topic[1].at <= seen.due + GRACE_PERIOD
    <3>1. window' = [seen EXCEPT !.state = "satisfied"] /\ seen.due \in Nat
      BY <1>1, <2>1, <2>2, Constants DEF OnWateringCompleted, GraceDeadline
    <3>2. window' \in Windows /\ window'.state = "satisfied" /\ window'.due = seen.due
      BY <1>1, <2>2, <3>1 DEF Windows, NoWindow
    <3> QED
      BY <1>1, <1>2, <1>3, <1>5, <2>2, <3>2 DEF ConsumeWrite, history
  <2>3. CASE ~(seen.state = "pending" /\ topic[1].at <= seen.due + GRACE_PERIOD)
    <3>1. window' = window
      BY <2>1, <2>3 DEF OnWateringCompleted, GraceDeadline
    <3>2. seen.state = "pending" => topic[1].at > seen.due + GRACE_PERIOD
      BY <1>1, <1>3, <2>3, Constants
    <3> QED
      BY <1>1, <1>2, <1>3, <1>5, <3>1, <3>2 DEF ConsumeWrite, history
  <2> QED
    BY <2>2, <2>3
<1> QED
  BY <1>3, <1>4, <1>5

\* What the rows and the elements of the topic and the histories are.
LEMMA Elements ==
  ASSUME TypeInv
  PROVE  /\ \A i \in DOMAIN misses : /\ misses[i].due \in Nat /\ misses[i].at \in Nat
                                     /\ misses[i].at <= now
         /\ \A j \in DOMAIN dues : /\ dues[j].next \in Nat /\ dues[j].version \in Nat
                                   /\ dues[j].version # 0
         /\ \A i \in DOMAIN topic : /\ topic[i].type \in {"WateringDue", "WateringCompleted"}
                                    /\ topic[i] \in Events /\ topic[i].at \in Nat
         /\ \A t \in completed : t \in Nat /\ t <= now
         /\ now \in Nat /\ schedule.next \in Int /\ schedule.version \in Nat
         /\ tick \in Ticks /\ window \in Windows /\ (window.state = "pending" => window.due \in Nat)
         /\ schedule # NoSchedule => schedule \in Schedules /\ schedule.next \in Nat
         /\ schedule = NoSchedule => schedule.version = 0
<1>1. \A i \in DOMAIN misses : misses[i] \in Misses /\ misses[i].at <= now
  BY DEF TypeInv
<1>2. \A j \in DOMAIN dues : dues[j] \in Schedules
  BY DEF TypeInv
<1>3. \A i \in DOMAIN topic : topic[i] \in Events
  BY DEF TypeInv
<1>4. now \in Nat /\ schedule \in Schedules \cup {NoSchedule} /\ completed \subseteq 0 .. now
      /\ tick \in Ticks /\ window \in Windows
  BY ConstantsAssumption DEF TypeInv, TypeOK
<1>5. \A i \in DOMAIN misses : misses[i].due \in Nat /\ misses[i].at \in Nat
  BY <1>1 DEF Misses
<1>6. \A j \in DOMAIN dues : dues[j].next \in Nat /\ dues[j].version \in Nat /\ dues[j].version # 0
  BY <1>2 DEF Schedules
<1>7. \A i \in DOMAIN topic : /\ topic[i].type \in {"WateringDue", "WateringCompleted"}
                             /\ topic[i].at \in Nat
  BY <1>3 DEF Events
<1>8. /\ schedule # NoSchedule => schedule \in Schedules /\ schedule.next \in Nat
      /\ schedule = NoSchedule => schedule.version = 0
      /\ schedule.next \in Int /\ schedule.version \in Nat
  BY <1>4, Constants DEF Schedules
<1>9. window.state = "pending" => window.due \in Nat
  BY <1>4, Constants
<1> QED
  BY <1>1, <1>3, <1>4, <1>5, <1>6, <1>7, <1>8, <1>9

\* TickReadDue takes the schedule that is due and has no pending window, if any.
LEMMA TickReadDueIs ==
  ASSUME TypeInv, TickReadDue
  PROVE  /\ tick = Idle /\ MayOverlap /\ ("consumer" \in delays \/ topic = <<>>)
         /\ tick' \in Ticks /\ tick'.phase = "due" /\ tick'.now = now
         /\ tick'.overwrites = FALSE /\ tick'.overdue = NoWindow
         /\ \/ tick'.read = NoSchedule
            \/ tick'.read = schedule /\ schedule # NoSchedule /\ schedule.next <= now /\ window.state # "pending" /\ ~plant.removed
         /\ now' = now /\ schedule' = schedule /\ window' = window /\ plant' = plant /\ topic' = topic
         /\ seen' = seen /\ changes' = changes
         /\ completed' = completed /\ dues' = dues /\ misses' = misses
<1>1. schedule \in Schedules \cup {NoSchedule} /\ now \in Nat
  BY ConstantsAssumption DEF TypeInv, TypeOK
<1> DEFINE r == DueWithoutPendingWindow(now)
<1>2. /\ r \in Schedules \cup {NoSchedule}
      /\ \/ r = NoSchedule
         \/ r = schedule /\ schedule # NoSchedule /\ schedule.next <= now /\ window.state # "pending" /\ ~plant.removed
  BY <1>1 DEF DueWithoutPendingWindow
<1>3. tick' = [Idle EXCEPT !.phase = "due", !.now = now, !.read = r]
  BY DEF TickReadDue
<1> HIDE DEF r
<1>4. /\ tick' \in Ticks /\ tick'.phase = "due" /\ tick'.now = now /\ tick'.read = r
      /\ tick'.overwrites = FALSE /\ tick'.overdue = NoWindow
  BY <1>1, <1>2, <1>3, Constants DEF Idle, Ticks
<1> QED
  BY <1>2, <1>4 DEF TickReadDue, history

\* TickOpenWindow finds the window it sees overdue or not, and overwrites a schedule
\* that has changed since it was read.
LEMMA TickOpenWindowIs ==
  ASSUME TypeInv, TickOpenWindow
  PROVE  /\ tick.phase = "due" /\ tick # Idle
         /\ tick' \in Ticks /\ tick'.phase = "opened" /\ tick'.now = tick.now /\ tick'.read = tick.read
         /\ tick'.overwrites = (tick.read # NoSchedule /\ tick.read # schedule)
         /\ tick'.overdue = Overdue(WindowInTick, tick.now)
         /\ now' = now /\ schedule' = schedule /\ window' = window /\ plant' = plant /\ topic' = topic
         /\ seen' = seen /\ changes' = changes
         /\ completed' = completed /\ dues' = dues /\ misses' = misses
<1>1. tick \in Ticks /\ tick.phase = "due" /\ tick # Idle
  BY Constants DEF TypeInv, TickOpenWindow
<1> DEFINE o == Overdue(WindowInTick, tick.now)
<1>2. o \in Windows
  BY InTick
<1> DEFINE w == tick.read \notin {NoSchedule, schedule}
<1>3. w \in BOOLEAN /\ w = (tick.read # NoSchedule /\ tick.read # schedule)
  OBVIOUS
<1>4. tick' = [tick EXCEPT !.phase = "opened", !.overwrites = w, !.overdue = o]
  BY DEF TickOpenWindow
<1> HIDE DEF o, w
<1>5. /\ tick' \in Ticks /\ tick'.phase = "opened" /\ tick'.now = tick.now /\ tick'.read = tick.read
      /\ tick'.overwrites = w /\ tick'.overdue = o
  BY <1>1, <1>2, <1>3, <1>4 DEF Ticks
<1>6. /\ now' = now /\ schedule' = schedule /\ window' = window /\ plant' = plant /\ topic' = topic
      /\ seen' = seen /\ changes' = changes
      /\ completed' = completed /\ dues' = dues /\ misses' = misses
  BY DEF TickOpenWindow, history
<1> QED
  BY <1>1, <1>3, <1>5, <1>6 DEF o

\* TickCommit writes the window it opened or missed, the schedule it saw, moved on
\* by a miss, and the events.
LEMMA TickCommitIs ==
  ASSUME TypeInv, TickCommit
  PROVE  /\ tick # Idle /\ tick' = Idle
         /\ schedule' \in Schedules \cup {NoSchedule} /\ window' \in Windows
         /\ ~Escalates => /\ schedule' = ScheduleInTick /\ window' = WindowInTick
                                       /\ misses' = misses
         /\ Escalates
              => /\ tick.overdue # NoWindow /\ ScheduleInTick \in Schedules
                 /\ schedule' \in Schedules
                 /\ schedule'.next = ScheduleInTick.next + Interval
                 /\ schedule'.version = ScheduleInTick.version + 1
                 /\ window'.state = "missed" /\ window'.due = tick.overdue.due
                 /\ [due |-> tick.overdue.due, at |-> tick.now] \in Misses
                 /\ misses' = Append(misses, [due |-> tick.overdue.due, at |-> tick.now])
         /\ tick.read = NoSchedule => topic' = topic /\ dues' = dues
         /\ tick.read # NoSchedule
              => /\ tick.read \in Schedules /\ WateringDue(tick.read.next) \in Events
                 /\ topic' = Append(topic, WateringDue(tick.read.next))
                 /\ dues' = Append(dues, tick.read)
         /\ now' = now /\ plant' = plant /\ seen' = seen /\ changes' = changes /\ completed' = completed
<1>1. tick \in Ticks /\ tick # Idle /\ tick.now \in Nat
  BY Constants DEF TypeInv, TickCommit
<1>2. tick.read # NoSchedule => tick.read \in Schedules /\ WateringDue(tick.read.next) \in Events
  BY <1>1 DEF Ticks, WateringDue, Events, Schedules
<1>3. ScheduleInTick \in Schedules \cup {NoSchedule} /\ WindowInTick \in Windows
  BY InTick
<1>4. ~Escalates => /\ schedule' = ScheduleInTick /\ window' = WindowInTick
                                 /\ misses' = misses
  BY DEF TickCommit, Escalates
<1>5. ASSUME Escalates
      PROVE  /\ tick.overdue # NoWindow /\ ScheduleInTick \in Schedules
             /\ schedule' \in Schedules /\ window' \in Windows
             /\ schedule'.next = ScheduleInTick.next + Interval
             /\ schedule'.version = ScheduleInTick.version + 1
             /\ window'.state = "missed" /\ window'.due = tick.overdue.due
             /\ [due |-> tick.overdue.due, at |-> tick.now] \in Misses
             /\ misses' = Append(misses, [due |-> tick.overdue.due, at |-> tick.now])
  <2>0. tick.overdue # NoWindow /\ ScheduleInTick \in Schedules
    BY <1>3, <1>5 DEF Escalates
  <2>1. /\ schedule' = MarkMissed(ScheduleInTick)
        /\ window' = [tick.overdue EXCEPT !.state = "missed"]
        /\ misses' = Append(misses, [due |-> tick.overdue.due, at |-> tick.now])
    BY <1>5 DEF TickCommit, Escalates
  <2>2. tick.overdue \in Windows /\ tick.overdue.due \in Nat /\ tick.overdue.state = "pending"
    BY <2>0, InTick
  <2>3. window' \in Windows /\ window'.state = "missed" /\ window'.due = tick.overdue.due
    BY <2>0, <2>1, <2>2 DEF Windows
  <2>4. /\ schedule' \in Schedules
        /\ schedule'.next = ScheduleInTick.next + Interval
        /\ schedule'.version = ScheduleInTick.version + 1
    BY <2>0, <2>1, ConstantsAssumption DEF MarkMissed, Schedules
  <2>5. [due |-> tick.overdue.due, at |-> tick.now] \in Misses
    BY <2>2, <1>1 DEF Misses
  <2> QED
    BY <2>0, <2>1, <2>3, <2>4, <2>5
<1>6. /\ tick.read = NoSchedule => topic' = topic /\ dues' = dues
      /\ tick.read # NoSchedule => /\ topic' = Append(topic, WateringDue(tick.read.next))
                                   /\ dues' = Append(dues, tick.read)
  BY DEF TickCommit
<1>7. /\ now' = now /\ plant' = plant /\ seen' = seen /\ changes' = changes /\ completed' = completed
      /\ tick' = Idle
  BY DEF TickCommit
<1> QED
  BY <1>1, <1>2, <1>3, <1>4, <1>5, <1>6, <1>7

\* The steps of the specification, for the case analyses below.
LEMMA Cases ==
  ASSUME [Next]_vars, NEW P,
         WaterPlant /\ delays' = delays => P,
         (SkipWatering \/ DryReading) /\ delays' = delays => P,
         DeleteCareSchedule /\ delays' = delays => P,
         RemovePlant /\ delays' = delays => P,
         ConsumeRead /\ delays' = delays => P,
         ConsumeWrite /\ delays' = delays => P,
         TickReadDue /\ delays' = delays => P,
         TickOpenWindow /\ delays' = delays => P,
         TickCommit /\ delays' = delays => P,
         Advance /\ delays' = delays => P,
         UNCHANGED vars => P
  PROVE  P
  BY DEF Next, Household, Consumer, Tick

-----------------------------------------------------------------------------
(* Types *)

\* The rows, transactions and histories keep their types.
LEMMA TypeStep == TypeInv /\ [Next]_vars => TypeInv'
<1> SUFFICES ASSUME TypeInv, [Next]_vars PROVE TypeInv'
  OBVIOUS
<1>0. /\ now \in 0 .. MaxTime /\ changes \in 0 .. MaxChanges /\ tick \in Ticks /\ window \in Windows
      /\ MaxTime \in Nat /\ now \in Nat
  BY ConstantsAssumption DEF TypeInv, TypeOK
<1>1. ASSUME WaterPlant, delays' = delays PROVE TypeInv'
  <2>0. /\ schedule' \in Schedules /\ plant' \in [removed : BOOLEAN, watered : {Never} \cup 0..MaxTime]
        /\ topic' = Append(topic, WateringCompleted(now)) /\ WateringCompleted(now) \in Events
        /\ completed' = completed \cup {now} /\ changes' \in 0 .. MaxChanges
        /\ now' = now /\ window' = window /\ seen' = seen /\ tick' = tick
        /\ dues' = dues /\ misses' = misses
    BY <1>1, WaterPlantIs
  <2>1. topic' \in Seq(Events) /\ topic' # <<>>
    BY <2>0, AppendIs DEF TypeInv
  <2>2. completed' \subseteq 0 .. now' /\ now \in 0 .. now
    BY <2>0, <1>0 DEF TypeInv
  <2> QED
    BY <1>1, <2>0, <2>1, <2>2 DEF TypeInv, TypeOK
<1>2. ASSUME SkipWatering \/ DryReading, delays' = delays PROVE TypeInv'
  BY <1>2, RescheduleIs DEF TypeInv, TypeOK
<1>2d. ASSUME DeleteCareSchedule, delays' = delays PROVE TypeInv'
  BY <1>2d, DeleteIs DEF TypeInv, TypeOK
<1>3. ASSUME RemovePlant, delays' = delays PROVE TypeInv'
  <2>1. plant' \in [removed : BOOLEAN, watered : {Never} \cup 0..MaxTime]
    BY <1>3 DEF RemovePlant, TypeInv, TypeOK
  <2> QED
    BY <1>3, <2>1 DEF TypeInv, TypeOK, RemovePlant, history
<1>4. ASSUME ConsumeRead, delays' = delays PROVE TypeInv'
  BY <1>4 DEF TypeInv, TypeOK, ConsumeRead, history
<1>5. ASSUME ConsumeWrite, delays' = delays PROVE TypeInv'
  <2>1. topic' \in Seq(Events)
    BY <1>5, ConsumeWriteIs, TailIs DEF TypeInv
  <2> QED
    BY <1>5, <2>1, ConsumeWriteIs DEF TypeInv, TypeOK
<1>6. ASSUME TickReadDue, delays' = delays PROVE TypeInv'
  <2>1. tick' # Idle /\ tick'.phase # "idle"
    BY <1>6, TickReadDueIs, Constants
  <2>2. tick'.read \in Schedules \cup {NoSchedule}
    BY <1>6, TickReadDueIs DEF Ticks
  <2>3. /\ tick' \in Ticks /\ tick'.phase = "due" /\ tick'.now = now
        /\ tick'.overwrites = FALSE /\ tick'.overdue = NoWindow
        /\ now' = now /\ schedule' = schedule /\ window' = window /\ plant' = plant /\ topic' = topic
        /\ seen' = seen /\ changes' = changes
        /\ completed' = completed /\ dues' = dues /\ misses' = misses
    BY <1>6, TickReadDueIs
  <2> QED
    BY <1>0, <1>6, <2>1, <2>2, <2>3 DEF TypeInv, TypeOK
<1>7. ASSUME TickOpenWindow, delays' = delays PROVE TypeInv'
  <2>1. /\ tick' # Idle /\ tick'.phase = "opened" /\ tick'.now \in Nat /\ tick'.now <= now
        /\ tick'.read \in Schedules \cup {NoSchedule}
        /\ tick'.overwrites => tick'.read # NoSchedule
    BY <1>7, TickOpenWindowIs, Constants DEF Ticks, TypeInv
  <2>2. tick'.overdue = NoWindow \/ (tick'.overdue \in Windows /\ tick'.overdue.state = "pending")
    BY <1>7, TickOpenWindowIs, InTick
  <2> QED
    BY <1>7, <2>1, <2>2, TickOpenWindowIs DEF TypeInv, TypeOK
<1>8. ASSUME TickCommit, delays' = delays PROVE TypeInv'
  <2>1. topic' \in Seq(Events) /\ dues' \in Seq(Schedules) /\ (seen' # Nothing => topic' # <<>>)
    <3>1. CASE tick.read = NoSchedule
      BY <1>8, <3>1, TickCommitIs DEF TypeInv, TypeOK
    <3>2. CASE tick.read # NoSchedule
      <4>1. /\ tick.read \in Schedules /\ WateringDue(tick.read.next) \in Events
            /\ topic' = Append(topic, WateringDue(tick.read.next)) /\ dues' = Append(dues, tick.read)
        BY <1>8, <3>2, TickCommitIs
      <4>2. topic \in Seq(Events) /\ dues \in Seq(Schedules)
        BY DEF TypeInv
      <4> QED
        BY <4>1, <4>2, AppendIs
    <3> QED
      BY <3>1, <3>2
  <2>2. misses' \in Seq(Misses) /\ \A i \in DOMAIN misses' : misses'[i].at <= now
    <3>1. CASE ~Escalates
      BY <1>8, <3>1, TickCommitIs DEF TypeInv
    <3>2. CASE Escalates
      <4> DEFINE m == [due |-> tick.overdue.due, at |-> tick.now]
      <4>1. m \in Misses /\ misses' = Append(misses, m) /\ m.at = tick.now /\ tick.now <= now
        BY <1>8, <3>2, TickCommitIs DEF TypeInv
      <4>2. misses \in Seq(Misses) /\ \A i \in DOMAIN misses : misses[i].at <= now
        BY DEF TypeInv
      <4> HIDE DEF m
      <4> QED
        BY <4>1, <4>2, AppendIs
    <3> QED
      BY <3>1, <3>2
  <2>3. /\ schedule' \in Schedules \cup {NoSchedule} /\ window' \in Windows /\ tick' = Idle
        /\ now' = now /\ plant' = plant /\ seen' = seen /\ changes' = changes /\ completed' = completed
    BY <1>8, TickCommitIs
  <2>4. /\ tick' \in Ticks /\ tick'.phase = "idle" /\ tick'.read = NoSchedule
        /\ tick'.overdue = NoWindow /\ tick'.overwrites = FALSE
    BY <2>3, Constants
  <2> QED
    BY <1>8, <2>1, <2>2, <2>3, <2>4 DEF TypeInv, TypeOK
<1>9. ASSUME Advance, delays' = delays PROVE TypeInv'
  <2>1. now' = now + 1 /\ now' \in 0 .. MaxTime
    BY <1>0, <1>9 DEF Advance
  <2>2. /\ tick' = tick /\ completed' = completed /\ misses' = misses /\ dues' = dues
        /\ schedule' = schedule /\ window' = window /\ plant' = plant /\ topic' = topic
        /\ seen' = seen /\ changes' = changes
    BY <1>9 DEF Advance, history
  <2>3. completed' \subseteq 0 .. now'
    BY <1>0, <2>1, <2>2 DEF TypeInv
  <2>4. \A i \in DOMAIN misses' : misses'[i].at <= now'
    <3>1. \A i \in DOMAIN misses : misses[i].at \in Nat /\ misses[i].at <= now
      BY Elements
    <3> QED
      BY <1>0, <2>1, <2>2, <3>1
  <2>5. tick' # Idle => tick'.now \in Nat /\ tick'.now <= now'
    BY <1>0, <2>1, <2>2 DEF TypeInv
  <2> QED
    BY <1>9, <2>1, <2>2, <2>3, <2>4, <2>5 DEF TypeInv, TypeOK
<1>10. ASSUME UNCHANGED vars PROVE TypeInv'
  BY <1>10 DEF TypeInv, TypeOK, vars
<1> QED
  BY <1>1, <1>2, <1>2d, <1>3, <1>4, <1>5, <1>6, <1>7, <1>8, <1>9, <1>10, Cases

\* The first state has the types.
LEMMA TypeInit == Init => TypeInv
<1> SUFFICES ASSUME Init PROVE TypeInv
  OBVIOUS
<1> USE ConstantsAssumption
<1>1. schedule \in Schedules
  BY DEF Init, Schedules
<1>2. plant \in [removed : BOOLEAN, watered : {Never} \cup 0..MaxTime]
  BY DEF Init
<1>3. now \in 0 .. MaxTime /\ changes \in 0 .. MaxChanges /\ completed \subseteq 0 .. now
  BY DEF Init
<1>4. topic \in Seq(Events) /\ dues \in Seq(Schedules) /\ misses \in Seq(Misses) /\ DOMAIN misses = {}
  BY DEF Init
<1>5. /\ tick = Idle /\ tick \in Ticks /\ tick.phase = "idle" /\ tick.read = NoSchedule
      /\ tick.overdue = NoWindow /\ tick.overwrites = FALSE
  BY Constants DEF Init
<1> QED
  BY <1>1, <1>2, <1>3, <1>4, <1>5, Constants DEF Init, TypeInv, TypeOK

\* Rows, transactions in progress, the topic and the histories always have their
\* types, whatever overlaps and however late the tick and the consumer are.
THEOREM TypeCorrect == Spec => []TypeInv
  BY TypeInit, TypeStep, PTL DEF Spec

-----------------------------------------------------------------------------
(* Misses are earned *)

\* Pending windows, events and misses stay those of recorded due moments.
LEMMA EarnedStep == TypeInv /\ EarnedInv /\ [Next]_vars => EarnedInv'
<1> SUFFICES ASSUME TypeInv, EarnedInv, [Next]_vars PROVE EarnedInv'
  OBVIOUS
<1>1. ASSUME WaterPlant PROVE EarnedInv'
  <2>1. /\ topic' = Append(topic, WateringCompleted(now)) /\ WateringCompleted(now) \in Events
        /\ WateringCompleted(now).type = "WateringCompleted" /\ topic \in Seq(Events)
        /\ now' = now /\ window' = window /\ tick' = tick /\ dues' = dues /\ misses' = misses
    BY <1>1, WaterPlantIs DEF TypeInv
  <2>2. \A i \in DOMAIN topic' : topic'[i].type = "WateringDue" => i \in DOMAIN topic /\ topic'[i] = topic[i]
    BY <2>1, AppendIs
  <2> QED
    BY <2>1, <2>2 DEF EarnedInv, Announced, MissesAreEarned
<1>2. ASSUME UNCHANGED <<window, topic, tick, dues, misses>> PROVE EarnedInv'
  BY <1>2 DEF EarnedInv, Announced, MissesAreEarned
<1>3. ASSUME ConsumeWrite PROVE EarnedInv'
  <2>1. /\ topic # <<>> /\ topic' = Tail(topic) /\ topic[1].at \in Nat
        /\ tick' = tick /\ dues' = dues /\ misses' = misses /\ topic \in Seq(Events)
        /\ topic[1].type \in {"WateringDue", "WateringCompleted"} /\ 1 \in DOMAIN topic
    BY <1>3, ConsumeWriteIs, TailIs, Elements DEF TypeInv
  <2>2. \A i \in DOMAIN topic' : i + 1 \in DOMAIN topic /\ topic'[i] = topic[i + 1]
    BY <2>1, TailIs
  <2>3. window'.state = "pending" => Announced(window'.due)
    <3>1. CASE topic[1].type = "WateringDue"
      BY <1>3, <2>1, <3>1, ConsumeWriteIs, Constants DEF EarnedInv
    <3>2. CASE topic[1].type = "WateringCompleted"
      BY <1>3, <3>2, ConsumeWriteIs DEF EarnedInv
    <3> QED
      BY <2>1, <3>1, <3>2
  <2> QED
    BY <2>1, <2>2, <2>3 DEF EarnedInv, Announced, MissesAreEarned
<1>4. ASSUME TickReadDue PROVE EarnedInv'
  BY <1>4, TickReadDueIs DEF EarnedInv, Announced, MissesAreEarned
<1>5. ASSUME TickOpenWindow PROVE EarnedInv'
  <2>1. ASSUME tick'.overdue # NoWindow
        PROVE  /\ tick'.overdue.due + GRACE_PERIOD <= tick'.now
               /\ \/ Announced(tick'.overdue.due)
                  \/ tick'.read # NoSchedule /\ tick'.overdue = PendingFor(tick'.read.next)
    <3>1. /\ tick'.overdue = WindowInTick /\ WindowInTick.state = "pending"
          /\ WindowInTick.due + GRACE_PERIOD <= tick.now /\ tick'.now = tick.now /\ tick'.read = tick.read
      BY <1>5, <2>1, TickOpenWindowIs, InTick
    <3>2. CASE tick.read = NoSchedule
      BY <3>1, <3>2, InTick DEF EarnedInv
    <3>3. CASE tick.read # NoSchedule
      BY <3>1, <3>3, InTick
    <3> QED
      BY <3>2, <3>3
  <2> QED
    BY <1>5, <2>1, TickOpenWindowIs DEF EarnedInv, Announced, MissesAreEarned
<1>6. ASSUME TickCommit PROVE EarnedInv'
  <2>1. tick' = Idle /\ tick'.overdue = NoWindow
    BY <1>6, TickCommitIs, Constants
  <2> DEFINE Known(d) == \E j \in DOMAIN dues' : dues'[j].next = d
  <2>2. \A d : Announced(d) => Known(d)
    <3>1. CASE tick.read = NoSchedule
      BY <1>6, <3>1, TickCommitIs DEF Announced
    <3>2. CASE tick.read # NoSchedule
      <4>1. tick.read \in Schedules /\ dues' = Append(dues, tick.read) /\ dues \in Seq(Schedules)
        BY <1>6, <3>2, TickCommitIs DEF TypeInv
      <4>2. DOMAIN dues \subseteq DOMAIN dues' /\ \A j \in DOMAIN dues : dues'[j] = dues[j]
        BY <4>1, AppendIs
      <4> QED
        BY <4>2 DEF Announced
    <3> QED
      BY <3>1, <3>2
  <2>3. tick.read # NoSchedule => Known(tick.read.next)
    <3>1. SUFFICES ASSUME tick.read # NoSchedule PROVE Known(tick.read.next)
      OBVIOUS
    <3>2. tick.read \in Schedules /\ dues' = Append(dues, tick.read) /\ dues \in Seq(Schedules)
      BY <1>6, <3>1, TickCommitIs DEF TypeInv
    <3>3. Len(dues) + 1 \in DOMAIN dues' /\ dues'[Len(dues) + 1] = tick.read
      BY <3>2, AppendIs
    <3> QED
      BY <3>3
  <2> HIDE DEF Known
  <2>4. window'.state = "pending" => Known(window'.due)
    <3>1. ASSUME window'.state = "pending" PROVE window' = WindowInTick
      BY <1>6, <3>1, TickCommitIs
    <3>2. CASE tick.read = NoSchedule
      BY <2>2, <3>1, <3>2, InTick DEF EarnedInv
    <3>3. CASE tick.read # NoSchedule
      BY <2>3, <3>1, <3>3, InTick, Constants
    <3> QED
      BY <3>2, <3>3
  <2>5. \A i \in DOMAIN topic' : topic'[i].type = "WateringDue" => Known(topic'[i].at)
    <3>1. CASE tick.read = NoSchedule
      BY <1>6, <2>2, <3>1, TickCommitIs DEF EarnedInv
    <3>2. CASE tick.read # NoSchedule
      <4>1. /\ WateringDue(tick.read.next) \in Events /\ topic \in Seq(Events)
            /\ topic' = Append(topic, WateringDue(tick.read.next))
            /\ WateringDue(tick.read.next).at = tick.read.next
        BY <1>6, <3>2, TickCommitIs DEF TypeInv, WateringDue
      <4>2. \A i \in DOMAIN topic' : \/ i \in DOMAIN topic /\ topic'[i] = topic[i]
                                    \/ topic'[i] = WateringDue(tick.read.next)
        BY <4>1, AppendIs
      <4> QED
        BY <2>2, <2>3, <3>2, <4>1, <4>2 DEF EarnedInv
    <3> QED
      BY <3>1, <3>2
  <2>6. \A i \in DOMAIN misses' : /\ misses'[i].at >= misses'[i].due + GRACE_PERIOD
                                 /\ Known(misses'[i].due)
    <3>1. \A i \in DOMAIN misses : /\ misses[i].at >= misses[i].due + GRACE_PERIOD
                                  /\ Announced(misses[i].due)
      BY DEF EarnedInv, MissesAreEarned, Announced
    <3>2. CASE ~Escalates
      BY <1>6, <2>2, <3>1, <3>2, TickCommitIs
    <3>3. CASE Escalates
      <4> DEFINE m == [due |-> tick.overdue.due, at |-> tick.now]
      <4>1. m \in Misses /\ misses' = Append(misses, m) /\ misses \in Seq(Misses)
            /\ m.at = tick.now /\ m.due = tick.overdue.due
        BY <1>6, <3>3, TickCommitIs DEF TypeInv
      <4>2. tick.overdue.due + GRACE_PERIOD <= tick.now /\ tick.now \in Nat /\ tick.overdue.due \in Nat
        BY <1>6, <3>3, InTick, TickCommitIs DEF EarnedInv, TypeInv
      <4>3. Known(m.due)
        <5>1. tick.read # NoSchedule => tick.read.next \in Nat
          BY InTick
        <5> QED
          BY <1>6, <2>2, <2>3, <3>3, <4>1, <5>1, Constants, TickCommitIs DEF EarnedInv
      <4>4. m.at >= m.due + GRACE_PERIOD
        BY <4>1, <4>2, ConstantsAssumption
      <4> HIDE DEF m
      <4>5. \A i \in DOMAIN misses' : (i \in DOMAIN misses /\ misses'[i] = misses[i]) \/ misses'[i] = m
        BY <4>1, AppendIs
      <4> QED
        BY <2>2, <3>1, <4>3, <4>4, <4>5
    <3> QED
      BY <3>2, <3>3
  <2> QED
    BY <2>1, <2>4, <2>5, <2>6 DEF EarnedInv, Announced, MissesAreEarned, Known
<1>7. ASSUME Advance PROVE EarnedInv'
  BY <1>2, <1>7 DEF Advance, history
<1> QED
  BY <1>1, <1>2, <1>3, <1>4, <1>5, <1>6, <1>7, Cases, RescheduleIs, DeleteIs
     DEF RemovePlant, ConsumeRead, history, vars

\* A miss is never premature and never unannounced, whatever is late and whatever
\* overlaps: its tick ran at or after the grace deadline, and the due moment is recorded.
THEOREM EarnedMisses == Spec => []MissesAreEarned
<1>1. Init => EarnedInv
  <2> SUFFICES ASSUME Init PROVE EarnedInv
    OBVIOUS
  <2>1. DOMAIN topic = {} /\ DOMAIN misses = {} /\ window = NoWindow /\ tick = Idle
    BY DEF Init
  <2> QED
    BY <2>1, Constants DEF EarnedInv, MissesAreEarned
<1>2. EarnedInv => MissesAreEarned
  BY DEF EarnedInv
<1> QED
  BY <1>1, <1>2, EarnedStep, TypeCorrect, PTL DEF Spec

-----------------------------------------------------------------------------
(* Deployments whose transactions do not overlap *)

\* A tick that is not under way has read nothing.
LEMMA IdleHolds ==
  ASSUME TypeInv, tick = Idle
  PROVE  tick.read = NoSchedule /\ tick.overdue = NoWindow /\ tick.overwrites = FALSE
  BY Constants

\* What a transaction in progress has read stays so where none overlaps it.
LEMMA CurrentStep == TypeInv /\ CurrentInv /\ [Next]_vars => CurrentInv'
<1> SUFFICES ASSUME TypeInv, CurrentInv, [Next]_vars PROVE CurrentInv'
  OBVIOUS
<1>d. delays' = delays
  BY DEF Next, vars
<1> SUFFICES ASSUME "race" \notin delays PROVE CurrentInv'
  BY <1>d DEF CurrentInv
<1>0. /\ tick # Idle => seen = Nothing /\ tick.now = now
      /\ tick.read # NoSchedule => /\ tick.read = schedule /\ schedule.next <= now
                                   /\ window.state # "pending" /\ ~plant.removed
      /\ ~tick.overwrites
      /\ seen # Nothing => seen = window
      /\ tick.overdue # NoWindow => tick.overdue = Overdue(WindowInTick, tick.now)
  BY DEF CurrentInv
<1>m. MayOverlap => tick = Idle /\ seen = Nothing
  BY DEF MayOverlap
<1>1. ASSUME WaterPlant PROVE CurrentInv'
  BY <1>1, <1>m, WaterPlantIs, IdleHolds DEF CurrentInv
<1>2. ASSUME SkipWatering \/ DryReading PROVE CurrentInv'
  BY <1>2, <1>m, RescheduleIs, IdleHolds DEF CurrentInv
<1>2d. ASSUME DeleteCareSchedule PROVE CurrentInv'
  BY <1>2d, <1>m, DeleteIs, IdleHolds DEF CurrentInv
<1>3. ASSUME RemovePlant PROVE CurrentInv'
  BY <1>3, <1>m, IdleHolds DEF CurrentInv, RemovePlant
<1>4. ASSUME ConsumeRead PROVE CurrentInv'
  BY <1>4, <1>m, IdleHolds DEF CurrentInv, ConsumeRead
<1>5. ASSUME ConsumeWrite PROVE CurrentInv'
  <2>1. tick = Idle /\ tick' = tick /\ seen' = Nothing
    BY <1>0, <1>5 DEF ConsumeWrite
  <2> QED
    BY <2>1, IdleHolds DEF CurrentInv
<1>6. ASSUME TickReadDue PROVE CurrentInv'
  BY <1>6, <1>m, TickReadDueIs DEF CurrentInv
<1>7. ASSUME TickOpenWindow PROVE CurrentInv'
  <2>1. WindowInTick' = WindowInTick
    BY <1>7, TickOpenWindowIs DEF WindowInTick
  <2>2. /\ tick # Idle /\ tick'.now = tick.now /\ tick'.read = tick.read
        /\ tick'.overwrites = (tick.read # NoSchedule /\ tick.read # schedule)
        /\ tick'.overdue = Overdue(WindowInTick, tick.now)
        /\ now' = now /\ schedule' = schedule /\ window' = window /\ plant' = plant /\ seen' = seen
    BY <1>7, TickOpenWindowIs
  <2>3. Overdue(WindowInTick, tick.now)' = Overdue(WindowInTick, tick.now)
    BY <2>1, <2>2 DEF Overdue, GraceDeadline
  <2> QED
    BY <1>0, <2>2, <2>3 DEF CurrentInv
<1>8. ASSUME TickCommit PROVE CurrentInv'
  BY <1>0, <1>8, TickCommitIs, Constants DEF CurrentInv
<1>9. ASSUME Advance PROVE CurrentInv'
  BY <1>0, <1>9, IdleHolds DEF CurrentInv, Advance
<1>10. ASSUME UNCHANGED vars PROVE CurrentInv'
  BY <1>10 DEF CurrentInv, vars, Overdue, GraceDeadline, WindowInTick
<1> QED
  BY <1>1, <1>2, <1>2d, <1>3, <1>4, <1>5, <1>6, <1>7, <1>8, <1>9, <1>10, Cases

\* A schedule stays ahead of the waterings where no tick overlaps them.
LEMMA KeptStep == TypeInv /\ CurrentInv /\ KeptInv /\ [Next]_vars => KeptInv'
<1> SUFFICES ASSUME TypeInv, CurrentInv, KeptInv, [Next]_vars PROVE KeptInv'
  OBVIOUS
<1>d. delays' = delays
  BY DEF Next, vars
<1> SUFFICES ASSUME "race" \notin delays PROVE KeptInv'
  BY <1>d DEF KeptInv
<1> USE ConstantsAssumption
<1>0. /\ schedule # NoSchedule => schedule.next \in Nat /\ \A t \in completed : schedule.next >= t
      /\ plant.watered # Never => plant.watered \in completed
      /\ \A t \in completed : t \in Nat /\ t <= now
      /\ now \in Nat
  BY Elements DEF KeptInv
<1>1. ASSUME WaterPlant PROVE KeptInv'
  <2>1. schedule'.next = now + Interval /\ completed' = completed \cup {now} /\ plant'.watered = now
    BY <1>1, WaterPlantIs
  <2>2. \A t \in completed' : schedule'.next >= t
    BY <1>0, <2>1
  <2> QED
    BY <2>1, <2>2 DEF KeptInv
<1>2. ASSUME SkipWatering \/ DryReading PROVE KeptInv'
  <2>1. /\ schedule'.next = schedule.next + Interval \/ schedule'.next = now
        /\ completed' = completed /\ plant' = plant /\ schedule # NoSchedule
    BY <1>2, RescheduleIs
  <2>2. \A t \in completed' : schedule'.next >= t
    BY <1>0, <2>1
  <2> QED
    BY <1>0, <2>1, <2>2 DEF KeptInv
<1>2d. ASSUME DeleteCareSchedule PROVE KeptInv'
  BY <1>0, <1>2d, DeleteIs DEF KeptInv
<1>3. ASSUME UNCHANGED <<schedule, completed, plant>> PROVE KeptInv'
  BY <1>3 DEF KeptInv
<1>4. ASSUME RemovePlant PROVE KeptInv'
  <2>1. plant'.watered = plant.watered /\ schedule' = schedule /\ completed' = completed
    BY <1>4 DEF RemovePlant, history, TypeInv, TypeOK
  <2> QED
    BY <1>0, <2>1 DEF KeptInv
<1>5. ASSUME TickCommit PROVE KeptInv'
  <2>1. ScheduleInTick = schedule
    BY DEF CurrentInv, ScheduleInTick
  <2>2. /\ \/ schedule' = schedule
           \/ schedule \in Schedules /\ schedule'.next = schedule.next + Interval
        /\ completed' = completed /\ plant' = plant
    BY <1>5, <2>1, TickCommitIs
  <2>3. schedule' # NoSchedule => \A t \in completed' : schedule'.next >= t
    BY <1>0, <2>2, Constants
  <2> QED
    BY <1>0, <2>2, <2>3 DEF KeptInv
<1>6. ASSUME Advance PROVE KeptInv'
  BY <1>3, <1>6 DEF Advance, history
<1> QED
  BY <1>1, <1>2, <1>2d, <1>3, <1>4, <1>5, <1>6, Cases
     DEF ConsumeRead, ConsumeWrite, TickReadDue, TickOpenWindow, history, vars

\* What a transaction has read is current in every reachable state of a deployment
\* whose transactions do not overlap.
LEMMA CurrentAlways == Spec => [](TypeInv /\ CurrentInv /\ KeptInv)
<1>1. Init => CurrentInv /\ KeptInv
  <2> SUFFICES ASSUME Init PROVE CurrentInv /\ KeptInv
    OBVIOUS
  <2>1. tick = Idle /\ seen = Nothing /\ completed = {} /\ plant.watered = Never
    BY DEF Init
  <2>2. tick.read = NoSchedule /\ tick.overdue = NoWindow /\ tick.overwrites = FALSE
    BY <2>1, Constants
  <2> QED
    BY <2>1, <2>2 DEF CurrentInv, KeptInv
<1> QED
  BY <1>1, CurrentStep, KeptStep, TypeCorrect, PTL DEF Spec

\* A watering is never lost from the plan: the schedule never asks for a watering due
\* before the last one the household completed, where no tick overlaps the watering.
THEOREM WateringStays == Spec => []WateringKept
<1>1. TypeInv /\ CurrentInv /\ KeptInv => WateringKept
  BY DEF KeptInv, WateringKept, WateringNeverUndone
<1> QED
  BY <1>1, CurrentAlways, PTL

-----------------------------------------------------------------------------
(* Deployments in which only the tick may be late *)

\* The topic is empty while a tick runs, and a WateringDue is its oldest event.
LEMMA TopicStep == TypeInv /\ CurrentInv /\ TopicInv /\ [Next]_vars => TopicInv'
<1> SUFFICES ASSUME TypeInv, CurrentInv, TopicInv, [Next]_vars PROVE TopicInv'
  OBVIOUS
<1>d. delays' = delays
  BY DEF Next, vars
<1> SUFFICES ASSUME "race" \notin delays, "consumer" \notin delays PROVE TopicInv'
  BY <1>d DEF TopicInv
<1>0. /\ tick # Idle => topic = <<>>
      /\ \A i \in DOMAIN topic : topic[i].type = "WateringDue" => i = 1
      /\ topic \in Seq(Events)
  BY DEF TopicInv, TypeInv
<1>m. MayOverlap => tick = Idle /\ seen = Nothing
  BY DEF MayOverlap
<1>1. ASSUME WaterPlant PROVE TopicInv'
  <2>1. /\ topic' = Append(topic, WateringCompleted(now)) /\ WateringCompleted(now) \in Events
        /\ WateringCompleted(now).type = "WateringCompleted" /\ tick = Idle /\ tick' = tick
    BY <1>1, <1>m, WaterPlantIs
  <2>2. \A i \in DOMAIN topic' : topic'[i].type = "WateringDue" => i \in DOMAIN topic /\ topic'[i] = topic[i]
    BY <1>0, <2>1, AppendIs
  <2> QED
    BY <1>0, <2>1, <2>2 DEF TopicInv
<1>2. ASSUME UNCHANGED <<topic, tick>> PROVE TopicInv'
  BY <1>0, <1>2 DEF TopicInv
<1>3. ASSUME ConsumeWrite PROVE TopicInv'
  <2>1. topic # <<>> /\ topic' = Tail(topic) /\ tick' = tick /\ tick = Idle
    BY <1>0, <1>3, ConsumeWriteIs
  <2>2. \A i \in DOMAIN topic' : i \in Nat /\ i >= 1 /\ i + 1 \in DOMAIN topic /\ topic'[i] = topic[i + 1]
    BY <1>0, <2>1, TailIs
  <2> QED
    BY <1>0, <2>1, <2>2 DEF TopicInv
<1>4. ASSUME TickReadDue PROVE TopicInv'
  BY <1>0, <1>4, TickReadDueIs DEF TopicInv
<1>5. ASSUME TickOpenWindow PROVE TopicInv'
  BY <1>0, <1>5, TickOpenWindowIs DEF TopicInv
<1>6. ASSUME TickCommit PROVE TopicInv'
  <2>1. topic = <<>> /\ tick' = Idle
    BY <1>0, <1>6, TickCommitIs
  <2>2. CASE tick.read = NoSchedule
    BY <1>0, <1>6, <2>1, <2>2, TickCommitIs DEF TopicInv
  <2>3. CASE tick.read # NoSchedule
    <3>1. topic' = Append(topic, WateringDue(tick.read.next)) /\ WateringDue(tick.read.next) \in Events
      BY <1>6, <2>3, TickCommitIs
    <3>2. DOMAIN topic' = {1}
      BY <1>0, <2>1, <3>1
    <3> QED
      BY <2>1, <3>2 DEF TopicInv
  <2> QED
    BY <2>2, <2>3
<1>7. ASSUME Advance PROVE TopicInv'
  BY <1>2, <1>7 DEF Advance
<1> QED
  BY <1>1, <1>2, <1>3, <1>4, <1>5, <1>6, <1>7, Cases, RescheduleIs, DeleteIs
     DEF RemovePlant, ConsumeRead, vars

\* A watering on time closes the window before a tick can see it.
LEMMA OnTimeStep ==
  TypeInv /\ EarnedInv /\ CurrentInv /\ KeptInv /\ TopicInv /\ OnTimeInv /\ [Next]_vars => OnTimeInv'
<1> SUFFICES ASSUME TypeInv, EarnedInv, CurrentInv, KeptInv, TopicInv, OnTimeInv, [Next]_vars
             PROVE  OnTimeInv'
  OBVIOUS
<1>d. delays' = delays
  BY DEF Next, vars
<1> SUFFICES ASSUME delays \subseteq {"tick"} PROVE OnTimeInv'
  BY <1>d DEF OnTimeInv
<1> USE ConstantsAssumption
<1> DEFINE Reported(t) == \E i \in DOMAIN topic : topic[i] = WateringCompleted(t)
           StillReported(t) == \E i \in DOMAIN topic' : topic'[i] = WateringCompleted(t)
<1>0. /\ \A t \in completed : window.state = "pending" /\ OnTime(window.due, t) => Reported(t)
      /\ \A t \in completed : \A k \in DOMAIN topic :
           topic[k].type = "WateringDue" /\ OnTime(topic[k].at, t) => Reported(t)
      /\ tick.overdue # NoWindow => \A t \in completed : ~OnTime(tick.overdue.due, t)
      /\ \A i \in DOMAIN misses, t \in completed : ~OnTime(misses[i].due, t)
      /\ topic \in Seq(Events)
  BY DEF OnTimeInv, OnTimeNeverMissed, OnTimeAlwaysCounts, OnTime, TypeInv
<1>m. MayOverlap => tick = Idle /\ seen = Nothing
  BY DEF MayOverlap
<1> DEFINE Goal ==
        /\ \A t \in completed' : window'.state = "pending" /\ OnTime(window'.due, t) => StillReported(t)
        /\ \A t \in completed' : \A k \in DOMAIN topic' :
             topic'[k].type = "WateringDue" /\ OnTime(topic'[k].at, t) => StillReported(t)
        /\ tick'.overdue # NoWindow => \A t \in completed' : ~OnTime(tick'.overdue.due, t)
        /\ \A i \in DOMAIN misses', t \in completed' : ~OnTime(misses'[i].due, t)
<1> SUFFICES Goal
  BY DEF OnTimeInv, OnTimeNeverMissed, OnTimeAlwaysCounts, OnTime
<1>1. ASSUME WaterPlant PROVE Goal
  <2>1. /\ topic' = Append(topic, WateringCompleted(now)) /\ WateringCompleted(now) \in Events
        /\ WateringCompleted(now).type = "WateringCompleted" /\ tick = Idle /\ tick' = tick
        /\ completed' = completed \cup {now} /\ window' = window /\ misses' = misses
    BY <1>1, <1>m, WaterPlantIs
  <2>2. /\ \A i \in DOMAIN topic : i \in DOMAIN topic' /\ topic'[i] = topic[i]
        /\ \A i \in DOMAIN topic' : (i \in DOMAIN topic /\ topic'[i] = topic[i]) \/ topic'[i] = WateringCompleted(now)
        /\ \E i \in DOMAIN topic' : topic'[i] = WateringCompleted(now)
    BY <1>0, <2>1, AppendIs
  <2>3. StillReported(now) /\ \A t : Reported(t) => StillReported(t)
    BY <2>2
  <2>4. \A i \in DOMAIN misses : ~OnTime(misses[i].due, now)
    <3>1. \A i \in DOMAIN misses : /\ misses[i].due \in Nat /\ misses[i].at \in Nat /\ misses[i].at <= now
                                  /\ now \in Nat /\ misses[i].at >= misses[i].due + GRACE_PERIOD
      BY Elements DEF EarnedInv, MissesAreEarned
    <3> QED
      BY <3>1 DEF OnTime
  <2>5. tick'.overdue = NoWindow
    BY <2>1, IdleHolds
  <2> HIDE DEF Reported, StillReported
  <2> QED
    BY <1>0, <2>1, <2>2, <2>3, <2>4, <2>5
<1>2. ASSUME UNCHANGED <<topic, tick, window, completed, misses>> PROVE Goal
  BY <1>0, <1>2
<1>3. ASSUME ConsumeWrite PROVE Goal
  <2>1. /\ topic # <<>> /\ topic' = Tail(topic) /\ tick' = tick /\ completed' = completed /\ misses' = misses
        /\ seen \in Windows /\ topic[1].at \in Nat /\ topic[1].type \in {"WateringDue", "WateringCompleted"}
    BY <1>3, ConsumeWriteIs, Elements, TailIs DEF TypeInv
  <2>2. seen = window
    BY <1>3 DEF CurrentInv, ConsumeWrite
  <2>3. /\ \A i \in DOMAIN topic' : i >= 1 /\ i + 1 \in DOMAIN topic /\ topic'[i] = topic[i + 1]
        /\ \A i \in DOMAIN topic : i # 1 => i - 1 \in DOMAIN topic' /\ topic'[i - 1] = topic[i]
    BY <1>0, <2>1, TailIs
  <2>4. \A i \in DOMAIN topic' : topic'[i].type # "WateringDue"
    <3>1. \A i \in DOMAIN topic : topic[i].type = "WateringDue" => i = 1
      BY DEF TopicInv
    <3>2. \A i \in DOMAIN topic' : i + 1 # 1
      BY <2>1, <2>3, TailIs, <1>0
    <3> QED
      BY <2>3, <3>1, <3>2
  <2>5. \A t : Reported(t) /\ topic[1] # WateringCompleted(t) => StillReported(t)
    BY <2>3
  <2>6. 1 \in DOMAIN topic
    BY <1>0, <2>1, TailIs
  <2> HIDE DEF Reported, StillReported
  <2>7. CASE topic[1].type = "WateringDue"
    <3>1. \A t : topic[1] # WateringCompleted(t)
      BY <2>7 DEF WateringCompleted
    <3>2. window' = PendingFor(topic[1].at)
      BY <1>3, <2>2, <2>7, ConsumeWriteIs
    <3>3. window'.due = topic[1].at
      BY <2>1, <3>2, Constants
    <3> QED
      BY <1>0, <2>1, <2>4, <2>5, <2>6, <2>7, <3>1, <3>3
  <2>8. CASE topic[1].type = "WateringCompleted"
    <3>1. CASE window'.state = "satisfied"
      BY <1>0, <2>1, <2>4, <3>1
    <3>2. CASE window' = window /\ (window.state = "pending" => topic[1].at > window.due + GRACE_PERIOD)
      <4>1. \A t \in completed : window.state = "pending" /\ OnTime(window.due, t) => topic[1] # WateringCompleted(t)
        <5>1. \A t : WateringCompleted(t).at = t
          BY DEF WateringCompleted
        <5>2. window.state = "pending" => window.due \in Nat
          BY Elements
        <5>3. \A t \in completed : t \in Nat
          BY Elements
        <5> QED
          BY <3>2, <5>1, <5>2, <5>3 DEF OnTime
      <4> QED
        BY <1>0, <2>1, <2>4, <2>5, <3>2, <4>1
    <3> QED
      BY <1>3, <2>2, <2>8, <3>1, <3>2, ConsumeWriteIs
  <2> QED
    BY <2>1, <2>7, <2>8
<1>4. ASSUME TickReadDue PROVE Goal
  BY <1>0, <1>4, TickReadDueIs
<1>5. ASSUME TickOpenWindow PROVE Goal
  <2>1. /\ topic' = topic /\ window' = window /\ completed' = completed /\ misses' = misses
        /\ tick'.overdue = Overdue(WindowInTick, tick.now) /\ tick # Idle
    BY <1>5, TickOpenWindowIs
  <2>2. ASSUME tick'.overdue # NoWindow PROVE \A t \in completed : ~OnTime(tick'.overdue.due, t)
    <3>1. tick'.overdue = WindowInTick /\ WindowInTick.state = "pending"
      BY <2>1, <2>2, InTick
    <3>2. CASE tick.read = NoSchedule
      <4>1. topic = <<>>
        BY <2>1 DEF TopicInv
      <4>2. DOMAIN topic = {}
        BY <4>1
      <4> QED
        BY <1>0, <3>1, <3>2, <4>2, InTick
    <3>3. CASE tick.read # NoSchedule
      <4>1. tick.read = schedule /\ schedule # NoSchedule /\ tick'.overdue.due = schedule.next
        BY <3>1, <3>3, InTick, Constants DEF CurrentInv
      <4>2. \A t \in completed : schedule.next >= t /\ t \in Nat /\ schedule.next \in Nat
        BY <4>1, Elements DEF KeptInv
      <4> QED
        BY <4>1, <4>2 DEF OnTime
    <3> QED
      BY <3>2, <3>3
  <2> QED
    BY <1>0, <2>1, <2>2
<1>6. ASSUME TickCommit PROVE Goal
  <2>1. tick # Idle /\ tick'.overdue = NoWindow /\ completed' = completed
    BY <1>6, TickCommitIs, Constants
  <2>2. topic = <<>> /\ DOMAIN topic = {}
    BY <2>1 DEF TopicInv
  <2>3. tick.read # NoSchedule => /\ tick.read.next \in Nat
                                  /\ \A t \in completed : ~OnTime(tick.read.next, t)
    <3>1. schedule # NoSchedule
            => \A t \in completed : schedule.next >= t /\ t \in Nat /\ schedule.next \in Nat
      BY Elements DEF KeptInv
    <3> QED
      BY <3>1, InTick DEF CurrentInv, OnTime
  <2>4. \A t \in completed : window'.state = "pending" => ~OnTime(window'.due, t)
    <3>1. window'.state = "pending" => window' = WindowInTick
      BY <1>6, TickCommitIs
    <3>2. CASE tick.read = NoSchedule
      BY <1>0, <2>2, <3>1, <3>2, InTick
    <3>3. CASE tick.read # NoSchedule
      BY <2>3, <3>1, <3>3, InTick, Constants
    <3> QED
      BY <3>2, <3>3
  <2>5. \A k \in DOMAIN topic' : topic'[k].at = tick.read.next /\ tick.read # NoSchedule
    <3>1. CASE tick.read = NoSchedule
      BY <1>6, <2>2, <3>1, TickCommitIs
    <3>2. CASE tick.read # NoSchedule
      <4>1. topic' = Append(topic, WateringDue(tick.read.next)) /\ WateringDue(tick.read.next) \in Events
            /\ WateringDue(tick.read.next).at = tick.read.next
        BY <1>6, <3>2, TickCommitIs DEF WateringDue
      <4>2. \A k \in DOMAIN topic' : topic'[k] = WateringDue(tick.read.next)
        BY <1>0, <2>2, <4>1, AppendIs
      <4> QED
        BY <3>2, <4>1, <4>2
    <3> QED
      BY <3>1, <3>2
  <2>6. \A i \in DOMAIN misses', t \in completed : ~OnTime(misses'[i].due, t)
    <3>1. CASE ~Escalates
      BY <1>0, <1>6, <3>1, TickCommitIs
    <3>2. CASE Escalates
      <4> DEFINE m == [due |-> tick.overdue.due, at |-> tick.now]
      <4>1. m \in Misses /\ misses' = Append(misses, m) /\ misses \in Seq(Misses) /\ m.due = tick.overdue.due
        BY <1>6, <3>2, TickCommitIs DEF TypeInv
      <4> HIDE DEF m
      <4>2. \A i \in DOMAIN misses' : (i \in DOMAIN misses /\ misses'[i] = misses[i]) \/ misses'[i] = m
        BY <4>1, AppendIs
      <4> QED
        BY <1>0, <1>6, <3>2, <4>1, <4>2, TickCommitIs
    <3> QED
      BY <3>1, <3>2
  <2> QED
    BY <2>1, <2>3, <2>4, <2>5, <2>6
<1>7. ASSUME Advance PROVE Goal
  BY <1>2, <1>7 DEF Advance, history
<1> HIDE DEF Goal
<1> QED
  BY <1>1, <1>2, <1>3, <1>4, <1>5, <1>6, <1>7, Cases, RescheduleIs, DeleteIs
     DEF RemovePlant, ConsumeRead, history, vars

\* "The watering is completed before the deadline": no CareMissed is recorded for a
\* due moment after which, and before whose grace deadline, the plant was watered,
\* however late the tick is.
THEOREM OnTimeIsNeverMissed == Spec => []OnTimeNeverMissed
<1>1. Init => EarnedInv /\ TopicInv /\ OnTimeInv
  <2> SUFFICES ASSUME Init PROVE EarnedInv /\ TopicInv /\ OnTimeInv
    OBVIOUS
  <2>1. /\ DOMAIN topic = {} /\ DOMAIN misses = {} /\ window = NoWindow /\ tick = Idle
        /\ completed = {} /\ topic = <<>>
    BY DEF Init
  <2> QED
    BY <2>1, Constants
       DEF EarnedInv, MissesAreEarned, TopicInv, OnTimeInv, OnTimeNeverMissed,
           OnTimeAlwaysCounts
<1>2. OnTimeInv => OnTimeNeverMissed
  BY DEF OnTimeInv, OnTimeNeverMissed
<1> QED
  BY <1>1, <1>2, EarnedStep, TopicStep, OnTimeStep, CurrentAlways, PTL DEF Spec

-----------------------------------------------------------------------------
(* The deployment without delays *)

\* A tick that finds a window overdue found one that was there before: the one it
\* opens itself is not, as the schedule is not a grace period behind.
LEMMA OverdueIsWindow ==
  ASSUME TypeInv, CurrentInv, PromptInv, delays = {}, tick.overdue # NoWindow
  PROVE  /\ tick.read = NoSchedule /\ tick.overdue = window /\ window.state = "pending"
         /\ window.due + GRACE_PERIOD <= now
<1>1. tick # Idle
  BY IdleHolds
<1>2. /\ tick.overdue = Overdue(WindowInTick, tick.now) /\ tick.now = now
      /\ tick.read # NoSchedule => /\ tick.read = schedule /\ window.state # "pending" /\ ~plant.removed
  BY <1>1 DEF CurrentInv
<1>3. tick.overdue = WindowInTick /\ WindowInTick.state = "pending" /\ WindowInTick.due + GRACE_PERIOD <= now
  BY <1>2, InTick
<1>4. ASSUME tick.read # NoSchedule PROVE FALSE
  <2>1. WindowInTick.due = schedule.next
    BY <1>2, <1>4, InTick, Constants
  <2>2. schedule.next + GRACE_PERIOD > now
    BY <1>2, <1>4 DEF PromptInv
  <2> QED
    BY <1>3, <2>1, <2>2, Elements, ConstantsAssumption
<1> QED
  BY <1>3, <1>4, InTick

\* The clock does not leave a due moment behind by more than the grace period.
LEMMA PromptStep == TypeInv /\ CurrentInv /\ TopicInv /\ PromptInv /\ [Next]_vars => PromptInv'
<1> SUFFICES ASSUME TypeInv, CurrentInv, TopicInv, PromptInv, [Next]_vars PROVE PromptInv'
  OBVIOUS
<1>d. delays' = delays
  BY DEF Next, vars
<1> SUFFICES ASSUME delays = {} PROVE PromptInv'
  BY <1>d DEF PromptInv
<1> USE ConstantsAssumption
<1> DEFINE Watered == \E i \in DOMAIN topic : topic[i].type = "WateringCompleted"
<1>0. /\ \A i \in DOMAIN topic : topic[i].type = "WateringDue" => window = PendingFor(topic[i].at)
      /\ schedule # NoSchedule =>
           /\ ~plant.removed /\ (window.state # "pending" \/ Watered)
                => schedule.next + GRACE_PERIOD > now
           /\ window.state = "pending" => /\ schedule.next >= window.due /\ now >= window.due
                                          /\ window.due + GRACE_PERIOD >= now
           /\ schedule.next \in Nat
      /\ window.state = "pending" => window.due \in Nat
      /\ topic \in Seq(Events) /\ now \in Nat
  BY Elements DEF PromptInv, TypeInv
<1>m. MayOverlap => tick = Idle /\ seen = Nothing
  BY DEF MayOverlap
<1>1. ASSUME WaterPlant PROVE PromptInv'
  <2>1. /\ topic' = Append(topic, WateringCompleted(now)) /\ WateringCompleted(now) \in Events
        /\ WateringCompleted(now).type = "WateringCompleted" /\ now' = now
        /\ window' = window /\ schedule'.next = now + Interval /\ schedule # NoSchedule
    BY <1>1, WaterPlantIs
  <2>2. \A i \in DOMAIN topic' : topic'[i].type = "WateringDue" => i \in DOMAIN topic /\ topic'[i] = topic[i]
    BY <1>0, <2>1, AppendIs
  <2>3. schedule'.next + GRACE_PERIOD > now /\ schedule'.next >= now
    BY <1>0, <2>1
  <2>4. window.state = "pending" => schedule'.next >= window.due
    BY <1>0, <2>1
  <2> QED
    BY <1>0, <2>1, <2>2, <2>3, <2>4 DEF PromptInv
<1>2. ASSUME SkipWatering \/ DryReading PROVE PromptInv'
  <2>1. /\ schedule'.next = schedule.next + Interval \/ schedule'.next = now
        /\ topic' = topic /\ window' = window /\ plant' = plant /\ now' = now
        /\ schedule # NoSchedule
    BY <1>2, RescheduleIs
  <2>2. ~plant.removed /\ (window.state # "pending" \/ Watered) => schedule'.next + GRACE_PERIOD > now
    BY <1>0, <2>1
  <2>3. window.state = "pending" => schedule'.next >= window.due
    BY <1>0, <2>1
  <2> QED
    BY <1>0, <2>1, <2>2, <2>3 DEF PromptInv
<1>2d. ASSUME DeleteCareSchedule PROVE PromptInv'
  BY <1>0, <1>2d, DeleteIs DEF PromptInv
<1>3. ASSUME RemovePlant PROVE PromptInv'
  <2>1. /\ plant'.removed = TRUE /\ topic' = topic /\ window' = window
        /\ schedule' = schedule /\ now' = now
    BY <1>3 DEF RemovePlant, TypeInv, TypeOK
  <2> QED
    BY <1>0, <2>1 DEF PromptInv
<1>4. ASSUME UNCHANGED <<topic, window, plant, schedule, now>> PROVE PromptInv'
  BY <1>0, <1>4 DEF PromptInv
<1>5. ASSUME ConsumeWrite PROVE PromptInv'
  <2>1. /\ topic # <<>> /\ topic' = Tail(topic) /\ schedule' = schedule /\ plant' = plant /\ now' = now
        /\ topic[1].at \in Nat /\ 1 \in DOMAIN topic
        /\ topic[1].type \in {"WateringDue", "WateringCompleted"}
    BY <1>5, ConsumeWriteIs, Elements, TailIs DEF TypeInv
  <2>2. seen = window
    BY <1>5 DEF CurrentInv, ConsumeWrite
  <2>3. \A i \in DOMAIN topic' : i >= 1 /\ i + 1 \in DOMAIN topic /\ topic'[i] = topic[i + 1]
    BY <1>0, <2>1, TailIs
  <2>4. \A i \in DOMAIN topic' : topic'[i].type # "WateringDue"
    <3>1. \A i \in DOMAIN topic : topic[i].type = "WateringDue" => i = 1
      BY DEF TopicInv
    <3>2. \A i \in DOMAIN topic' : i + 1 # 1
      BY <1>0, <2>1, TailIs
    <3> QED
      BY <2>3, <3>1, <3>2
  <2>5. Watered' => Watered
    BY <2>3
  <2>6. CASE topic[1].type = "WateringDue"
    <3>1. window' = window
      BY <1>0, <1>5, <2>1, <2>2, <2>6, ConsumeWriteIs
    <3> QED
      BY <1>0, <2>1, <2>4, <2>5, <3>1 DEF PromptInv
  <2>7. CASE topic[1].type = "WateringCompleted"
    <3>1. window'.state = "satisfied" \/ window' = window
      BY <1>5, <2>7, ConsumeWriteIs
    <3>2. Watered
      BY <2>1, <2>7
    <3> QED
      BY <1>0, <2>1, <2>4, <3>1, <3>2 DEF PromptInv
  <2> QED
    BY <2>1, <2>6, <2>7
<1>6. ASSUME TickReadDue PROVE PromptInv'
  BY <1>4, <1>6, TickReadDueIs
<1>7. ASSUME TickOpenWindow PROVE PromptInv'
  BY <1>4, <1>7, TickOpenWindowIs
<1>8. ASSUME TickCommit PROVE PromptInv'
  <2>1. tick # Idle /\ now' = now /\ plant' = plant
    BY <1>8, TickCommitIs
  <2>2. topic = <<>> /\ DOMAIN topic = {} /\ ScheduleInTick = schedule
    BY <2>1 DEF TopicInv, CurrentInv, ScheduleInTick
  <2>0. CASE tick.overdue # NoWindow /\ ~Escalates
    <3>1. schedule' = schedule /\ window' = window /\ topic' = topic
      BY <1>8, <2>0, <2>2, TickCommitIs, OverdueIsWindow, InTick
    <3> QED
      BY <1>4, <2>1, <3>1
  <2>3. CASE Escalates
    <3>1. /\ tick.read = NoSchedule /\ tick.overdue = window /\ window.state = "pending"
          /\ window.due + GRACE_PERIOD <= now
      BY <2>3, OverdueIsWindow DEF Escalates
    <3>2. schedule'.next = schedule.next + Interval /\ window'.state = "missed" /\ topic' = topic
      BY <1>8, <2>2, <2>3, <3>1, TickCommitIs
    <3>3. schedule'.next + GRACE_PERIOD > now
      BY <1>0, <2>2, <2>3, <3>1, <3>2 DEF Escalates
    <3> QED
      BY <2>1, <2>2, <3>2, <3>3 DEF PromptInv
  <2>4. CASE tick.overdue = NoWindow /\ tick.read = NoSchedule
    <3>1. schedule' = schedule /\ window' = window /\ topic' = topic
      BY <1>8, <2>2, <2>4, TickCommitIs, InTick DEF Escalates
    <3> QED
      BY <1>4, <2>1, <3>1
  <2>5. CASE tick.overdue = NoWindow /\ tick.read # NoSchedule
    <3>1. /\ tick.read = schedule /\ schedule.next <= now /\ window.state # "pending" /\ ~plant.removed
      BY <2>5 DEF CurrentInv
    <3>2. /\ schedule' = schedule /\ window' = PendingFor(schedule.next)
          /\ topic' = Append(topic, WateringDue(schedule.next)) /\ WateringDue(schedule.next) \in Events
          /\ WateringDue(schedule.next).type = "WateringDue"
          /\ WateringDue(schedule.next).at = schedule.next
      BY <1>8, <2>2, <2>5, <3>1, TickCommitIs, InTick DEF WateringDue, Escalates
    <3>3. \A i \in DOMAIN topic' : topic'[i] = WateringDue(schedule.next)
      BY <1>0, <2>2, <3>2, AppendIs
    <3>4. window'.state = "pending" /\ window'.due = schedule.next
      BY <1>0, <2>5, <3>1, <3>2, Constants
    <3>5. schedule.next + GRACE_PERIOD > now
      BY <1>0, <2>5, <3>1
    <3> QED
      BY <1>0, <2>1, <2>5, <3>1, <3>2, <3>3, <3>4, <3>5 DEF PromptInv
  <2> QED
    BY <2>0, <2>3, <2>4, <2>5 DEF Escalates
<1>9. ASSUME Advance PROVE PromptInv'
  <2>1. /\ now' = now + 1 /\ topic = <<>> /\ ~TickHasWork
        /\ topic' = topic /\ window' = window /\ plant' = plant /\ schedule' = schedule
    BY <1>9 DEF Advance
  <2>2. DOMAIN topic = {}
    BY <2>1
  <2>0. CASE schedule = NoSchedule
    BY <1>0, <2>0, <2>1 DEF PromptInv
  <2>a. SUFFICES ASSUME schedule # NoSchedule PROVE PromptInv'
    BY <2>0
  <2>3. ~plant.removed /\ window.state # "pending" => schedule.next > now
    BY <1>0, <2>a, <2>1 DEF TickHasWork, DueWithoutPendingWindow
  <2>4. window.state = "pending" => window.due + GRACE_PERIOD > now
    <3>1. window.state = "pending" => window # NoWindow
      BY Constants
    <3> QED
      BY <1>0, <2>a, <2>1, <3>1 DEF TickHasWork, Overdue, GraceDeadline
  <2>5. ~plant.removed /\ window.state # "pending" => schedule.next + GRACE_PERIOD > now + 1
    BY <1>0, <2>a, <2>3
  <2>6. window.state = "pending" => now + 1 >= window.due /\ window.due + GRACE_PERIOD >= now + 1
    BY <1>0, <2>a, <2>4
  <2> QED
    BY <1>0, <2>1, <2>2, <2>5, <2>6 DEF PromptInv
<1>10. ASSUME UNCHANGED vars PROVE PromptInv'
  BY <1>4, <1>10 DEF vars
<1> QED
  BY <1>1, <1>2, <1>2d, <1>3, <1>4, <1>5, <1>6, <1>7, <1>8, <1>9, <1>10, Cases DEF ConsumeRead

\* A moment that was missed lies before everything the schedule still asks for.
LEMMA MissedStep ==
  TypeInv /\ EarnedInv /\ CurrentInv /\ TopicInv /\ PromptInv /\ MissedInv /\ [Next]_vars => MissedInv'
<1> SUFFICES ASSUME TypeInv, EarnedInv, CurrentInv, TopicInv, PromptInv, MissedInv, [Next]_vars
             PROVE  MissedInv'
  OBVIOUS
<1>d. delays' = delays
  BY DEF Next, vars
<1> SUFFICES ASSUME delays = {} PROVE MissedInv'
  BY <1>d DEF MissedInv
<1> USE ConstantsAssumption
<1>0. /\ schedule # NoSchedule => /\ \A i \in DOMAIN misses : misses[i].due < schedule.next
                                 /\ schedule.next \in Nat
      /\ window.state = "pending" => \A i \in DOMAIN misses : misses[i].due # window.due
      /\ window.state = "missed" => \E i \in DOMAIN misses : misses[i].due = window.due
      /\ \A i, j \in DOMAIN misses : i # j => misses[i].due # misses[j].due
      /\ \A i \in DOMAIN misses : misses[i].due \in Nat /\ misses[i].due < now
      /\ now \in Nat /\ misses \in Seq(Misses)
  <2>1. \A i \in DOMAIN misses : /\ misses[i].due \in Nat /\ misses[i].at \in Nat /\ misses[i].at <= now
                                /\ now \in Nat /\ misses[i].at >= misses[i].due + GRACE_PERIOD
    BY Elements DEF EarnedInv, MissesAreEarned
  <2>2. \A i \in DOMAIN misses : misses[i].due \in Nat /\ misses[i].due < now
    BY <2>1
  <2> QED
    BY <2>2, Elements DEF MissedInv, MissedOnce, MissedAtMostOnce, TypeInv
<1>1. ASSUME WaterPlant PROVE MissedInv'
  <2>1. window' = window /\ misses' = misses /\ schedule'.next = now + Interval
    BY <1>1, WaterPlantIs
  <2>2. \A i \in DOMAIN misses : misses[i].due < schedule'.next
    BY <1>0, <2>1
  <2> QED
    BY <1>0, <2>1, <2>2 DEF MissedInv, MissedOnce, MissedAtMostOnce
<1>2. ASSUME SkipWatering \/ DryReading PROVE MissedInv'
  <2>1. /\ schedule'.next = schedule.next + Interval \/ schedule'.next = now
        /\ window' = window /\ misses' = misses /\ schedule # NoSchedule
    BY <1>2, RescheduleIs
  <2>2. \A i \in DOMAIN misses : misses[i].due < schedule'.next
    BY <1>0, <2>1
  <2> QED
    BY <1>0, <2>1, <2>2 DEF MissedInv, MissedOnce, MissedAtMostOnce
<1>2d. ASSUME DeleteCareSchedule PROVE MissedInv'
  BY <1>0, <1>2d, DeleteIs DEF MissedInv, MissedOnce, MissedAtMostOnce
<1>3. ASSUME UNCHANGED <<window, misses, schedule>> PROVE MissedInv'
  BY <1>0, <1>3 DEF MissedInv, MissedOnce, MissedAtMostOnce
<1>4. ASSUME ConsumeWrite PROVE MissedInv'
  <2>1. /\ topic[1].type \in {"WateringDue", "WateringCompleted"} /\ 1 \in DOMAIN topic
        /\ misses' = misses /\ schedule' = schedule
    BY <1>4, ConsumeWriteIs, Elements, TailIs DEF TypeInv
  <2>2. window' = window \/ window'.state = "satisfied"
    <3>1. topic[1].type = "WateringDue" => window = PendingFor(topic[1].at)
      BY <2>1 DEF PromptInv
    <3> QED
      BY <1>4, <2>1, <3>1, ConsumeWriteIs
  <2> QED
    BY <1>0, <2>1, <2>2 DEF MissedInv, MissedOnce, MissedAtMostOnce
<1>5. ASSUME TickCommit PROVE MissedInv'
  <2>1. tick # Idle /\ ScheduleInTick = schedule
    BY <1>5, TickCommitIs DEF CurrentInv, ScheduleInTick
  <2>0. CASE tick.overdue # NoWindow /\ ~Escalates
    BY <1>3, <1>5, <2>0, <2>1, TickCommitIs, OverdueIsWindow, InTick
  <2>2. CASE Escalates
    <3>1. tick.overdue = window /\ window.state = "pending" /\ schedule # NoSchedule
      BY <2>1, <2>2, OverdueIsWindow DEF Escalates
    <3>2. window.due \in Nat /\ schedule.next >= window.due
      BY <3>1, Elements DEF PromptInv
    <3> DEFINE m == [due |-> window.due, at |-> tick.now]
    <3>3. /\ schedule'.next = schedule.next + Interval /\ window'.state = "missed" /\ window'.due = window.due
          /\ misses' = Append(misses, m) /\ m \in Misses /\ m.due = window.due
      BY <1>5, <2>1, <2>2, <3>1, TickCommitIs
    <3> HIDE DEF m
    <3>4. /\ DOMAIN misses' = DOMAIN misses \cup {Len(misses) + 1} /\ misses'[Len(misses) + 1] = m
          /\ \A i \in DOMAIN misses : misses'[i] = misses[i]
      BY <1>0, <3>3, AppendIs
    <3>5. \A i \in DOMAIN misses' : misses'[i].due < schedule'.next
      BY <1>0, <3>1, <3>2, <3>3, <3>4
    <3>6. \A i, j \in DOMAIN misses' : i # j => misses'[i].due # misses'[j].due
      BY <1>0, <3>1, <3>3, <3>4
    <3>7. \E i \in DOMAIN misses' : misses'[i].due = window'.due
      BY <3>3, <3>4
    <3> QED
      BY <3>3, <3>5, <3>6, <3>7 DEF MissedInv, MissedOnce, MissedAtMostOnce
  <2>3. CASE tick.overdue = NoWindow /\ tick.read = NoSchedule
    BY <1>3, <1>5, <2>1, <2>3, TickCommitIs, InTick DEF Escalates
  <2>4. CASE tick.overdue = NoWindow /\ tick.read # NoSchedule
    <3>1. /\ schedule' = schedule /\ misses' = misses /\ window' = PendingFor(schedule.next)
          /\ schedule # NoSchedule
      BY <1>5, <2>1, <2>4, TickCommitIs, InTick DEF CurrentInv, Escalates
    <3>2. window'.state = "pending" /\ window'.due = schedule.next
      BY <1>0, <3>1, Constants
    <3> QED
      BY <1>0, <3>1, <3>2 DEF MissedInv, MissedOnce, MissedAtMostOnce
  <2> QED
    BY <2>0, <2>2, <2>3, <2>4 DEF Escalates
<1>6. ASSUME Advance PROVE MissedInv'
  BY <1>3, <1>6 DEF Advance, history
<1> QED
  BY <1>1, <1>2, <1>2d, <1>3, <1>4, <1>5, <1>6, Cases, TickReadDueIs, TickOpenWindowIs
     DEF RemovePlant, ConsumeRead, history, vars

-----------------------------------------------------------------------------
(* Deployments whose consumer keeps up *)

\* A reported version of the schedule is not read as due again.
LEMMA ReportedStep == TypeInv /\ ReportedInv /\ [Next]_vars => ReportedInv'
<1> SUFFICES ASSUME TypeInv, ReportedInv, [Next]_vars PROVE ReportedInv'
  OBVIOUS
<1>d. delays' = delays
  BY DEF Next, vars
<1> SUFFICES ASSUME "consumer" \notin delays PROVE ReportedInv'
  BY <1>d DEF ReportedInv
<1>0. /\ schedule # NoSchedule => \A j \in DOMAIN dues : dues[j].version <= schedule.version
      /\ (\E j \in DOMAIN dues : dues[j].version = schedule.version)
           => IF topic = <<>> THEN window.state = "pending" ELSE topic[Len(topic)].type = "WateringDue"
      /\ \A i \in DOMAIN topic : topic[i].type = "WateringDue" => tick = Idle
      /\ tick.read # NoSchedule
           => /\ schedule # NoSchedule => schedule.version >= tick.read.version
              /\ \A j \in DOMAIN dues : dues[j].version < tick.read.version
      /\ seen # Nothing /\ topic[1].type = "WateringDue" => seen = window
      /\ \A i, j \in DOMAIN dues : i # j => dues[i].version # dues[j].version
  BY DEF ReportedInv, DueOnce
<1>t. /\ topic \in Seq(Events) /\ dues \in Seq(Schedules) /\ schedule.version \in Nat
      /\ \A j \in DOMAIN dues : dues[j].version \in Nat /\ dues[j].version # 0
      /\ NoSchedule.version = 0
      /\ tick.read # NoSchedule => tick.read \in Schedules /\ tick.read.version \in Nat
      /\ seen # Nothing => topic # <<>>
  BY Elements, InTick, Constants DEF TypeInv, TypeOK, Schedules
<1>1. ASSUME schedule # NoSchedule, schedule'.version = schedule.version + 1, tick' = tick, dues' = dues, window' = window,
             seen' = seen, topic' = topic
      PROVE  ReportedInv'
  <2>1. \A j \in DOMAIN dues : dues[j].version < schedule'.version
    BY <1>0, <1>1, <1>t
  <2>2. tick.read # NoSchedule => schedule'.version >= tick.read.version
    BY <1>0, <1>1, <1>t
  <2>3. \A j \in DOMAIN dues : dues[j].version <= schedule'.version /\ dues[j].version # schedule'.version
    BY <1>1, <1>t, <2>1
  <2> QED
    BY <1>0, <1>1, <2>2, <2>3 DEF ReportedInv, DueOnce
<1>2. ASSUME WaterPlant PROVE ReportedInv'
  <2>1. /\ topic' = Append(topic, WateringCompleted(now)) /\ WateringCompleted(now) \in Events
        /\ WateringCompleted(now).type = "WateringCompleted" /\ tick' = tick /\ dues' = dues
        /\ window' = window /\ seen' = seen /\ schedule'.version = schedule.version + 1
        /\ schedule # NoSchedule
    BY <1>2, WaterPlantIs
  <2>2. \A i \in DOMAIN topic' : topic'[i].type = "WateringDue" => i \in DOMAIN topic /\ topic'[i] = topic[i]
    BY <1>t, <2>1, AppendIs
  <2>3. seen # Nothing => topic'[1] = topic[1]
    BY <1>t, <2>1, AppendIs
  <2>4. \A j \in DOMAIN dues : dues[j].version <= schedule'.version /\ dues[j].version # schedule'.version
    BY <1>0, <1>t, <2>1
  <2>5. tick.read # NoSchedule => schedule'.version >= tick.read.version
    BY <1>0, <1>t, <2>1
  <2> QED
    BY <1>0, <2>1, <2>2, <2>3, <2>4, <2>5 DEF ReportedInv, DueOnce
<1>2d. ASSUME DeleteCareSchedule PROVE ReportedInv'
  BY <1>0, <1>t, <1>2d, DeleteIs DEF ReportedInv, DueOnce
<1>3. ASSUME UNCHANGED <<schedule, tick, dues, window, seen, topic>> PROVE ReportedInv'
  BY <1>0, <1>3 DEF ReportedInv, DueOnce
<1>4. ASSUME ConsumeRead PROVE ReportedInv'
  <2>1. /\ seen' = window /\ window' = window
        /\ schedule' = schedule /\ tick' = tick /\ dues' = dues /\ topic' = topic
    BY <1>4 DEF ConsumeRead, history
  <2> QED
    BY <1>0, <2>1 DEF ReportedInv, DueOnce
<1>5. ASSUME ConsumeWrite PROVE ReportedInv'
  <2>1. /\ topic # <<>> /\ topic' = Tail(topic) /\ schedule' = schedule /\ tick' = tick
        /\ dues' = dues /\ seen' = Nothing /\ topic[1].at \in Nat
    BY <1>5, ConsumeWriteIs
  <2>2. \A i \in DOMAIN topic' : i + 1 \in DOMAIN topic /\ topic'[i] = topic[i + 1]
    BY <1>t, <2>1, TailIs
  <2>3. topic[1].type = "WateringDue" => window'.state = "pending"
    <3>1. seen # Nothing
      BY <1>5 DEF ConsumeWrite
    <3> QED
      BY <1>0, <1>5, <2>1, <3>1, ConsumeWriteIs, Constants
  <2>4. topic' = <<>> => Len(topic) = 1
    <3>1. Len(topic') = Len(topic) - 1 /\ Len(topic) \in Nat
      BY <1>t, <2>1, TailIs
    <3>2. topic' = <<>> => Len(topic') = 0
      OBVIOUS
    <3> QED
      BY <3>1, <3>2
  <2>5. topic' # <<>> => topic'[Len(topic')] = topic[Len(topic)]
    BY <1>t, <2>1
  <2>6. (\E j \in DOMAIN dues : dues[j].version = schedule.version)
           => IF topic' = <<>> THEN window'.state = "pending" ELSE topic'[Len(topic')].type = "WateringDue"
    BY <1>0, <2>1, <2>3, <2>4, <2>5
  <2> QED
    BY <1>0, <2>1, <2>2, <2>6 DEF ReportedInv, DueOnce
<1>6. ASSUME TickReadDue PROVE ReportedInv'
  <2>1. /\ topic = <<>> /\ DOMAIN topic = {}
        /\ schedule' = schedule /\ dues' = dues /\ topic' = topic /\ window' = window /\ seen' = seen
        /\ tick'.read = NoSchedule \/ (tick'.read = schedule /\ schedule # NoSchedule /\ window.state # "pending")
    BY <1>6, TickReadDueIs
  <2>2. tick'.read # NoSchedule
          => /\ schedule.version >= tick'.read.version
             /\ \A j \in DOMAIN dues : dues[j].version < tick'.read.version
    BY <1>0, <1>t, <2>1
  <2> QED
    BY <1>0, <2>1, <2>2 DEF ReportedInv, DueOnce
<1>7. ASSUME TickOpenWindow PROVE ReportedInv'
  <2>1. /\ tick # Idle /\ tick'.read = tick.read
        /\ schedule' = schedule /\ dues' = dues /\ topic' = topic /\ window' = window /\ seen' = seen
    BY <1>7, TickOpenWindowIs
  <2> QED
    BY <1>0, <2>1 DEF ReportedInv, DueOnce
<1>8. ASSUME TickCommit PROVE ReportedInv'
  <2>1. tick # Idle /\ tick' = Idle /\ tick'.read = NoSchedule /\ seen' = seen
    BY <1>8, TickCommitIs, Constants
  <2>2. \A i \in DOMAIN topic : topic[i].type # "WateringDue"
    BY <1>0, <2>1
  <2>3. CASE tick.read = NoSchedule
    <3>1. /\ topic' = topic /\ dues' = dues /\ ScheduleInTick = schedule
      BY <1>8, <2>3, TickCommitIs DEF TypeInv, ScheduleInTick
    <3>2. seen # Nothing => topic[1].type # "WateringDue"
      <4>1. seen # Nothing => 1 \in DOMAIN topic
        BY <1>t, TailIs
      <4> QED
        BY <2>2, <4>1
    <3>3. CASE ~Escalates
      <4>1. schedule' = schedule /\ window' = window
        BY <1>8, <2>3, <3>1, <3>3, TickCommitIs, InTick
      <4> QED
        BY <1>0, <2>1, <2>2, <3>1, <3>2, <4>1 DEF ReportedInv, DueOnce
    <3>4. CASE Escalates
      <4>1. schedule'.version = schedule.version + 1 /\ schedule # NoSchedule
        BY <1>8, <3>1, <3>4, TickCommitIs DEF Escalates
      <4>2. \A j \in DOMAIN dues : dues[j].version <= schedule'.version /\ dues[j].version # schedule'.version
        BY <1>0, <1>t, <4>1
      <4> QED
        BY <1>0, <2>1, <2>2, <3>1, <3>2, <4>2 DEF ReportedInv, DueOnce
    <3> QED
      BY <3>3, <3>4
  <2>4. CASE tick.read # NoSchedule
    <3>1. /\ tick.read \in Schedules /\ WateringDue(tick.read.next) \in Events
          /\ WateringDue(tick.read.next).type = "WateringDue"
          /\ topic' = Append(topic, WateringDue(tick.read.next)) /\ dues' = Append(dues, tick.read)
      BY <1>8, <2>4, TickCommitIs DEF WateringDue
    <3>2. /\ topic' # <<>> /\ topic'[Len(topic')] = WateringDue(tick.read.next)
          /\ seen # Nothing => topic'[1] = topic[1] /\ 1 \in DOMAIN topic
      BY <1>t, <3>1, AppendIs, TailIs
    <3>3. /\ DOMAIN dues' = DOMAIN dues \cup {Len(dues) + 1} /\ dues'[Len(dues) + 1] = tick.read
          /\ \A j \in DOMAIN dues : dues'[j] = dues[j]
      BY <1>t, <3>1, AppendIs
    <3>4. schedule' # NoSchedule => schedule'.version >= tick.read.version /\ schedule'.version \in Nat
      <4>1. ScheduleInTick # NoSchedule
              => ScheduleInTick.version >= tick.read.version /\ ScheduleInTick.version \in Nat
        BY <1>0, <1>t, <2>4 DEF ScheduleInTick
      <4>2. \/ schedule' = ScheduleInTick
            \/ ScheduleInTick # NoSchedule /\ schedule'.version = ScheduleInTick.version + 1
        BY <1>8, TickCommitIs DEF Escalates
      <4> QED
        BY <1>t, <2>4, <4>1, <4>2
    <3>5. schedule' # NoSchedule => \A j \in DOMAIN dues' : dues'[j].version <= schedule'.version
      BY <1>0, <1>t, <2>4, <3>3, <3>4
    <3>6. \A i, j \in DOMAIN dues' : i # j => dues'[i].version # dues'[j].version
      <4>1. \A j \in DOMAIN dues : dues[j].version # tick.read.version
        BY <1>0, <1>t, <2>4
      <4> QED
        BY <1>0, <3>3, <4>1
    <3> QED
      BY <2>1, <2>2, <3>1, <3>2, <3>5, <3>6 DEF ReportedInv, DueOnce
  <2> QED
    BY <2>3, <2>4
<1>9. ASSUME Advance PROVE ReportedInv'
  BY <1>3, <1>9 DEF Advance, history
<1> QED
  BY <1>1, <1>2, <1>2d, <1>3, <1>4, <1>5, <1>6, <1>7, <1>8, <1>9, Cases, RescheduleIs
     DEF RemovePlant, history, vars

-----------------------------------------------------------------------------

\* The invariants of the deployments hold of every behaviour.
LEMMA Always ==
  Spec => [](TypeInv /\ EarnedInv /\ CurrentInv /\ TopicInv /\ PromptInv /\ MissedInv /\ ReportedInv)
<1>1. Init => EarnedInv /\ TopicInv /\ PromptInv /\ MissedInv /\ ReportedInv
  <2> SUFFICES ASSUME Init PROVE EarnedInv /\ TopicInv /\ PromptInv /\ MissedInv /\ ReportedInv
    OBVIOUS
  <2>1. /\ topic = <<>> /\ DOMAIN topic = {} /\ DOMAIN misses = {} /\ DOMAIN dues = {}
        /\ window.state = "none" /\ tick = Idle /\ seen = Nothing
    BY Constants DEF Init
  <2>2. tick.read = NoSchedule /\ tick.overdue = NoWindow
    BY <2>1, Constants
  <2>3. schedule.next + GRACE_PERIOD > now
    BY ConstantsAssumption DEF Init
  <2>4. EarnedInv /\ TopicInv
    BY <2>1, <2>2 DEF EarnedInv, MissesAreEarned, TopicInv
  <2>5. PromptInv /\ MissedInv
    BY <2>1, <2>3 DEF PromptInv, MissedInv, MissedOnce, MissedAtMostOnce
  <2>6. ReportedInv
    BY <2>1, <2>2 DEF ReportedInv, DueOnce
  <2> QED
    BY <2>4, <2>5, <2>6
<1> QED
  BY <1>1, EarnedStep, TopicStep, PromptStep, MissedStep, ReportedStep, CurrentAlways,
     PTL DEF Spec

\* One arrival of a due moment is announced once and missed once: no two WateringDue
\* for a version of the schedule where the consumer keeps up, however late and
\* overlapping the ticks, and no two CareMissed for a moment where nothing is late.
THEOREM OnceForEachDueMoment == Spec => []OncePerDueMoment
<1>1. TypeInv /\ MissedInv /\ ReportedInv => OncePerDueMoment
  BY DEF TypeInv, MissedInv, ReportedInv, OncePerDueMoment, MissedOnce, DueOnce
<1> QED
  BY <1>1, Always, PTL

\* A late arrival does not erase a miss: where nothing is late, a missed window is only
\* ever replaced by the window of another due moment, and never becomes satisfied.
THEOREM MissIsForGood == Spec => MissStands
<1> DEFINE Stands == window.state = "missed" /\ window' # window /\ delays = {}
                       => window'.state # "satisfied" /\ window'.due # window.due
<1>1. ASSUME TypeInv, CurrentInv, TopicInv, PromptInv, MissedInv, [Next]_vars PROVE [Stands]_vars
  <2> SUFFICES ASSUME window.state = "missed", window' # window, delays = {}
               PROVE  window'.state # "satisfied" /\ window'.due # window.due
    OBVIOUS
  <2>0. /\ \A i \in DOMAIN misses : misses[i].due \in Nat
        /\ schedule # NoSchedule
             => schedule.next \in Nat /\ \A i \in DOMAIN misses : misses[i].due < schedule.next
        /\ \E i \in DOMAIN misses : misses[i].due = window.due
    BY <1>1, Elements DEF MissedInv
  <2>1. ASSUME ConsumeWrite PROVE FALSE
    <3>1. seen = window /\ 1 \in DOMAIN topic /\ topic[1].type \in {"WateringDue", "WateringCompleted"}
          /\ topic[1].at \in Nat
      BY <1>1, <2>1, ConsumeWriteIs, TailIs, Elements DEF CurrentInv, ConsumeWrite, TypeInv
    <3>2. topic[1].type # "WateringDue"
      BY <1>1, <3>1, Constants DEF PromptInv
    <3> QED
      BY <1>1, <2>1, <3>1, <3>2, ConsumeWriteIs
  <2>2. ASSUME TickCommit PROVE window'.state # "satisfied" /\ window'.due # window.due
    <3>1. tick.overdue = NoWindow
      BY <1>1, OverdueIsWindow
    <3>2. window' = WindowInTick
      BY <1>1, <2>2, <3>1, TickCommitIs DEF Escalates
    <3>3. tick.read # NoSchedule
      BY <1>1, <3>2, InTick
    <3>4. window' = PendingFor(schedule.next) /\ schedule # NoSchedule
      BY <1>1, <3>2, <3>3, InTick DEF CurrentInv
    <3>5. window'.state = "pending" /\ window'.due = schedule.next
      BY <2>0, <3>4, Constants
    <3> QED
      BY <2>0, <3>4, <3>5
  <2>3. ConsumeWrite \/ TickCommit
    BY <1>1, Cases
       DEF WaterPlant, SkipWatering, DryReading, DeleteCareSchedule, RemovePlant, ConsumeRead, TickReadDue, TickOpenWindow,
           Advance, vars
  <2> QED
    BY <2>1, <2>2, <2>3
<1> QED
  BY <1>1, Always, PTL DEF Spec, MissStands
=============================================================================
