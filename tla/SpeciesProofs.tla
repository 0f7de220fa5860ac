---------------------------- MODULE SpeciesProofs ----------------------------
(***************************************************************************)
(* Proofs about Species for every listing, every number of concurrent      *)
(* runs, every threshold and bound: the circuit breaker under concurrent   *)
(* calls, the ways a cache entry can be stale, and what a failed run       *)
(* leaves of the catalogue.                                                *)
(***************************************************************************)
EXTENDS Species, FiniteSetTheorems, TLAPS

\* The types, with the history the breaker's contract is stated on.
TypeInv ==
    /\ TypeOK
    /\ upstream \in 1 .. MaxEdition
    /\ streak \in 0 .. failure_threshold
    /\ straggled \in BOOLEAN

\* The breaker's counter is the streak while it is closed, and full otherwise.
CounterOK ==
    /\ breaker.state = "closed" => breaker.failures = streak /\ streak < failure_threshold
    /\ breaker.state # "closed" =>
         breaker.failures = failure_threshold /\ streak = failure_threshold

\* While no call outlived the state that admitted it, the calls admitted as
\* trials are one, and the breaker is half open and knows of it.
TrialOK ==
    ~straggled =>
        /\ \A s, t \in TrialsOf(sync) : s = t
        /\ TrialsOf(sync) # {} => breaker.state = "half_open" /\ breaker.trial

\* A view that is not the row's was read before a commit, and an entry in the
\* cache that is not the row's waits for its event, unless it is excused.
CacheOK ==
    \A x \in SpeciesIds :
        /\ reader[x].view \notin {0, rows[x]} => reader[x].excused
        /\ cache[x].view \notin {0, rows[x]} /\ queue[x] = 0 => cache[x].excused

\* Where the catalogue may hold what the run wrote.
Undoable == {"applied", "invalidate", "compensate"}

Clean(c) == c.base = "alone" /\ ~c.torn

\* What the run remembers is what it found, and where the catalogue r differs
\* from that, the run remembers it.
Remembers(c, r) ==
    \A x \in SpeciesIds :
        /\ x \in c.created => c.before[x] = 0
        /\ c.updated[x] # 0 => c.updated[x] = c.before[x]
        /\ \/ r[x] = c.before[x]
           \/ c.pc \in Undoable /\ (x \in c.created \/ (c.updated[x] # 0 /\ r[x] # 0))

\* A run with the catalogue r.
RunOK(c, r) ==
    /\ c.pc # "applied" => c.created = c.stored.created /\ c.updated = c.stored.updated
    /\ c.pc = "invalidate" => c.from = "invalidate"
    /\ c.base = "none" => c.pc # "applied" /\ c.created = {} /\ c.updated = NoRecords
    /\ Clean(c) => Remembers(c, r)

\* What a run would restore is what it found, as long as nobody else writes and
\* it was not torn from its checkpoint.
UndoOK == \A s \in Syncs : RunOK(sync[s], rows)

IInv == TypeInv /\ CounterOK /\ TrialOK /\ CacheOK /\ UndoOK
-----------------------------------------------------------------------------
(* Values and frames *)

\* The values the steps start from have their types.
LEMMA Values ==
  /\ NoRecords \in SpeciesModel
  /\ NewSync \in SpeciesSyncContext /\ NewSync.pc = "idle"
  /\ \A r : RunOK(NewSync, r)
  /\ ClosedBreaker \in AsyncCircuitBreaker /\ opened \in AsyncCircuitBreaker
  /\ NoEntry \in CacheEntry
  /\ Len(Listing) \in Nat
  /\ \A k \in 1 .. Len(Listing) : Listing[k] \in SpeciesIds
<1> USE ConstantsAssumption
<1>1. 0 \in Editions
  BY DEF Editions
<1>2. NoRecords \in SpeciesModel
  BY <1>1 DEF NoRecords, SpeciesModel
<1>3. Len(Listing) \in Nat
  OBVIOUS
<1>4. \A k \in 1 .. Len(Listing) : Listing[k] \in SpeciesIds
  BY DEF SpeciesIds
<1>5. NewSync \in SpeciesSyncContext /\ NewSync.pc = "idle"
  BY <1>2, <1>3 DEF NewSync, SpeciesSyncContext, SpeciesModel, SpeciesRecord, SpeciesSnapshot, Pc,
     Changes, NoChanges
<1>8. \A r : RunOK(NewSync, r)
  BY DEF NewSync, RunOK, NoChanges, Clean
<1>6. ClosedBreaker \in AsyncCircuitBreaker /\ opened \in AsyncCircuitBreaker
  BY DEF ClosedBreaker, opened, AsyncCircuitBreaker, CircuitState
<1>7. NoEntry \in CacheEntry
  BY <1>1 DEF NoEntry, CacheEntry
<1> QED
  BY <1>2, <1>3, <1>4, <1>5, <1>6, <1>7, <1>8

\* The streak is counted up to the threshold.
LEMMA MinIs ==
  ASSUME NEW k \in 0 .. failure_threshold
  PROVE  Min({k + 1, failure_threshold}) = IF k < failure_threshold THEN k + 1 ELSE failure_threshold
<1> USE ConstantsAssumption
<1> DEFINE m == IF k < failure_threshold THEN k + 1 ELSE failure_threshold
           S == {k + 1, failure_threshold}
<1>1. m \in S /\ \A j \in S : m <= j
  OBVIOUS
<1>2. \A n \in S : (\A j \in S : n <= j) => n = m
  OBVIOUS
<1> QED
  BY <1>1, <1>2 DEF Min

\* A call that succeeded closes the breaker and ends the streak.
LEMMA SuccessCounts ==
  ASSUME TypeInv, breaker' = record_success, streak' = 0
  PROVE  /\ breaker' \in AsyncCircuitBreaker /\ streak' \in 0 .. failure_threshold
         /\ CounterOK'
<1>1. breaker' = ClosedBreaker
  BY DEF record_success
<1>2. ClosedBreaker.state = "closed" /\ ClosedBreaker.failures = 0
  BY DEF ClosedBreaker
<1> QED
  BY <1>1, <1>2, Values, ConstantsAssumption DEF CounterOK

\* One that failed opens it when the streak is long enough, or when it was not
\* closed: a late failure finds the counter full and opens it again.
LEMMA FailureCounts ==
  ASSUME TypeInv, CounterOK, breaker' = record_failure,
         streak' = Min({streak + 1, failure_threshold})
  PROVE  /\ breaker' \in AsyncCircuitBreaker /\ streak' \in 0 .. failure_threshold
         /\ CounterOK'
<1> USE ConstantsAssumption
<1>1. /\ breaker \in AsyncCircuitBreaker /\ streak \in 0 .. failure_threshold
      /\ breaker.state \in CircuitState /\ breaker.failures \in 0 .. failure_threshold
      /\ breaker.cooled \in BOOLEAN
  BY DEF TypeInv, TypeOK, AsyncCircuitBreaker
<1>2. streak' = IF streak < failure_threshold THEN streak + 1 ELSE failure_threshold
  BY <1>1, MinIs
<1>3. opened.state = "open" /\ opened.failures = failure_threshold /\ opened.trial = FALSE
  BY DEF opened
<1>4. CASE breaker.state = "half_open" \/ breaker.failures + 1 >= failure_threshold
  <2>1. breaker' = opened
    BY <1>4 DEF record_failure
  <2>2. streak' = failure_threshold
    BY <1>1, <1>2, <1>4 DEF CounterOK
  <2> QED
    BY <1>3, <2>1, <2>2, Values DEF CounterOK
<1>5. CASE ~(breaker.state = "half_open" \/ breaker.failures + 1 >= failure_threshold)
  <2>1. breaker' = [breaker EXCEPT !.trial = FALSE, !.failures = breaker.failures + 1]
    BY <1>5 DEF record_failure
  <2>2. breaker.state = "closed" /\ breaker.failures = streak /\ streak < failure_threshold
    BY <1>1, <1>5 DEF CounterOK
  <2>3. breaker'.state = "closed" /\ breaker'.failures = streak + 1 /\ streak' = streak + 1
    BY <1>1, <1>2, <2>1, <2>2 DEF AsyncCircuitBreaker
  <2>4. streak + 1 \in 0 .. failure_threshold /\ streak + 1 < failure_threshold
    BY <1>1, <1>5, <2>2
  <2>5. breaker' \in AsyncCircuitBreaker
    BY <1>1, <2>1, <2>2, <2>4 DEF AsyncCircuitBreaker
  <2> QED
    BY <2>3, <2>4, <2>5 DEF CounterOK
<1> QED
  BY <1>4, <1>5

\* One saga moves on.
LEMMA SyncMoves ==
  ASSUME TypeInv, NEW s \in Syncs, NEW c \in SpeciesSyncContext,
         sync' = [sync EXCEPT ![s] = c]
  PROVE  /\ sync' \in [Syncs -> SpeciesSyncContext]
         /\ sync'[s] = c
         /\ \A t \in Syncs \ {s} : sync'[t] = sync[t]
  BY DEF TypeInv, TypeOK

\* The fields of a saga's context.
LEMMA ContextFields ==
  ASSUME TypeInv, NEW s \in Syncs
  PROVE  /\ sync[s] \in SpeciesSyncContext
         /\ sync[s].pc \in Pc /\ sync[s].at \in 0 .. Len(Listing) /\ sync[s].trial \in BOOLEAN
         /\ sync[s].fetched \in SpeciesRecord /\ sync[s].created \in SUBSET SpeciesIds
         /\ sync[s].updated \in SpeciesSnapshot /\ sync[s].before \in SpeciesModel
         /\ sync[s].stored \in Changes
         /\ sync[s].stored.created \in SUBSET SpeciesIds /\ sync[s].stored.updated \in SpeciesSnapshot
         /\ sync[s].from \in {"get", "apply", "invalidate"}
  BY DEF TypeInv, TypeOK, SpeciesSyncContext, Changes

\* The trials in flight, when no call begins or ends.
LEMMA TrialsSame ==
  ASSUME TrialOK, UNCHANGED straggled,
         \A t \in Syncs : (sync'[t].pc = "calling" /\ sync'[t].trial)
                            <=> (sync[t].pc = "calling" /\ sync[t].trial),
         breaker.state = "half_open" /\ breaker.trial
            => breaker'.state = "half_open" /\ breaker'.trial
  PROVE  TrialOK'
<1>1. TrialsOf(sync') = TrialsOf(sync)
  BY DEF TrialsOf
<1>2. TrialsOf(sync)' = TrialsOf(sync')
  BY DEF TrialsOf
<1> QED
  BY <1>1, <1>2 DEF TrialOK

\* ... and when one ends: a trial that is left was admitted by the same state.
LEMMA CallEnds ==
  ASSUME TypeInv, TrialOK, NEW s \in Syncs, sync[s].pc = "calling",
         sync'[s].pc # "calling", \A t \in Syncs \ {s} : sync'[t] = sync[t], Straggles(s)
  PROVE  TrialOK' /\ straggled' \in BOOLEAN
<1>1. TrialsOf(sync') = TrialsOf(sync) \ {s}
  BY DEF TrialsOf
<1>2. TrialsOf(sync)' = TrialsOf(sync')
  BY DEF TrialsOf
<1>3. straggled' \in BOOLEAN
  BY DEF Straggles
<1>4. ASSUME ~straggled', NEW t \in TrialsOf(sync') PROVE FALSE
  <2>1. ~straggled /\ (sync[s].trial = (breaker.state = "half_open"))
    BY <1>4 DEF Straggles
  <2>2. t \in TrialsOf(sync) /\ t # s
    BY <1>1, <1>4
  <2>3. breaker.state = "half_open"
    BY <2>1, <2>2 DEF TrialOK
  <2>4. sync[s].trial
    BY <2>1, <2>3
  <2>5. s \in TrialsOf(sync)
    BY <2>4 DEF TrialsOf
  <2> QED
    BY <2>1, <2>2, <2>5 DEF TrialOK
<1>5. TrialOK'
  BY <1>2, <1>4 DEF TrialOK
<1> QED
  BY <1>3, <1>5

\* A run that goes on with the changes it had: what it would restore is the same.
LEMMA SameChanges ==
  ASSUME NEW b, NEW c, NEW r, RunOK(b, r), b.pc # "applied", c.pc # "applied",
         c.created = b.created, c.updated = b.updated, c.stored = b.stored,
         c.before = b.before, c.base = b.base, c.torn = b.torn,
         c.pc = "invalidate" => c.from = "invalidate",
         b.pc \in Undoable => c.pc \in Undoable
  PROVE  RunOK(c, r)
<1>1. Clean(c) => Clean(b)
  BY DEF Clean
<1>2. Clean(c) => Remembers(c, r)
  BY <1>1 DEF RunOK, Remembers
<1> QED
  BY <1>2 DEF RunOK

\* What the run remembers is enough to undo it.
LEMMA RestoredIs ==
  ASSUME TypeInv, NEW s \in Syncs, Remembers(sync[s], rows)
  PROVE  Restored(s) = sync[s].before
<1>1. sync[s].before \in [SpeciesIds -> Editions]
  BY ContextFields DEF SpeciesModel
<1>2. ASSUME NEW x \in SpeciesIds
      PROVE  (IF x \in sync[s].created THEN 0
              ELSE IF x \in UpdatedBy(s) /\ rows[x] # 0 THEN sync[s].updated[x]
              ELSE rows[x]) = sync[s].before[x]
  BY <1>2 DEF Remembers, UpdatedBy
<1> QED
  BY <1>1, <1>2 DEF Restored

\* The views, when neither they nor the rows change and no event is consumed.
LEMMA CacheSame ==
  ASSUME CacheOK, UNCHANGED <<rows, cache, reader>>,
         \A x \in SpeciesIds : queue'[x] = 0 => queue[x] = 0
  PROVE  CacheOK'
  BY DEF CacheOK

-----------------------------------------------------------------------------
(* One saga takes a step *)

\* A step outside a call that leaves the catalogue and the cache alone.
LEMMA SagaStep ==
  ASSUME IInv, NEW s \in Syncs, NEW c \in SpeciesSyncContext,
         sync' = [sync EXCEPT ![s] = c],
         sync[s].pc # "calling", c.pc # "calling",
         RunOK(c, rows),
         UNCHANGED <<upstream, rows, cache, reader, streak, straggled>>,
         breaker' \in AsyncCircuitBreaker, CounterOK',
         breaker.state = "half_open" /\ breaker.trial
            => breaker'.state = "half_open" /\ breaker'.trial,
         snapshot' \in SpeciesRecord, queue' \in [SpeciesIds -> Nat],
         \A x \in SpeciesIds : queue'[x] = 0 => queue[x] = 0
  PROVE  IInv'
<1>1. /\ sync' \in [Syncs -> SpeciesSyncContext] /\ sync'[s] = c
      /\ \A t \in Syncs \ {s} : sync'[t] = sync[t]
  BY SyncMoves DEF IInv
<1>2. TypeInv'
  BY <1>1 DEF IInv, TypeInv, TypeOK
<1>3. TrialOK'
  BY <1>1, TrialsSame DEF IInv
<1>4. UndoOK'
  BY <1>1 DEF IInv, UndoOK
<1>5. CacheOK'
  BY CacheSame DEF IInv
<1> QED
  BY <1>2, <1>3, <1>4, <1>5 DEF IInv

\* A call ends.
LEMMA CallStep ==
  ASSUME IInv, NEW s \in Syncs, NEW c \in SpeciesSyncContext, sync[s].pc = "calling",
         sync' = [sync EXCEPT ![s] = c], c.pc # "calling", RunOK(c, rows),
         Succeeds(s) \/ Fails(s),
         UNCHANGED <<upstream, snapshot, rows, queue, cache, reader>>
  PROVE  IInv'
<1>1. /\ sync' \in [Syncs -> SpeciesSyncContext] /\ sync'[s] = c
      /\ \A t \in Syncs \ {s} : sync'[t] = sync[t]
  BY SyncMoves DEF IInv
<1>2. /\ breaker' \in AsyncCircuitBreaker /\ streak' \in 0 .. failure_threshold /\ CounterOK'
  BY SuccessCounts, FailureCounts DEF Succeeds, Fails, IInv
<1>3. TrialOK' /\ straggled' \in BOOLEAN
  BY <1>1, CallEnds DEF IInv, Succeeds, Fails
<1>4. TypeInv'
  BY <1>1, <1>2, <1>3 DEF IInv, TypeInv, TypeOK
<1>5. UndoOK'
  BY <1>1 DEF IInv, UndoOK
<1>6. CacheOK'
  BY CacheSame DEF IInv
<1> QED
  BY <1>2, <1>3, <1>4, <1>5, <1>6 DEF IInv

-----------------------------------------------------------------------------
(* The saga's actions *)

\* Where Goto leaves the saga.
LEMMA GotoIs ==
  ASSUME IInv, NEW s \in Syncs, NEW l \in Pc \ {"applied", "invalidate"}, Goto(s, l),
         sync[s].pc # "applied", sync[s].pc \in Undoable => l \in Undoable
  PROVE  \E c \in SpeciesSyncContext :
           sync' = [sync EXCEPT ![s] = c] /\ c.pc = l /\ RunOK(c, rows)
<1> DEFINE c == [sync[s] EXCEPT !.pc = l, !.trial = FALSE]
<1>1. sync[s] \in SpeciesSyncContext /\ sync \in [Syncs -> SpeciesSyncContext]
  BY DEF IInv, TypeInv, TypeOK
<1>2. c \in SpeciesSyncContext
  BY <1>1 DEF SpeciesSyncContext
<1>3. /\ c.pc = l
      /\ c.created = sync[s].created /\ c.updated = sync[s].updated /\ c.stored = sync[s].stored
      /\ c.before = sync[s].before /\ c.base = sync[s].base /\ c.torn = sync[s].torn
  BY <1>1 DEF SpeciesSyncContext
<1>4. sync' = [sync EXCEPT ![s] = c]
  BY <1>1 DEF Goto
<1>5. RunOK(sync[s], rows)
  BY DEF IInv, UndoOK
<1> HIDE DEF c
<1>6. RunOK(c, rows)
  BY <1>3, <1>5, SameChanges
<1> QED
  BY <1>2, <1>3, <1>4, <1>6

\* What another process has at hand, or this one after a step that raised.
LEMMA LeftOffIs ==
  ASSUME IInv, NEW s \in Syncs, NEW p \in {"get", "apply", "invalidate"}
  PROVE  LET c == LeftOff(s, p)
         IN /\ c \in SpeciesSyncContext /\ c.pc = p /\ c.from = p
            /\ c.created = sync[s].stored.created /\ c.updated = sync[s].stored.updated
            /\ c.stored = sync[s].stored /\ c.attempts = sync[s].attempts
            /\ c.before = sync[s].before /\ c.base = sync[s].base /\ c.torn = sync[s].torn
<1>1. sync[s] \in SpeciesSyncContext
  BY DEF IInv, TypeInv, TypeOK
<1>2. /\ sync[s].stored.created \in SUBSET SpeciesIds /\ sync[s].stored.updated \in SpeciesSnapshot
  BY ContextFields DEF IInv
<1>3. (IF p = "get" THEN NoRecords ELSE sync[s].fetched) \in SpeciesRecord
  BY ContextFields, Values DEF IInv, SpeciesRecord, SpeciesModel
<1>4. 0 \in 0 .. Len(Listing)
  BY Values
<1> QED
  BY <1>1, <1>2, <1>3, <1>4 DEF LeftOff, SpeciesSyncContext, Pc

\* A saga that failed with nothing to undo.
LEMMA FailIs ==
  ASSUME IInv, NEW s \in Syncs, Fail(s), sync[s].pc \notin Undoable
  PROVE  \E c \in SpeciesSyncContext :
           sync' = [sync EXCEPT ![s] = c] /\ c.pc = "failed" /\ RunOK(c, rows)
<1> DEFINE b == LeftOff(s, sync[s].from)
           c == [b EXCEPT !.pc = "failed"]
<1>1. sync[s].from \in {"get", "apply", "invalidate"}
  BY ContextFields DEF IInv
<1>2. /\ b \in SpeciesSyncContext
      /\ b.created = sync[s].stored.created /\ b.updated = sync[s].stored.updated
      /\ b.stored = sync[s].stored
      /\ b.before = sync[s].before /\ b.base = sync[s].base /\ b.torn = sync[s].torn
  BY <1>1, LeftOffIs
<1>3. sync' = [sync EXCEPT ![s] = c]
  BY DEF Fail
<1> HIDE DEF b
<1>4. /\ c \in SpeciesSyncContext /\ c.pc = "failed"
      /\ c.created = b.created /\ c.updated = b.updated /\ c.stored = b.stored
      /\ c.before = b.before /\ c.base = b.base /\ c.torn = b.torn
  BY <1>2 DEF SpeciesSyncContext, Pc
<1>5. RunOK(sync[s], rows) /\ sync[s].pc # "applied"
  BY DEF IInv, UndoOK, Undoable
<1>6. c.created = sync[s].created /\ c.updated = sync[s].updated
  BY <1>2, <1>4, <1>5 DEF RunOK
<1> HIDE DEF c
<1>7. RunOK(c, rows)
  BY <1>2, <1>4, <1>5, <1>6, SameChanges
<1> QED
  BY <1>3, <1>4, <1>7

\* A request becomes a saga.
LEMMA StartSyncKeeps ==
  ASSUME IInv, NEW s \in Syncs, StartSync(s)
  PROVE  IInv'
<1> DEFINE c == [NewSync EXCEPT !.pc = "get"]
<1>1. c \in SpeciesSyncContext /\ c.pc = "get"
  BY Values DEF SpeciesSyncContext, Pc
<1>6. RunOK(c, rows)
  BY DEF NewSync, RunOK, NoChanges, Clean
<1>2. sync' = [sync EXCEPT ![s] = c] /\ sync[s].pc = "idle"
  BY DEF StartSync
<1>3. UNCHANGED <<breaker, upstream, snapshot, rows, queue, cache, reader, streak, straggled>>
  BY DEF StartSync, readSide, history
<1>4. /\ breaker \in AsyncCircuitBreaker /\ snapshot \in SpeciesRecord
      /\ queue \in [SpeciesIds -> Nat]
  BY DEF IInv, TypeInv, TypeOK
<1>5. CounterOK'
  BY <1>3 DEF IInv, CounterOK
<1> HIDE DEF c
<1> QED
  BY <1>1, <1>2, <1>3, <1>4, <1>5, <1>6, SagaStep

\* The state before_call leaves is the one admission was decided on.
LEMMA BeforeCallIs ==
  ASSUME TypeInv, CounterOK, before_call, UNCHANGED streak
  PROVE  /\ breaker' \in AsyncCircuitBreaker /\ CounterOK'
         /\ breaker'.state = effective_state
         /\ breaker'.trial = (breaker.trial \/ (admits /\ effective_state = "half_open"))
         /\ breaker.state = "half_open" => effective_state = "half_open"
         /\ breaker.state = "closed" <=> effective_state = "closed"
<1>1. breaker \in AsyncCircuitBreaker
  BY DEF TypeInv, TypeOK
<1>2. effective_state \in CircuitState
  BY <1>1 DEF effective_state, AsyncCircuitBreaker, CircuitState
<1>3. (breaker.trial \/ (admits /\ effective_state = "half_open")) \in BOOLEAN
  OBVIOUS
<1>4. /\ breaker' = [breaker EXCEPT !.state = effective_state,
                          !.trial = (breaker.trial \/ (admits /\ effective_state = "half_open"))]
  BY DEF before_call
<1>5. /\ breaker'.state = effective_state /\ breaker'.failures = breaker.failures
      /\ breaker'.trial = (breaker.trial \/ (admits /\ effective_state = "half_open"))
  BY <1>1, <1>4 DEF AsyncCircuitBreaker
<1>6. breaker' \in AsyncCircuitBreaker
  BY <1>1, <1>2, <1>3, <1>4 DEF AsyncCircuitBreaker
<1>7. /\ breaker.state = "half_open" => effective_state = "half_open"
      /\ breaker.state = "closed" <=> effective_state = "closed"
  BY DEF effective_state
<1>8. CounterOK'
  BY <1>5, <1>7 DEF CounterOK
<1> QED
  BY <1>5, <1>6, <1>7, <1>8

\* A call is admitted: as a trial only when none is in flight.
LEMMA AdmitKeeps ==
  ASSUME IInv, NEW s \in Syncs, Admit(s)
  PROVE  IInv'
<1> DEFINE c == [sync[s] EXCEPT !.pc = "calling", !.trial = (effective_state = "half_open")]
<1>1. /\ sync[s] \in SpeciesSyncContext /\ sync \in [Syncs -> SpeciesSyncContext]
      /\ sync[s].pc = "get" /\ admits /\ before_call
  BY DEF IInv, TypeInv, TypeOK, Admit
<1>2. c \in SpeciesSyncContext
  BY <1>1 DEF SpeciesSyncContext, Pc
<1>3. /\ c.pc = "calling" /\ c.trial = (effective_state = "half_open")
      /\ c.created = sync[s].created /\ c.updated = sync[s].updated /\ c.stored = sync[s].stored
      /\ c.before = sync[s].before /\ c.base = sync[s].base /\ c.torn = sync[s].torn
  BY <1>1 DEF SpeciesSyncContext
<1>4. sync' = [sync EXCEPT ![s] = c]
  BY <1>1 DEF Admit
<1> HIDE DEF c
<1>5. /\ sync' \in [Syncs -> SpeciesSyncContext] /\ sync'[s] = c
      /\ \A t \in Syncs \ {s} : sync'[t] = sync[t]
  BY <1>2, <1>4, SyncMoves DEF IInv
<1>6. UNCHANGED <<upstream, snapshot, rows, queue, cache, reader, streak, straggled>>
  BY DEF Admit, readSide, history
<1>7. /\ breaker' \in AsyncCircuitBreaker /\ CounterOK'
      /\ breaker'.state = effective_state
      /\ breaker'.trial = (breaker.trial \/ (admits /\ effective_state = "half_open"))
      /\ breaker.state = "half_open" => effective_state = "half_open"
  BY <1>1, <1>6, BeforeCallIs DEF IInv
<1>8. TypeInv'
  BY <1>5, <1>6, <1>7 DEF IInv, TypeInv, TypeOK
<1>9. TrialOK'
  <2> SUFFICES ASSUME ~straggled'
               PROVE  /\ \A t, u \in TrialsOf(sync') : t = u
                      /\ TrialsOf(sync') # {} => breaker'.state = "half_open" /\ breaker'.trial
    BY DEF TrialOK, TrialsOf
  <2>1. ~straggled
    BY <1>6
  <2>2. CASE effective_state = "half_open"
    <3>1. ~breaker.trial
      BY <1>1, <2>2 DEF admits
    <3>2. TrialsOf(sync) = {}
      BY <2>1, <3>1 DEF IInv, TrialOK
    <3>3. TrialsOf(sync') \subseteq {s}
      BY <1>5, <3>2 DEF TrialsOf
    <3>4. breaker'.state = "half_open" /\ breaker'.trial
      BY <1>1, <1>7, <2>2
    <3> QED
      BY <3>3, <3>4
  <2>3. CASE effective_state # "half_open"
    <3>1. TrialsOf(sync) = {}
      BY <1>7, <2>1, <2>3 DEF IInv, TrialOK
    <3>2. ~c.trial
      BY <1>3, <2>3
    <3>3. TrialsOf(sync') = {}
      BY <1>5, <3>1, <3>2 DEF TrialsOf
    <3> QED
      BY <3>3
  <2> QED
    BY <2>2, <2>3
<1>10. UndoOK'
  <2>1. RunOK(c, rows)
    BY <1>1, <1>3, SameChanges DEF IInv, UndoOK, Undoable
  <2> QED
    BY <1>5, <1>6, <2>1 DEF IInv, UndoOK
<1>11. CacheOK'
  BY <1>6, CacheSame DEF IInv
<1> QED
  BY <1>7, <1>8, <1>9, <1>10, <1>11 DEF IInv

\* A call is refused.
LEMMA RejectKeeps ==
  ASSUME IInv, NEW s \in Syncs, Reject(s)
  PROVE  IInv'
<1>1. PICK c \in SpeciesSyncContext :
        sync' = [sync EXCEPT ![s] = c] /\ c.pc = "fallback" /\ RunOK(c, rows)
  BY GotoIs DEF Reject, Pc, Undoable
<1>2. /\ sync[s].pc = "get" /\ before_call
      /\ UNCHANGED <<upstream, snapshot, rows, queue, cache, reader, streak, straggled>>
  BY DEF Reject, readSide, history
<1>3. /\ breaker' \in AsyncCircuitBreaker /\ CounterOK'
      /\ breaker.state = "half_open" /\ breaker.trial
           => breaker'.state = "half_open" /\ breaker'.trial
  BY <1>2, BeforeCallIs DEF IInv
<1>4. snapshot \in SpeciesRecord /\ queue \in [SpeciesIds -> Nat]
  BY DEF IInv, TypeInv, TypeOK
<1> QED
  BY <1>1, <1>2, <1>3, <1>4, SagaStep

\* The context after an answer: the next detail, or the end of the fetch.
LEMMA AdvanceIs ==
  ASSUME IInv, NEW s \in Syncs, NEW fetched \in SpeciesRecord, Advance(s, fetched),
         sync[s].pc = "calling"
  PROVE  \E c \in SpeciesSyncContext :
           sync' = [sync EXCEPT ![s] = c] /\ c.pc \in {"save", "get"} /\ RunOK(c, rows)
<1> DEFINE at == sync[s].at
           full == Cardinality({x \in SpeciesIds : fetched[x] # 0}) >= species_limit
           last == at = Len(Listing) \/ full
           n == IF last THEN 0 ELSE at + 1
           l == IF last THEN "save" ELSE "get"
           c == [sync[s] EXCEPT !.fetched = fetched, !.trial = FALSE, !.at = n, !.pc = l]
<1>1. sync[s] \in SpeciesSyncContext /\ sync \in [Syncs -> SpeciesSyncContext]
  BY DEF IInv, TypeInv, TypeOK
<1>2. at \in 0 .. Len(Listing) /\ Len(Listing) \in Nat
  BY <1>1, Values DEF SpeciesSyncContext
<1>3. sync' = [sync EXCEPT ![s].fetched = fetched, ![s].trial = FALSE, ![s].at = n, ![s].pc = l]
  BY DEF Advance
<1>4. n \in 0 .. Len(Listing) /\ l \in {"save", "get"}
  BY <1>2
<1> HIDE DEF n, l
<1>5. /\ c \in SpeciesSyncContext /\ c.pc = l
      /\ c.created = sync[s].created /\ c.updated = sync[s].updated /\ c.stored = sync[s].stored
      /\ c.before = sync[s].before /\ c.base = sync[s].base /\ c.torn = sync[s].torn
  BY <1>1, <1>4 DEF SpeciesSyncContext, Pc
<1>6. sync' = [sync EXCEPT ![s] = c]
  BY <1>1, <1>3
<1> HIDE DEF c
<1>7. RunOK(c, rows)
  BY <1>4, <1>5, SameChanges DEF IInv, UndoOK, Undoable
<1> QED
  BY <1>4, <1>5, <1>6, <1>7

\* An answer, a detail that cannot be used, one that is missing.
LEMMA AnsweredKeeps ==
  ASSUME IInv, NEW s \in Syncs, Answered(s)
  PROVE  IInv'
<1> DEFINE fetched == IF sync[s].at = 0 THEN sync[s].fetched
                      ELSE [sync[s].fetched EXCEPT ![Listing[sync[s].at]] =
                              IF @ = 0 THEN upstream ELSE @]
<1>1. /\ sync[s].pc = "calling" /\ Succeeds(s)
      /\ UNCHANGED <<upstream, snapshot, rows, queue, cache, reader>>
  BY DEF Answered, readSide
<1>2. Advance(s, fetched)
  BY DEF Answered
<1>3. /\ sync[s].fetched \in [SpeciesIds -> Editions] /\ upstream \in Editions
  BY ContextFields, ConstantsAssumption DEF IInv, TypeInv, SpeciesRecord, Editions
<1>4. fetched \in SpeciesRecord
  BY <1>3 DEF SpeciesRecord
<1> HIDE DEF fetched
<1>5. PICK c \in SpeciesSyncContext :
        sync' = [sync EXCEPT ![s] = c] /\ c.pc \in {"save", "get"} /\ RunOK(c, rows)
  BY <1>1, <1>2, <1>4, AdvanceIs
<1> QED
  BY <1>1, <1>5, CallStep

\* A detail is skipped.
LEMMA SkippedKeeps ==
  ASSUME IInv, NEW s \in Syncs, Unusable(s) \/ Missing(s)
  PROVE  IInv'
<1>1. /\ UNCHANGED <<upstream, snapshot, rows, queue, cache, reader>>
      /\ Advance(s, sync[s].fetched)
  BY DEF Unusable, Missing, readSide
<1>2. sync[s].pc = "calling" /\ (Succeeds(s) \/ Fails(s))
  BY DEF Unusable, Missing
<1>3. sync[s].fetched \in SpeciesRecord
  BY ContextFields DEF IInv
<1>4. PICK c \in SpeciesSyncContext :
        sync' = [sync EXCEPT ![s] = c] /\ c.pc \in {"save", "get"} /\ RunOK(c, rows)
  BY <1>1, <1>2, <1>3, AdvanceIs
<1> QED
  BY <1>1, <1>2, <1>4, CallStep

\* Trefle is unavailable: the fallback.
LEMMA UnavailableKeeps ==
  ASSUME IInv, NEW s \in Syncs, Unavailable(s)
  PROVE  IInv'
<1>1. PICK c \in SpeciesSyncContext :
        sync' = [sync EXCEPT ![s] = c] /\ c.pc = "fallback" /\ RunOK(c, rows)
  BY GotoIs DEF Unavailable, Pc, Undoable
<1>2. /\ sync[s].pc = "calling" /\ Fails(s)
      /\ UNCHANGED <<upstream, snapshot, rows, queue, cache, reader>>
  BY DEF Unavailable, readSide
<1> QED
  BY <1>1, <1>2, CallStep

\* A call fails the saga.
LEMMA RefusedKeeps ==
  ASSUME IInv, NEW s \in Syncs, Refused(s) \/ Unparsable(s)
  PROVE  IInv'
<1>1. /\ Succeeds(s) \/ Fails(s)
      /\ UNCHANGED <<upstream, snapshot, rows, queue, cache, reader>>
      /\ sync[s].pc = "calling" /\ Fail(s)
  BY DEF Refused, Unparsable, readSide
<1>2. PICK c \in SpeciesSyncContext :
        sync' = [sync EXCEPT ![s] = c] /\ c.pc = "failed" /\ RunOK(c, rows)
  BY <1>1, FailIs DEF Undoable
<1> QED
  BY <1>1, <1>2, CallStep

\* Steps of the saga outside the calls that write neither table nor cache.
LEMMA QuietSaga ==
  ASSUME IInv, NEW s \in Syncs, NEW c \in SpeciesSyncContext,
         sync' = [sync EXCEPT ![s] = c], sync[s].pc # "calling", c.pc # "calling",
         RunOK(c, rows),
         UNCHANGED <<breaker, upstream, rows, queue, readSide, history>>,
         snapshot' \in SpeciesRecord
  PROVE  IInv'
<1>1. UNCHANGED <<breaker, upstream, rows, queue, cache, reader, streak, straggled>>
  BY DEF readSide, history
<1>2. breaker \in AsyncCircuitBreaker /\ queue \in [SpeciesIds -> Nat]
  BY DEF IInv, TypeInv, TypeOK
<1>3. CounterOK'
  BY <1>1 DEF IInv, CounterOK
<1> QED
  BY <1>1, <1>2, <1>3, SagaStep

\* The fetch is checkpointed.
LEMMA FetchDoneIs ==
  ASSUME IInv, NEW s \in Syncs, NEW records \in SpeciesRecord, FetchDone(s, records),
         sync[s].pc \in {"save", "fallback"}
  PROVE  \E c \in SpeciesSyncContext :
           sync' = [sync EXCEPT ![s] = c] /\ c.pc = "apply" /\ RunOK(c, rows)
<1> DEFINE c == [sync[s] EXCEPT !.pc = "apply", !.from = "apply", !.at = 0, !.fetched = records]
<1>1. sync[s] \in SpeciesSyncContext /\ sync \in [Syncs -> SpeciesSyncContext]
  BY DEF IInv, TypeInv, TypeOK
<1>2. 0 \in 0 .. Len(Listing)
  BY Values
<1>3. /\ c \in SpeciesSyncContext /\ c.pc = "apply"
      /\ c.created = sync[s].created /\ c.updated = sync[s].updated /\ c.stored = sync[s].stored
      /\ c.before = sync[s].before /\ c.base = sync[s].base /\ c.torn = sync[s].torn
  BY <1>1, <1>2 DEF SpeciesSyncContext, Pc
<1>4. sync' = [sync EXCEPT ![s] = c]
  BY <1>1 DEF FetchDone
<1> HIDE DEF c
<1>5. RunOK(c, rows)
  BY <1>3, SameChanges DEF IInv, UndoOK, Undoable
<1> QED
  BY <1>3, <1>4, <1>5

\* The snapshot is remembered.
LEMMA SaveKeeps ==
  ASSUME IInv, NEW s \in Syncs, Save(s)
  PROVE  IInv'
<1>1. sync[s].fetched \in SpeciesRecord
  BY ContextFields DEF IInv
<1>2. /\ sync[s].pc = "save" /\ UNCHANGED <<breaker, upstream, rows, queue, readSide, history>>
      /\ snapshot' = sync[s].fetched \/ snapshot' = snapshot
      /\ FetchDone(s, sync[s].fetched)
  BY DEF Save
<1>3. PICK c \in SpeciesSyncContext :
        sync' = [sync EXCEPT ![s] = c] /\ c.pc = "apply" /\ RunOK(c, rows)
  BY <1>1, <1>2, FetchDoneIs
<1>4. snapshot' \in SpeciesRecord
  BY <1>1, <1>2 DEF IInv, TypeInv, TypeOK
<1> QED
  BY <1>2, <1>3, <1>4, QuietSaga

\* The snapshot stands in for Trefle.
LEMMA FallbackKeeps ==
  ASSUME IInv, NEW s \in Syncs, Fallback(s)
  PROVE  IInv'
<1>1. PICK records \in Loadable : FetchDone(s, records)
  BY DEF Fallback
<1>2. records \in SpeciesRecord
  BY Values DEF Loadable, IInv, TypeInv, TypeOK, SpeciesRecord, SpeciesModel
<1>3. /\ sync[s].pc = "fallback"
      /\ UNCHANGED <<breaker, upstream, snapshot, rows, queue, readSide, history>>
  BY DEF Fallback
<1>4. PICK c \in SpeciesSyncContext :
        sync' = [sync EXCEPT ![s] = c] /\ c.pc = "apply" /\ RunOK(c, rows)
  BY <1>1, <1>2, <1>3, FetchDoneIs
<1>5. snapshot \in SpeciesRecord
  BY DEF IInv, TypeInv, TypeOK
<1> QED
  BY <1>3, <1>4, <1>5, QuietSaga

\* The transaction of Apply fails.
LEMMA ApplyFailsKeeps ==
  ASSUME IInv, NEW s \in Syncs, ApplyFails(s)
  PROVE  IInv'
<1>1. /\ sync[s].pc = "apply" /\ Fail(s)
      /\ UNCHANGED <<breaker, upstream, snapshot, rows, queue, readSide, history>>
  BY DEF ApplyFails
<1>2. PICK c \in SpeciesSyncContext :
        sync' = [sync EXCEPT ![s] = c] /\ c.pc = "failed" /\ RunOK(c, rows)
  BY <1>1, FailIs DEF Undoable
<1>3. snapshot \in SpeciesRecord
  BY DEF IInv, TypeInv, TypeOK
<1> QED
  BY <1>1, <1>2, <1>3, QuietSaga

\* The engine stores the context.
LEMMA CheckpointKeeps ==
  ASSUME IInv, NEW s \in Syncs, Checkpoint(s)
  PROVE  IInv'
<1> DEFINE d == [created |-> sync[s].created, updated |-> sync[s].updated]
           c == [sync[s] EXCEPT !.pc = "invalidate", !.from = "invalidate",
                                !.fetched = NoRecords, !.stored = d]
<1>1. sync[s] \in SpeciesSyncContext /\ sync \in [Syncs -> SpeciesSyncContext]
  BY DEF IInv, TypeInv, TypeOK
<1>2. d \in Changes /\ d.created = sync[s].created /\ d.updated = sync[s].updated
  BY ContextFields DEF IInv, Changes
<1>3. sync' = [sync EXCEPT ![s] = c]
  BY <1>1 DEF Checkpoint
<1> HIDE DEF d
<1>4. /\ c \in SpeciesSyncContext /\ c.pc = "invalidate" /\ c.from = "invalidate"
      /\ c.created = sync[s].created /\ c.updated = sync[s].updated /\ c.stored = d
      /\ c.before = sync[s].before /\ c.base = sync[s].base /\ c.torn = sync[s].torn
  BY <1>1, <1>2, Values DEF SpeciesSyncContext, Pc, SpeciesRecord, SpeciesModel
<1> HIDE DEF c
<1>5. /\ sync[s].pc = "applied"
      /\ UNCHANGED <<breaker, upstream, snapshot, rows, queue, readSide, history>>
  BY DEF Checkpoint
<1>6. RunOK(c, rows)
  <2>1. RunOK(sync[s], rows)
    BY DEF IInv, UndoOK
  <2>2. Clean(c) => Remembers(c, rows)
    BY <1>4, <1>5, <2>1 DEF RunOK, Clean, Remembers, Undoable
  <2> QED
    BY <1>2, <1>4, <2>1, <2>2 DEF RunOK
<1>7. snapshot \in SpeciesRecord
  BY DEF IInv, TypeInv, TypeOK
<1> QED
  BY <1>3, <1>4, <1>5, <1>6, <1>7, QuietSaga

\* The last step fails, and the engine records that it was compensated.
LEMMA InvalidateFailsKeeps ==
  ASSUME IInv, NEW s \in Syncs, InvalidateFails(s) \/ LogCompensated(s)
  PROVE  IInv'
<1>1. \/ sync[s].pc = "invalidate" /\ Goto(s, "compensate")
      \/ sync[s].pc = "compensated" /\ Goto(s, "failed")
  BY DEF InvalidateFails, LogCompensated
<1>2. PICK c \in SpeciesSyncContext :
        /\ sync' = [sync EXCEPT ![s] = c] /\ c.pc \in {"compensate", "failed"}
        /\ RunOK(c, rows)
  BY <1>1, GotoIs DEF Pc, Undoable
<1>3. UNCHANGED <<breaker, upstream, snapshot, rows, queue, readSide, history>>
  BY DEF InvalidateFails, LogCompensated
<1>4. snapshot \in SpeciesRecord
  BY DEF IInv, TypeInv, TypeOK
<1> QED
  BY <1>1, <1>2, <1>3, <1>4, QuietSaga

\* The recovery job retries a failed saga, or parks it.
LEMMA RetryKeeps ==
  ASSUME IInv, NEW s \in Syncs, Retry(s)
  PROVE  IInv'
<1>1. PICK p \in {"get", sync[s].from} :
        sync' = [sync EXCEPT ![s] = [LeftOff(s, p) EXCEPT !.attempts = @ + 1]]
  BY DEF Retry
<1>2. /\ sync[s].pc = "failed" /\ sync[s].attempts < max_attempts
      /\ UNCHANGED <<breaker, upstream, snapshot, rows, queue, readSide, history>>
  BY DEF Retry
<1> DEFINE b == LeftOff(s, p)
           c == [b EXCEPT !.attempts = @ + 1]
<1>3. p \in {"get", "apply", "invalidate"}
  BY ContextFields DEF IInv
<1>4. /\ b \in SpeciesSyncContext /\ b.pc = p /\ b.from = p /\ b.attempts = sync[s].attempts
      /\ b.created = sync[s].stored.created /\ b.updated = sync[s].stored.updated
      /\ b.stored = sync[s].stored
      /\ b.before = sync[s].before /\ b.base = sync[s].base /\ b.torn = sync[s].torn
  BY <1>3, LeftOffIs
<1>5. sync' = [sync EXCEPT ![s] = c]
  BY <1>1
<1> HIDE DEF b
<1>6. b.attempts + 1 \in 0 .. max_attempts
  <2>1. b.attempts \in 0 .. max_attempts
    BY <1>4 DEF SpeciesSyncContext
  <2> QED
    BY <1>2, <1>4, <2>1, ConstantsAssumption
<1>7. /\ c \in SpeciesSyncContext /\ c.pc = p /\ c.from = p
      /\ c.created = b.created /\ c.updated = b.updated /\ c.stored = b.stored
      /\ c.before = b.before /\ c.base = b.base /\ c.torn = b.torn
  BY <1>4, <1>6 DEF SpeciesSyncContext
<1>8. RunOK(sync[s], rows)
  BY DEF IInv, UndoOK
<1>9. c.created = sync[s].created /\ c.updated = sync[s].updated
  BY <1>2, <1>4, <1>7, <1>8 DEF RunOK
<1> HIDE DEF c
<1>10. RunOK(c, rows)
  BY <1>2, <1>3, <1>4, <1>7, <1>8, <1>9, SameChanges DEF Undoable
<1>11. snapshot \in SpeciesRecord
  BY DEF IInv, TypeInv, TypeOK
<1> QED
  BY <1>2, <1>3, <1>5, <1>7, <1>10, <1>11, QuietSaga

\* A parked saga makes room.
LEMMA ParkKeeps ==
  ASSUME IInv, NEW s \in Syncs, Park(s)
  PROVE  IInv'
<1>1. /\ sync' = [sync EXCEPT ![s] = NewSync] /\ sync[s].pc = "failed"
      /\ UNCHANGED <<breaker, upstream, snapshot, rows, queue, readSide, history>>
  BY DEF Park, End
<1>2. snapshot \in SpeciesRecord
  BY DEF IInv, TypeInv, TypeOK
<1> QED
  BY <1>1, <1>2, Values, QuietSaga

-----------------------------------------------------------------------------
(* The commits *)

\* An event is appended for each of the species.
LEMMA AnnounceIs ==
  ASSUME TypeInv, NEW A, Announce(A)
  PROVE  /\ queue' \in [SpeciesIds -> Nat]
         /\ \A x \in SpeciesIds : queue'[x] = 0 => queue[x] = 0 /\ x \notin A
<1>1. queue \in [SpeciesIds -> Nat]
  BY DEF TypeInv, TypeOK
<1> QED
  BY <1>1 DEF Announce

\* The outbox of the invalidating step.
LEMMA InvalidateKeeps ==
  ASSUME IInv, NEW s \in Syncs, Invalidate(s)
  PROVE  IInv'
<1>1. /\ sync' = [sync EXCEPT ![s] = NewSync] /\ sync[s].pc = "invalidate"
      /\ Announce(UpdatedBy(s))
      /\ UNCHANGED <<breaker, upstream, snapshot, rows, cache, reader, streak, straggled>>
  BY DEF Invalidate, End, OutboxSpeciesCache, readSide, history
<1>2. /\ queue' \in [SpeciesIds -> Nat]
      /\ \A x \in SpeciesIds : queue'[x] = 0 => queue[x] = 0
  BY <1>1, AnnounceIs DEF IInv
<1>3. snapshot \in SpeciesRecord /\ breaker \in AsyncCircuitBreaker
  BY DEF IInv, TypeInv, TypeOK
<1>4. CounterOK'
  BY <1>1 DEF IInv, CounterOK
<1> QED
  BY <1>1, <1>2, <1>3, <1>4, Values, SagaStep

\* An excused entry keeps its view.
LEMMA ExcuseIs ==
  ASSUME NEW entries \in [SpeciesIds -> CacheEntry], NEW S
  PROVE  /\ Excuse(entries, S) \in [SpeciesIds -> CacheEntry]
         /\ \A x \in SpeciesIds :
              /\ Excuse(entries, S)[x].view = entries[x].view
              /\ entries[x].excused => Excuse(entries, S)[x].excused
              /\ x \in S /\ entries[x].view # 0 => Excuse(entries, S)[x].excused
<1> DEFINE e(x) == [entries[x] EXCEPT !.excused = @ \/ (x \in S /\ entries[x].view # 0)]
<1>1. ASSUME NEW x \in SpeciesIds
      PROVE  /\ e(x) \in CacheEntry /\ e(x).view = entries[x].view
             /\ e(x).excused = (entries[x].excused \/ (x \in S /\ entries[x].view # 0))
  <2>1. entries[x] \in CacheEntry
    OBVIOUS
  <2>2. (entries[x].excused \/ (x \in S /\ entries[x].view # 0)) \in BOOLEAN
    OBVIOUS
  <2> QED
    BY <2>1, <2>2 DEF CacheEntry
<1>2. Excuse(entries, S) = [x \in SpeciesIds |-> e(x)]
  BY DEF Excuse
<1> HIDE DEF e
<1> QED
  BY <1>1, <1>2

\* A commit to the catalogue leaves a cached or a read view behind only where it
\* is excused or an event for it is on its way.
LEMMA CommitCache ==
  ASSUME TypeInv, CacheOK, NEW new \in SpeciesModel, Commit(new), NEW A, Announce(A),
         \A x \in SpeciesIds : new[x] \notin {0, rows[x]} /\ rows[x] # 0 => x \in A
  PROVE  /\ rows' = new
         /\ cache' \in [SpeciesIds -> CacheEntry] /\ reader' \in [SpeciesIds -> CacheEntry]
         /\ queue' \in [SpeciesIds -> Nat]
         /\ CacheOK'
<1> DEFINE changed == {x \in SpeciesIds : new[x] # rows[x]}
           deleted == {x \in changed : new[x] = 0}
<1>1. rows' = new /\ reader' = Excuse(reader, changed) /\ cache' = Excuse(cache, deleted)
  BY DEF Commit
<1>2. cache \in [SpeciesIds -> CacheEntry] /\ reader \in [SpeciesIds -> CacheEntry]
  BY DEF TypeInv, TypeOK
<1>3. /\ queue' \in [SpeciesIds -> Nat]
      /\ \A x \in SpeciesIds : queue'[x] = 0 => queue[x] = 0 /\ x \notin A
  BY AnnounceIs
<1>4. /\ reader' \in [SpeciesIds -> CacheEntry]
      /\ \A x \in SpeciesIds :
           /\ reader'[x].view = reader[x].view
           /\ reader[x].excused => reader'[x].excused
           /\ x \in changed /\ reader[x].view # 0 => reader'[x].excused
  BY <1>1, <1>2, ExcuseIs
<1>5. /\ cache' \in [SpeciesIds -> CacheEntry]
      /\ \A x \in SpeciesIds :
           /\ cache'[x].view = cache[x].view
           /\ cache[x].excused => cache'[x].excused
           /\ x \in deleted /\ cache[x].view # 0 => cache'[x].excused
  BY <1>1, <1>2, ExcuseIs
<1>6. CacheOK'
  <2> SUFFICES ASSUME NEW x \in SpeciesIds
               PROVE  /\ reader'[x].view \notin {0, new[x]} => reader'[x].excused
                      /\ cache'[x].view \notin {0, new[x]} /\ queue'[x] = 0 => cache'[x].excused
    BY <1>1 DEF CacheOK
  <2>1. reader'[x].view \notin {0, new[x]} => reader'[x].excused
    <3>1. CASE new[x] = rows[x]
      BY <1>4, <3>1 DEF CacheOK
    <3>2. CASE new[x] # rows[x]
      BY <1>4, <3>2
    <3> QED
      BY <3>1, <3>2
  <2>2. ASSUME cache'[x].view \notin {0, new[x]}, queue'[x] = 0 PROVE cache'[x].excused
    <3>1. queue[x] = 0 /\ x \notin A
      BY <1>3, <2>2
    <3>2. CASE new[x] = rows[x]
      BY <1>5, <2>2, <3>1, <3>2 DEF CacheOK
    <3>3. CASE new[x] # rows[x] /\ new[x] = 0
      BY <1>5, <2>2, <3>3
    <3>4. CASE new[x] # rows[x] /\ new[x] # 0
      <4>1. rows[x] = 0
        BY <3>1, <3>4
      <4> QED
        BY <1>5, <2>2, <3>1, <4>1 DEF CacheOK
    <3> QED
      BY <3>2, <3>3, <3>4
  <2> QED
    BY <2>1, <2>2
<1> QED
  BY <1>1, <1>3, <1>4, <1>5, <1>6

\* What is left of the invariant at a commit: the others' claim to be alone.
LEMMA CommitStep ==
  ASSUME IInv, NEW s \in Syncs, NEW c \in SpeciesSyncContext, NEW new \in SpeciesModel,
         Commit(new), NEW A, Announce(A),
         \A x \in SpeciesIds : new[x] \notin {0, rows[x]} /\ rows[x] # 0 => x \in A,
         sync[s].pc # "calling", c.pc # "calling",
         sync' = [p \in Syncs |-> IF p = s THEN c ELSE Beside(sync[p], new)],
         RunOK(c, new),
         UNCHANGED <<breaker, upstream, snapshot, history>>
  PROVE  IInv'
<1>1. /\ rows' = new
      /\ cache' \in [SpeciesIds -> CacheEntry] /\ reader' \in [SpeciesIds -> CacheEntry]
      /\ queue' \in [SpeciesIds -> Nat]
      /\ CacheOK'
  BY CommitCache DEF IInv
<1>2. ASSUME NEW p \in Syncs, p # s
      PROVE  /\ sync'[p] \in SpeciesSyncContext
             /\ sync'[p].pc = sync[p].pc /\ sync'[p].trial = sync[p].trial
             /\ RunOK(sync'[p], new)
  <2>1. sync[p] \in SpeciesSyncContext /\ sync'[p] = Beside(sync[p], new) /\ RunOK(sync[p], rows)
    BY <1>2 DEF IInv, TypeInv, TypeOK, UndoOK
  <2> DEFINE d == Beside(sync[p], new)
  <2>2. CASE sync[p].base = "alone" /\ new # rows
    <3>1. d = [sync[p] EXCEPT !.base = "shared"]
      BY <2>2 DEF Beside
    <3>2. /\ d \in SpeciesSyncContext /\ d.pc = sync[p].pc /\ d.trial = sync[p].trial
          /\ d.created = sync[p].created /\ d.updated = sync[p].updated
          /\ d.stored = sync[p].stored /\ d.from = sync[p].from /\ d.base = "shared"
      BY <2>1, <3>1 DEF SpeciesSyncContext
    <3>3. RunOK(d, new)
      BY <2>1, <3>2 DEF RunOK, Clean
    <3> QED
      BY <2>1, <3>2, <3>3
  <2>3. CASE ~(sync[p].base = "alone" /\ new # rows)
    <3>1. d = sync[p]
      BY <2>1, <2>3 DEF Beside, SpeciesSyncContext
    <3>2. RunOK(sync[p], new)
      BY <2>1, <2>3 DEF RunOK, Clean
    <3> QED
      BY <2>1, <3>1, <3>2
  <2> QED
    BY <2>2, <2>3
<1>3. sync'[s] = c
  OBVIOUS
<1>4. sync' \in [Syncs -> SpeciesSyncContext]
  BY <1>2, <1>3
<1>5. UNCHANGED <<streak, straggled>>
  BY DEF history
<1>6. TypeInv' /\ CounterOK'
  BY <1>1, <1>4, <1>5 DEF IInv, TypeInv, TypeOK, CounterOK
<1>7. TrialOK'
  BY <1>2, <1>3, <1>5, TrialsSame DEF IInv
<1>8. UndoOK'
  BY <1>1, <1>2, <1>3 DEF UndoOK
<1> QED
  BY <1>1, <1>6, <1>7, <1>8 DEF IInv

\* Apply: the before-images and the creations are what it takes to undo it.
LEMMA ApplyKeeps ==
  ASSUME IInv, NEW s \in Syncs, Apply(s)
  PROVE  IInv'
<1> DEFINE new == Applied(s)
           created == sync[s].created \cup Created(s)
           before == IF sync[s].base = "none" THEN rows ELSE sync[s].before
           base == IF sync[s].base = "none" THEN "alone" ELSE sync[s].base
           c == [sync[s] EXCEPT !.pc = "applied", !.created = created,
                          !.updated = BeforeImages(s), !.before = before, !.base = base]
<1>1. /\ sync[s] \in SpeciesSyncContext /\ sync[s].fetched \in [SpeciesIds -> Editions]
      /\ sync[s].updated \in [SpeciesIds -> Editions] /\ sync[s].created \in SUBSET SpeciesIds
      /\ rows \in [SpeciesIds -> Editions] /\ 0 \in Editions
  BY ContextFields, ConstantsAssumption
     DEF IInv, TypeInv, TypeOK, SpeciesRecord, SpeciesSnapshot, SpeciesModel, Editions
<1>2. new \in SpeciesModel /\ BeforeImages(s) \in SpeciesSnapshot /\ created \in SUBSET SpeciesIds
  BY <1>1 DEF Applied, BeforeImages, Created, SpeciesModel, SpeciesSnapshot
<1>3. before \in SpeciesModel /\ base \in {"alone", "shared"}
  BY <1>1 DEF SpeciesSyncContext, SpeciesModel
<1>4. /\ Commit(new) /\ Announce(Updated(s)) /\ sync[s].pc = "apply"
      /\ sync' = [p \in Syncs |-> IF p = s THEN c ELSE Beside(sync[p], new)]
      /\ UNCHANGED <<breaker, upstream, snapshot, history>>
  BY DEF Apply
<1> HIDE DEF created, before, base, new
<1>5. /\ c \in SpeciesSyncContext /\ c.pc = "applied" /\ c.created = created
      /\ c.updated = BeforeImages(s) /\ c.before = before /\ c.base = base
      /\ c.torn = sync[s].torn
  BY <1>1, <1>2, <1>3 DEF SpeciesSyncContext, Pc
<1>6. \A x \in SpeciesIds : new[x] \notin {0, rows[x]} /\ rows[x] # 0 => x \in Updated(s)
  BY DEF Applied, Created, Updated, new
<1>7. RunOK(c, new)
  <2>1. RunOK(sync[s], rows)
    BY DEF IInv, UndoOK
  <2>2. ASSUME Clean(c), NEW x \in SpeciesIds
        PROVE  /\ rows[x] = before[x]
               /\ x \in sync[s].created => before[x] = 0
               /\ sync[s].updated[x] # 0 => sync[s].updated[x] = before[x]
    <3>1. CASE sync[s].base = "none"
      BY <2>1, <2>2, <3>1 DEF RunOK, NoRecords, before
    <3>2. CASE sync[s].base # "none"
      <4>1. Clean(sync[s])
        BY <1>5, <2>2, <3>2 DEF Clean, base
      <4> QED
        BY <1>4, <2>1, <2>2, <3>2, <4>1 DEF RunOK, Remembers, before, Undoable
    <3> QED
      BY <3>1, <3>2
  <2>3. ASSUME Clean(c), NEW x \in SpeciesIds
        PROVE  /\ x \in c.created => c.before[x] = 0
               /\ c.updated[x] # 0 => c.updated[x] = c.before[x]
               /\ \/ new[x] = c.before[x]
                  \/ x \in c.created \/ (c.updated[x] # 0 /\ new[x] # 0)
    BY <1>5, <2>2, <2>3 DEF Created, Updated, BeforeImages, Applied, created, new
  <2>4. Clean(c) => Remembers(c, new)
    BY <1>5, <2>3 DEF Remembers, Undoable
  <2> QED
    BY <1>3, <1>5, <2>4 DEF RunOK
<1> HIDE DEF c
<1> QED
  BY <1>2, <1>4, <1>5, <1>6, <1>7, CommitStep

\* Compensate: a commit that announces what it restores.
LEMMA CompensateKeeps ==
  ASSUME IInv, NEW s \in Syncs, Compensate(s)
  PROVE  IInv'
<1> DEFINE new == Restored(s)
           c == [sync[s] EXCEPT !.pc = "compensated"]
<1>1. /\ sync[s].updated \in [SpeciesIds -> Editions] /\ sync[s] \in SpeciesSyncContext
      /\ rows \in [SpeciesIds -> Editions] /\ 0 \in Editions
  BY ContextFields, ConstantsAssumption
     DEF IInv, TypeInv, TypeOK, SpeciesSnapshot, SpeciesModel, Editions
<1>2. new \in SpeciesModel
  BY <1>1 DEF Restored, SpeciesModel
<1>3. /\ Commit(new) /\ Announce(RestoreAnnounced(s)) /\ sync[s].pc = "compensate"
      /\ sync' = [p \in Syncs |-> IF p = s THEN c ELSE Beside(sync[p], new)]
      /\ UNCHANGED <<breaker, upstream, snapshot, history>>
  BY DEF Compensate
<1>4. \A x \in SpeciesIds : new[x] \notin {0, rows[x]} /\ rows[x] # 0 => x \in RestoreAnnounced(s)
  BY DEF Restored, RestoreAnnounced
<1>5. /\ c \in SpeciesSyncContext /\ c.pc = "compensated"
      /\ c.created = sync[s].created /\ c.updated = sync[s].updated /\ c.stored = sync[s].stored
      /\ c.before = sync[s].before /\ c.base = sync[s].base /\ c.torn = sync[s].torn
  BY <1>1 DEF SpeciesSyncContext, Pc
<1> HIDE DEF c
<1>6. RunOK(c, new)
  <2>1. RunOK(sync[s], rows)
    BY DEF IInv, UndoOK
  <2>2. Clean(c) => Remembers(sync[s], rows) /\ new = sync[s].before
    BY <1>5, <2>1, RestoredIs DEF RunOK, Clean, IInv
  <2>3. Clean(c) => Remembers(c, new)
    BY <1>5, <2>2 DEF Remembers
  <2> QED
    BY <1>3, <1>5, <2>1, <2>3 DEF RunOK
<1> HIDE DEF new
<1> QED
  BY <1>2, <1>3, <1>4, <1>5, <1>6, CommitStep

\* Another process finds a run with what it stored, and what it wrote past that
\* is torn from it.
LEMMA ResumedIs ==
  ASSUME IInv, NEW s \in Syncs
  PROVE  Resumed(s) \in SpeciesSyncContext /\ Resumed(s).pc # "calling" /\ RunOK(Resumed(s), rows)
<1>1. sync[s] \in SpeciesSyncContext /\ RunOK(sync[s], rows)
  BY DEF IInv, TypeInv, TypeOK, UndoOK
<1>2. CASE sync[s].pc \in {"idle", "failed"}
  BY <1>1, <1>2 DEF Resumed
<1>3. CASE sync[s].pc \in {"compensate", "compensated"}
  <2> DEFINE c == [sync[s] EXCEPT !.pc = "compensate"]
  <2>1. Resumed(s) = c
    BY <1>3 DEF Resumed
  <2>2. /\ c \in SpeciesSyncContext /\ c.pc = "compensate"
        /\ c.created = sync[s].created /\ c.updated = sync[s].updated /\ c.stored = sync[s].stored
        /\ c.before = sync[s].before /\ c.base = sync[s].base /\ c.torn = sync[s].torn
    BY <1>1 DEF SpeciesSyncContext, Pc
  <2> HIDE DEF c
  <2>3. RunOK(c, rows)
    BY <1>1, <1>3, <2>2, SameChanges DEF Undoable
  <2> QED
    BY <2>1, <2>2, <2>3
<1>4. CASE sync[s].pc \notin {"idle", "failed", "compensate", "compensated"}
  <2> DEFINE b == LeftOff(s, sync[s].from)
             c == [b EXCEPT !.torn = @ \/ sync[s].pc = "applied"]
  <2>1. Resumed(s) = c
    BY <1>4 DEF Resumed
  <2>2. sync[s].from \in {"get", "apply", "invalidate"}
    BY ContextFields DEF IInv
  <2>3. /\ b \in SpeciesSyncContext /\ b.pc = sync[s].from /\ b.from = sync[s].from
        /\ b.created = sync[s].stored.created /\ b.updated = sync[s].stored.updated
        /\ b.stored = sync[s].stored
        /\ b.before = sync[s].before /\ b.base = sync[s].base /\ b.torn = sync[s].torn
    BY <2>2, LeftOffIs
  <2> HIDE DEF b
  <2>4. /\ c \in SpeciesSyncContext /\ c.pc = b.pc /\ c.from = b.from
        /\ c.created = b.created /\ c.updated = b.updated /\ c.stored = b.stored
        /\ c.before = b.before /\ c.base = b.base
        /\ c.torn = (b.torn \/ sync[s].pc = "applied")
    BY <2>3 DEF SpeciesSyncContext
  <2> HIDE DEF c
  <2>5. CASE sync[s].pc # "applied"
    <3>1. c.torn = sync[s].torn
      BY <1>1, <2>3, <2>4, <2>5 DEF SpeciesSyncContext
    <3>2. c.created = sync[s].created /\ c.updated = sync[s].updated
      BY <1>1, <2>3, <2>4, <2>5 DEF RunOK
    <3>3. sync[s].pc \in Undoable => c.pc \in Undoable
      BY <1>1, <1>4, <2>3, <2>4, <2>5 DEF RunOK, Undoable
    <3>4. RunOK(c, rows)
      BY <1>1, <2>2, <2>3, <2>4, <2>5, <3>1, <3>2, <3>3, SameChanges
    <3> QED
      BY <2>1, <2>2, <2>3, <2>4, <3>4
  <2>6. CASE sync[s].pc = "applied"
    <3>1. ~Clean(c)
      BY <2>4, <2>6 DEF Clean
    <3>2. sync[s].base # "none"
      BY <1>1, <2>6 DEF RunOK
    <3>3. RunOK(c, rows)
      BY <2>2, <2>3, <2>4, <3>1, <3>2 DEF RunOK
    <3> QED
      BY <2>1, <2>2, <2>3, <2>4, <3>3
  <2> QED
    BY <2>5, <2>6
<1> QED
  BY <1>2, <1>3, <1>4

\* The worker dies: calls and trials are gone with it.
LEMMA CrashKeeps ==
  ASSUME IInv, Crash
  PROVE  IInv'
<1>1. /\ breaker' = ClosedBreaker /\ streak' = 0 /\ straggled' = FALSE
      /\ UNCHANGED <<upstream, snapshot, rows, queue, cache, reader>>
      /\ sync' = [s \in Syncs |-> Resumed(s)]
  BY DEF Crash, readSide
<1>2. ASSUME NEW s \in Syncs
      PROVE  /\ sync'[s] \in SpeciesSyncContext /\ sync'[s].pc # "calling"
             /\ RunOK(sync'[s], rows)
  BY <1>1, <1>2, ResumedIs
<1>3. sync' \in [Syncs -> SpeciesSyncContext]
  BY <1>1, <1>2
<1>4. CounterOK' /\ breaker' \in AsyncCircuitBreaker /\ streak' \in 0 .. failure_threshold
  BY <1>1, Values, ConstantsAssumption DEF CounterOK, ClosedBreaker
<1>5. TypeInv'
  BY <1>1, <1>3, <1>4 DEF IInv, TypeInv, TypeOK
<1>6. TrialOK'
  <2>1. TrialsOf(sync)' = {}
    BY <1>2 DEF TrialsOf
  <2> QED
    BY <2>1 DEF TrialOK
<1>7. UndoOK'
  BY <1>1, <1>2 DEF UndoOK
<1>8. CacheOK'
  BY <1>1, CacheSame DEF IInv
<1> QED
  BY <1>4, <1>5, <1>6, <1>7, <1>8 DEF IInv

-----------------------------------------------------------------------------
(* The environment and the read side *)

\* Requests, editions, the breaker's clock.
LEMMA EnvironmentKeeps ==
  ASSUME IInv, request_sync \/ NewEdition \/ Cool
  PROVE  IInv'
<1>1. UNCHANGED <<snapshot, rows, sync, queue, cache, reader, streak, straggled>>
  BY DEF request_sync, NewEdition, Cool, saga, readSide, history
<1>2. upstream' \in 1 .. MaxEdition
  BY ConstantsAssumption DEF request_sync, NewEdition, Cool, IInv, TypeInv
<1>3. /\ breaker' \in AsyncCircuitBreaker
      /\ breaker'.state = breaker.state /\ breaker'.failures = breaker.failures
      /\ breaker'.trial = breaker.trial
  <2>1. breaker \in AsyncCircuitBreaker
    BY DEF IInv, TypeInv, TypeOK
  <2>2. breaker' = breaker \/ breaker' = [breaker EXCEPT !.cooled = TRUE]
    BY DEF request_sync, NewEdition, Cool
  <2> QED
    BY <2>1, <2>2 DEF AsyncCircuitBreaker
<1>4. TypeInv'
  BY <1>1, <1>2, <1>3 DEF IInv, TypeInv, TypeOK
<1>5. CounterOK'
  BY <1>1, <1>3 DEF IInv, CounterOK
<1>6. TrialOK'
  BY <1>1, <1>3, TrialsSame DEF IInv
<1>7. UndoOK' /\ CacheOK'
  BY <1>1, CacheSame DEF IInv, UndoOK
<1> QED
  BY <1>4, <1>5, <1>6, <1>7 DEF IInv

\* A step of the read side leaves the breaker, the runs and the catalogue alone.
LEMMA ReadSideStep ==
  ASSUME IInv, UNCHANGED <<breaker, upstream, snapshot, rows, saga, history>>,
         queue' \in [SpeciesIds -> Nat],
         cache' \in [SpeciesIds -> CacheEntry], reader' \in [SpeciesIds -> CacheEntry], CacheOK'
  PROVE  IInv'
<1>1. UNCHANGED <<breaker, upstream, snapshot, rows, sync, streak, straggled>>
  BY DEF saga, history
<1>2. TypeInv' /\ CounterOK'
  BY <1>1 DEF IInv, TypeInv, TypeOK, CounterOK
<1>3. TrialOK' /\ UndoOK'
  BY <1>1, TrialsSame DEF IInv, UndoOK
<1> QED
  BY <1>2, <1>3 DEF IInv

\* The row is read on a miss.
LEMMA GetSpeciesMissKeeps ==
  ASSUME IInv, NEW x \in SpeciesIds, GetSpeciesMiss(x)
  PROVE  IInv'
<1>1. /\ reader \in [SpeciesIds -> CacheEntry] /\ cache \in [SpeciesIds -> CacheEntry]
      /\ queue \in [SpeciesIds -> Nat] /\ rows[x] \in Editions
  BY DEF IInv, TypeInv, TypeOK, SpeciesModel
<1>2. /\ reader' = [reader EXCEPT ![x].view = rows[x]]
      /\ UNCHANGED <<breaker, upstream, snapshot, rows, saga, queue, cache, history>>
  BY DEF GetSpeciesMiss
<1>3. /\ reader' \in [SpeciesIds -> CacheEntry] /\ reader'[x].view = rows[x]
      /\ \A y \in SpeciesIds \ {x} : reader'[y] = reader[y]
  BY <1>1, <1>2 DEF CacheEntry
<1>4. CacheOK'
  BY <1>2, <1>3 DEF IInv, CacheOK
<1> QED
  BY <1>1, <1>2, <1>3, <1>4, ReadSideStep

\* The view read then is cached now.
LEMMA CacheSetKeeps ==
  ASSUME IInv, NEW x \in SpeciesIds, CacheSet(x)
  PROVE  IInv'
<1>1. /\ reader \in [SpeciesIds -> CacheEntry] /\ cache \in [SpeciesIds -> CacheEntry]
      /\ queue \in [SpeciesIds -> Nat]
  BY DEF IInv, TypeInv, TypeOK
<1>2. /\ reader' = [reader EXCEPT ![x] = NoEntry]
      /\ cache' = [cache EXCEPT ![x] = reader[x]] \/ cache' = cache
      /\ UNCHANGED <<breaker, upstream, snapshot, rows, saga, queue, history>>
  BY DEF CacheSet, set
<1>3. NoEntry.view = 0
  BY DEF NoEntry
<1>4. /\ reader' \in [SpeciesIds -> CacheEntry] /\ reader'[x] = NoEntry
      /\ \A y \in SpeciesIds \ {x} : reader'[y] = reader[y]
  BY <1>1, <1>2, Values
<1>5. /\ cache' \in [SpeciesIds -> CacheEntry] /\ cache'[x] \in {cache[x], reader[x]}
      /\ \A y \in SpeciesIds \ {x} : cache'[y] = cache[y]
  BY <1>1, <1>2
<1>6. CacheOK'
  BY <1>2, <1>3, <1>4, <1>5 DEF IInv, CacheOK
<1> QED
  BY <1>1, <1>2, <1>4, <1>5, <1>6, ReadSideStep

\* An invalidating event is consumed, or the entry's time is over.
LEMMA InvalidateEntryKeeps ==
  ASSUME IInv, NEW x \in SpeciesIds, InvalidateEntry(x)
  PROVE  IInv'
<1>1. /\ reader \in [SpeciesIds -> CacheEntry] /\ cache \in [SpeciesIds -> CacheEntry]
      /\ queue \in [SpeciesIds -> Nat]
  BY DEF IInv, TypeInv, TypeOK
<1>2. /\ queue' = [queue EXCEPT ![x] = queue[x] - 1] /\ queue[x] > 0
      /\ cache' = [cache EXCEPT ![x] = NoEntry] \/ cache' = Excuse(cache, {x})
      /\ UNCHANGED <<breaker, upstream, snapshot, rows, saga, reader, history>>
  BY DEF InvalidateEntry, invalidate
<1>3. /\ queue' \in [SpeciesIds -> Nat]
      /\ \A y \in SpeciesIds \ {x} : queue'[y] = queue[y]
  <2>1. queue[x] - 1 \in Nat
    BY <1>1, <1>2
  <2> QED
    BY <1>1, <1>2, <2>1
<1>4. NoEntry.view = 0
  BY DEF NoEntry
<1>5. /\ cache' \in [SpeciesIds -> CacheEntry]
      /\ cache'[x].view # 0 => cache'[x].excused
      /\ \A y \in SpeciesIds \ {x} :
           cache'[y].view \in {0, cache[y].view} /\ (cache[y].excused => cache'[y].excused)
  <2>1. CASE cache' = [cache EXCEPT ![x] = NoEntry]
    BY <1>1, <1>4, <2>1, Values
  <2>2. CASE cache' = Excuse(cache, {x})
    BY <1>1, <2>2, ExcuseIs
  <2> QED
    BY <1>2, <2>1, <2>2
<1>6. CacheOK'
  <2> SUFFICES ASSUME NEW y \in SpeciesIds
               PROVE  /\ reader[y].view \notin {0, rows[y]} => reader[y].excused
                      /\ cache'[y].view \notin {0, rows[y]} /\ queue'[y] = 0 => cache'[y].excused
    BY <1>2 DEF CacheOK
  <2>1. CASE y = x
    BY <1>5, <2>1 DEF IInv, CacheOK
  <2>2. CASE y # x
    BY <1>3, <1>5, <2>2 DEF IInv, CacheOK
  <2> QED
    BY <2>1, <2>2
<1> QED
  BY <1>1, <1>2, <1>3, <1>5, <1>6, ReadSideStep

\* The entry's time to live is over.
LEMMA ExpireKeeps ==
  ASSUME IInv, NEW x \in SpeciesIds, Expire(x)
  PROVE  IInv'
<1>1. /\ reader \in [SpeciesIds -> CacheEntry] /\ cache \in [SpeciesIds -> CacheEntry]
      /\ queue \in [SpeciesIds -> Nat]
  BY DEF IInv, TypeInv, TypeOK
<1>2. /\ cache' = [cache EXCEPT ![x] = NoEntry]
      /\ UNCHANGED <<breaker, upstream, snapshot, rows, saga, queue, reader, history>>
  BY DEF Expire
<1>3. NoEntry.view = 0
  BY DEF NoEntry
<1>4. /\ cache' \in [SpeciesIds -> CacheEntry] /\ cache'[x] = NoEntry
      /\ \A y \in SpeciesIds \ {x} : cache'[y] = cache[y]
  BY <1>1, <1>2, Values
<1>5. CacheOK'
  BY <1>2, <1>3, <1>4 DEF IInv, CacheOK
<1> QED
  BY <1>1, <1>2, <1>4, <1>5, ReadSideStep

-----------------------------------------------------------------------------
(* The theorems *)

\* A process that has made calls before, an empty catalogue and cache.
LEMMA InitInv == Init => IInv
<1> SUFFICES ASSUME Init PROVE IInv
  OBVIOUS
<1> USE ConstantsAssumption
<1>1. /\ streak \in 0 .. failure_threshold
      /\ breaker = IF streak = failure_threshold THEN opened
                   ELSE [ClosedBreaker EXCEPT !.failures = streak]
  BY DEF Init
<1>2. breaker \in AsyncCircuitBreaker /\ CounterOK
  <2>1. CASE streak = failure_threshold
    BY <1>1, <2>1, Values DEF CounterOK, opened
  <2>2. CASE streak # failure_threshold
    <3>1. breaker = [ClosedBreaker EXCEPT !.failures = streak]
      BY <1>1, <2>2
    <3>2. breaker \in AsyncCircuitBreaker
      BY <1>1, <3>1, Values DEF AsyncCircuitBreaker
    <3>3. breaker.state = "closed" /\ breaker.failures = streak
      BY <3>1 DEF ClosedBreaker
    <3> QED
      BY <1>1, <2>2, <3>2, <3>3 DEF CounterOK
  <2> QED
    BY <2>1, <2>2
<1>3. \A s \in Syncs : sync[s].pc = "idle" /\ sync[s] \in SpeciesSyncContext /\ RunOK(sync[s], rows)
  BY Values DEF Init
<1>4. sync \in [Syncs -> SpeciesSyncContext]
  BY <1>3 DEF Init
<1>5. TypeInv
  <2>1. upstream = 1 /\ straggled = FALSE
    BY DEF Init
  <2>2. upstream \in 1 .. MaxEdition
    BY <2>1
  <2>3. straggled \in BOOLEAN
    BY <2>1
  <2>4. snapshot \in SpeciesRecord /\ rows \in SpeciesModel
    BY Values DEF Init, SpeciesRecord, SpeciesModel
  <2>5. queue \in [SpeciesIds -> Nat]
    BY DEF Init
  <2>6. NoEntry \in CacheEntry
    BY Values
  <2>7. cache \in [SpeciesIds -> CacheEntry] /\ reader \in [SpeciesIds -> CacheEntry]
    BY <2>6 DEF Init
  <2> QED
    BY <1>1, <1>2, <1>4, <2>2, <2>3, <2>4, <2>5, <2>7 DEF TypeInv, TypeOK
<1>6. TrialOK
  <2>1. TrialsOf(sync) = {}
    BY <1>3 DEF TrialsOf
  <2> QED
    BY <2>1 DEF TrialOK
<1>7. UndoOK
  BY <1>3 DEF UndoOK
<1>8. CacheOK
  BY DEF Init, CacheOK, NoEntry
<1> QED
  BY <1>2, <1>5, <1>6, <1>7, <1>8 DEF IInv

\* Every step keeps the invariant.
LEMMA Step == IInv /\ [Next]_vars => IInv'
<1> SUFFICES ASSUME IInv, [Next]_vars PROVE IInv'
  OBVIOUS
<1>1. ASSUME NEW s \in Syncs, SyncStep(s) PROVE IInv'
  BY <1>1, StartSyncKeeps, AdmitKeeps, RejectKeeps, AnsweredKeeps, SkippedKeeps,
     UnavailableKeeps, RefusedKeeps, SaveKeeps, FallbackKeeps, ApplyKeeps, ApplyFailsKeeps,
     CheckpointKeeps, InvalidateKeeps, InvalidateFailsKeeps, CompensateKeeps,
     RetryKeeps, ParkKeeps DEF SyncStep
<1>2. ASSUME NEW x \in SpeciesIds,
             GetSpeciesMiss(x) \/ CacheSet(x) \/ InvalidateEntry(x) \/ Expire(x)
      PROVE  IInv'
  BY <1>2, GetSpeciesMissKeeps, CacheSetKeeps, InvalidateEntryKeeps, ExpireKeeps
<1>3. ASSUME DailyTick \/ RequestSpeciesSync \/ NewEdition \/ Cool \/ Crash PROVE IInv'
  BY <1>3, EnvironmentKeeps, CrashKeeps DEF DailyTick, RequestSpeciesSync
<1>4. ASSUME UNCHANGED vars PROVE IInv'
  <2>1. /\ UNCHANGED <<breaker, upstream, snapshot, rows, saga, history>>
        /\ UNCHANGED <<rows, queue, cache, reader>>
    BY <1>4 DEF vars, readSide
  <2>2. CacheOK'
    BY <2>1, CacheSame DEF IInv
  <2>3. /\ queue \in [SpeciesIds -> Nat]
        /\ cache \in [SpeciesIds -> CacheEntry] /\ reader \in [SpeciesIds -> CacheEntry]
    BY DEF IInv, TypeInv, TypeOK
  <2> QED
    BY <2>1, <2>2, <2>3, ReadSideStep
<1> QED
  BY <1>1, <1>2, <1>3, <1>4 DEF Next

\* The invariant holds in every state.
THEOREM Inductive == Spec => []IInv
  BY InitInv, Step, PTL DEF Spec

\* The circuit breaker keeps its contract for any number of concurrent calls: it
\* is closed exactly while the streak of failures is shorter than its threshold,
\* and lets one trial through unless a call outlived the state that admitted it.
THEOREM BreakerSafe == Spec => []BreakerHolds
<1>1. IInv => BreakerHolds
  <2> SUFFICES ASSUME IInv PROVE BreakerHolds
    OBVIOUS
  <2>1. ClosedIffShortStreak
    BY ConstantsAssumption DEF IInv, TypeInv, CounterOK, ClosedIffShortStreak
  <2>2. OneTrial
    <3> SUFFICES ASSUME ~straggled PROVE Cardinality(TrialsOf(sync)) <= 1
      BY DEF OneTrial
    <3>1. CASE TrialsOf(sync) = {}
      BY <3>1, FS_EmptySet
    <3>2. CASE TrialsOf(sync) # {}
      <4>1. PICK s \in TrialsOf(sync) : TRUE
        BY <3>2
      <4>2. TrialsOf(sync) = {s}
        BY DEF IInv, TrialOK
      <4>3. Cardinality({s}) = 1
        BY FS_Singleton
      <4> QED
        BY <4>2, <4>3
    <3> QED
      BY <3>1, <3>2
  <2> QED
    BY <2>1, <2>2 DEF BreakerHolds, IInv, TypeInv
<1> QED
  BY <1>1, Inductive, PTL

\* A cached species differs from its row, with no invalidating event on its way,
\* only in the ways that are known: read before a commit and set after it, a DEL
\* that failed, or a species a rollback deleted.
THEOREM StaleKnown == Spec => []StaleOnlyKnownWays
<1>1. IInv => StaleOnlyKnownWays
  BY DEF IInv, CacheOK, StaleOnlyKnownWays
<1> QED
  BY <1>1, Inductive, PTL

\* A saga that failed, in whatever attempt and at whatever step, leaves the
\* catalogue exactly as its first Apply found it, when nobody else wrote the
\* catalogue since and no process died between Apply's commit and its checkpoint:
\* retries, crashes anywhere else and a compensation done twice included.
THEOREM FailedRunIsUndone == Spec => []FailedRunUndone
<1>1. IInv => FailedRunUndone
  <2> SUFFICES ASSUME IInv, NEW s \in Syncs, sync[s].pc = "failed",
                      sync[s].base = "alone", ~sync[s].torn
               PROVE  rows = sync[s].before
    BY DEF FailedRunUndone
  <2>1. Remembers(sync[s], rows)
    BY DEF IInv, UndoOK, RunOK, Clean
  <2>2. \A x \in SpeciesIds : rows[x] = sync[s].before[x]
    BY <2>1 DEF Remembers, Undoable
  <2>3. rows \in [SpeciesIds -> Editions] /\ sync[s].before \in [SpeciesIds -> Editions]
    BY ContextFields DEF IInv, TypeInv, TypeOK, SpeciesModel
  <2> QED
    BY <2>2, <2>3
<1> QED
  BY <1>1, Inductive, PTL
=============================================================================
